--------------------------- MODULE ConfigFlowProofs ---------------------------
(***************************************************************************)
(* Proofs about setting up any number of receivers in any number of flows: *)
(* each gets one entry, with the credentials of the receiver that minted   *)
(* them, whose host follows the receiver's announcements.                  *)
(***************************************************************************)
EXTENDS ConfigFlow, TLAPS

(* What a flow has learned by the step it shows. *)
FlowOK(r) ==
  /\ r.step = "idle" => r = NewFlow
  /\ r.reason # "none" => r.step = "aborted"
  /\ r.step \in Forms => r.creds = None
  /\ r.step \in Forms \ {"link_hopper"} => r.linked = None
  /\ r.step = "delegate" => r.method = "delegate"
  /\ r.step \in {"pair", "pair_pin", "ssdp_confirm", "link_hopper"} => r.method = "local_http"
  /\ r.step = "link_hopper" =>
       r.serial \in Boxes /\ LinkOf[r.serial] # None /\ r.linked = LinkOf[r.serial]

(* What an entry may hold: a local one was paired with its own receiver,   *)
(* or linked to the Hopper's entry.                                        *)
EntryOK(e) ==
  /\ e.serial # None => e.unique = e.serial
  /\ e.method = "delegate" => e.creds = None
  /\ e.method = "local_http" =>
       /\ e.serial \in Boxes
       /\ IF e.linked = None
          THEN e.creds = e.serial /\ LinkOf[e.serial] = None
          ELSE LinkOf[e.serial] # None /\ e.creds \in {None, LinkOf[e.serial]}

(* Entries are told apart by their unique ids. *)
Keyed == \A e, d \in entries : e.unique # None /\ e.unique = d.unique => e = d

(* As long as a flow shows a form no entry has its unique id. *)
Vacant ==
  \A f \in Flows :
    flows[f].step \in Forms /\ flows[f].unique # None => Configured(flows[f].unique) = {}

FlowsOK == \A f \in Flows : FlowOK(flows[f])
EntriesOK == Keyed /\ \A e \in entries : EntryOK(e)

IInv == TypeOK /\ FlowsOK /\ EntriesOK /\ Vacant

LEMMA NewFlowType == NewFlow \in FlowRecords /\ FlowOK(NewFlow)
  BY DEF NewFlow, FlowRecords, FlowOK, Forms, Errors, Reasons, Uniques

LEMMA InitIInv == Init => IInv
<1> SUFFICES ASSUME Init
             PROVE  IInv
  OBVIOUS
<1>1. TypeOK
  <2>1. addr \in [Boxes -> Addrs]
    BY DEF Init
  <2>2. heard \in [Boxes -> BOOLEAN] /\ pin \in [Boxes -> Flows \cup {None}]
    BY DEF Init
  <2>3. flows \in [Flows -> FlowRecords] /\ entries \subseteq Entries
    BY NewFlowType DEF Init
  <2> QED
    BY <2>1, <2>2, <2>3 DEF TypeOK
<1>2. FlowsOK
  BY NewFlowType DEF Init, FlowsOK
<1>3. EntriesOK
  BY DEF Init, EntriesOK, Keyed
<1>4. Vacant
  BY DEF Init, Vacant, NewFlow, Forms
<1> QED
  BY <1>1, <1>2, <1>3, <1>4 DEF IInv

(* One flow goes on, the others stay as they are. *)
LEMMA Updated ==
  ASSUME flows \in [Flows -> FlowRecords], NEW f \in Flows, NEW to \in FlowRecords,
         flows' = [flows EXCEPT ![f] = to]
  PROVE  /\ flows' \in [Flows -> FlowRecords] /\ flows'[f] = to
         /\ \A g \in Flows : g # f => flows'[g] = flows[g]
  OBVIOUS

(* What a flow keeps from one step to the next. *)
SameData(r, data) ==
  /\ r.method = data.method /\ r.host = data.host /\ r.serial = data.serial
  /\ r.linked = data.linked /\ r.creds = data.creds /\ r.unique = data.unique

LEMMA ShowType ==
  ASSUME flows \in [Flows -> FlowRecords], NEW f \in Flows, NEW data \in FlowRecords,
         NEW step \in Forms, NEW error \in Errors, Show(f, data, step, error)
  PROVE  /\ flows' \in [Flows -> FlowRecords]
         /\ SameData(flows'[f], data) /\ flows'[f].step = step /\ flows'[f].reason = data.reason
         /\ \A g \in Flows : g # f => flows'[g] = flows[g]
<1> DEFINE to == [data EXCEPT !.step = step, !.error = error]
<1>1. /\ to \in FlowRecords /\ SameData(to, data)
      /\ to.step = step /\ to.reason = data.reason
  BY DEF FlowRecords, SameData
<1>2. flows' = [flows EXCEPT ![f] = to]
  BY DEF Show
<1> HIDE DEF to
<1> QED
  BY <1>1, <1>2, Updated

LEMMA AbortType ==
  ASSUME flows \in [Flows -> FlowRecords], NEW f \in Flows, NEW data \in FlowRecords,
         NEW reason \in Reasons, Abort(f, data, reason)
  PROVE  /\ flows' \in [Flows -> FlowRecords]
         /\ SameData(flows'[f], data) /\ flows'[f].step = "aborted" /\ flows'[f].reason = reason
         /\ \A g \in Flows : g # f => flows'[g] = flows[g]
<1> DEFINE to == [data EXCEPT !.step = "aborted", !.reason = reason]
<1>1. /\ to \in FlowRecords /\ SameData(to, data)
      /\ to.step = "aborted" /\ to.reason = reason
  BY DEF FlowRecords, SameData
<1>2. flows' = [flows EXCEPT ![f] = to]
  BY DEF Abort
<1> HIDE DEF to
<1> QED
  BY <1>1, <1>2, Updated

(* Bringing the host of an entry up to date changes nothing else. *)
LEMMA WithHostKeeps ==
  ASSUME entries \subseteq Entries, EntriesOK, NEW unique, NEW host \in Addrs \cup {None},
         entries' = WithHost(unique, host)
  PROVE  /\ entries' \subseteq Entries /\ EntriesOK'
         /\ \A u : Configured(u) = {} => (Configured(u) = {})'
<1> DEFINE At(e) == IF e.unique = unique THEN [e EXCEPT !.host = host] ELSE e
<1>1. ASSUME NEW e \in entries
      PROVE  /\ At(e) \in Entries /\ At(e).unique = e.unique /\ EntryOK(At(e))
  <2>1. EntryOK(e) /\ e \in Entries
    BY DEF EntriesOK
  <2>2. CASE e.unique # unique
    BY <2>1, <2>2
  <2>3. CASE e.unique = unique
    <3>1. At(e) = [e EXCEPT !.host = host]
      BY <2>3
    <3>2. /\ At(e) \in Entries
          /\ At(e).unique = e.unique /\ At(e).serial = e.serial /\ At(e).method = e.method
          /\ At(e).linked = e.linked /\ At(e).creds = e.creds
      BY <2>1, <3>1 DEF Entries
    <3> HIDE DEF At
    <3> QED
      BY <2>1, <3>2 DEF EntryOK
  <2> QED
    BY <2>2, <2>3
<1>2. entries' = {At(e) : e \in entries}
  BY DEF WithHost
<1> HIDE DEF At
<1>3. Keyed'
  <2> SUFFICES ASSUME NEW e \in entries', NEW d \in entries',
                      e.unique # None, e.unique = d.unique
               PROVE  e = d
    BY DEF Keyed
  <2>1. PICK x \in entries : e = At(x)
    BY <1>2
  <2>2. PICK y \in entries : d = At(y)
    BY <1>2
  <2>3. x = y
    BY <1>1, <2>1, <2>2 DEF EntriesOK, Keyed
  <2> QED
    BY <2>1, <2>2, <2>3
<1>4. entries' \subseteq Entries /\ \A e \in entries' : EntryOK(e)
  BY <1>1, <1>2
<1>5. \A u : Configured(u) = {} => (Configured(u) = {})'
  BY <1>1, <1>2 DEF Configured
<1> QED
  BY <1>3, <1>4, <1>5 DEF EntriesOK

(* A flow that ends: what it collected is fit for an entry. *)
Fit(data) ==
  /\ data.reason = "none"
  /\ data.method \in {"local_http", "delegate"}
  /\ EntryOK(EntryOf(data, UniqueOf(data)))

LEMMA EntryOfType ==
  ASSUME NEW data \in FlowRecords, Fit(data)
  PROVE  /\ UniqueOf(data) \in Uniques
         /\ EntryOf(data, UniqueOf(data)) \in Entries
         /\ EntryOf(data, UniqueOf(data)).unique = UniqueOf(data)
<1>1. UniqueOf(data) \in Uniques
  BY DEF UniqueOf, Uniques, FlowRecords
<1> QED
  BY <1>1 DEF EntryOf, Entries, FlowRecords, Fit

(* A new entry has a unique id of its own, which no open flow has. *)
LEMMA create_entryKeeps ==
  ASSUME IInv, NEW f \in Flows, flows[f].step \in Forms,
         NEW data \in FlowRecords, Fit(data), create_entry(f, data)
  PROVE  /\ flows' \in [Flows -> FlowRecords] /\ entries' \subseteq Entries
         /\ FlowsOK' /\ EntriesOK' /\ Vacant'
<1> DEFINE unique == UniqueOf(data)
           keyed == [data EXCEPT !.unique = unique]
<1>0. /\ flows \in [Flows -> FlowRecords] /\ entries \subseteq Entries
      /\ FlowsOK /\ EntriesOK /\ Vacant
      /\ unique \in Uniques /\ data.host \in Addrs \cup {None}
  BY EntryOfType DEF IInv, TypeOK, FlowRecords
<1>1. keyed \in FlowRecords /\ keyed.reason = "none"
  BY <1>0 DEF FlowRecords, Fit
<1>2. ASSUME flows' \in [Flows -> FlowRecords],
             flows'[f].step \in {"aborted", "created"},
             flows'[f].reason # "none" => flows'[f].step = "aborted",
             \A g \in Flows : g # f => flows'[g] = flows[g]
      PROVE  /\ FlowsOK'
             /\ (\A u : Configured(u) = {} => (Configured(u) = {})') => Vacant'
  <2>1. FlowOK(flows'[f]) /\ flows'[f].step \notin Forms
    BY <1>2 DEF FlowOK, Forms
  <2> QED
    BY <1>0, <1>2, <2>1 DEF FlowsOK, Vacant
<1> HIDE DEF keyed
<1>3. CASE Abort(f, data, "already_in_progress") /\ UNCHANGED entries
  <2>1. /\ flows' \in [Flows -> FlowRecords] /\ flows'[f].step = "aborted"
        /\ \A g \in Flows : g # f => flows'[g] = flows[g]
    BY <1>0, <1>3, AbortType DEF Reasons
  <2>2. EntriesOK' /\ \A u : Configured(u) = {} => (Configured(u) = {})'
    BY <1>0, <1>3 DEF EntriesOK, Keyed, Configured
  <2> QED
    BY <1>0, <1>2, <1>3, <2>1, <2>2
<1>4. CASE Abort(f, keyed, "already_configured") /\ entries' = WithHost(unique, data.host)
  <2>1. /\ flows' \in [Flows -> FlowRecords] /\ flows'[f].step = "aborted"
        /\ \A g \in Flows : g # f => flows'[g] = flows[g]
    BY <1>0, <1>1, <1>4, AbortType DEF Reasons
  <2>2. /\ entries' \subseteq Entries /\ EntriesOK'
        /\ \A u : Configured(u) = {} => (Configured(u) = {})'
    BY <1>0, <1>4, WithHostKeeps
  <2> QED
    BY <1>0, <1>2, <1>4, <2>1, <2>2
<1>5. CASE /\ unique # None => ~InProgress(f, unique) /\ Configured(unique) = {}
           /\ flows' = [flows EXCEPT ![f] = [keyed EXCEPT !.step = "created"]]
           /\ entries' = entries \cup {EntryOf(data, unique)}
  <2> DEFINE to == [keyed EXCEPT !.step = "created"]
  <2>1. to \in FlowRecords /\ to.step = "created" /\ to.reason = "none"
    BY <1>1 DEF FlowRecords
  <2>2. flows' = [flows EXCEPT ![f] = to]
    BY <1>5
  <2> HIDE DEF to
  <2>3. /\ flows' \in [Flows -> FlowRecords] /\ flows'[f] = to
        /\ \A g \in Flows : g # f => flows'[g] = flows[g]
    BY <1>0, <2>1, <2>2, Updated
  <2>4. FlowsOK'
    BY <1>2, <2>1, <2>3
  <2> DEFINE new == EntryOf(data, unique)
  <2>5. new \in Entries /\ new.unique = unique /\ EntryOK(new)
    BY EntryOfType DEF Fit
  <2>6. entries' = entries \cup {new}
    BY <1>5
  <2> HIDE DEF new
  <2>7. unique # None => \A e \in entries : e.unique # unique
    BY <1>5 DEF Configured
  <2>8. entries' \subseteq Entries /\ EntriesOK'
    BY <1>0, <2>5, <2>6, <2>7 DEF EntriesOK, Keyed
  <2>9. ASSUME NEW g \in Flows, flows'[g].step \in Forms, flows'[g].unique # None
        PROVE  \A e \in entries' : e.unique # flows'[g].unique
    <3>1. g # f /\ flows'[g] = flows[g]
      BY <2>1, <2>3, <2>9 DEF Forms
    <3>2. flows[g].unique # unique
      BY <1>5, <2>9, <3>1 DEF InProgress
    <3>3. Configured(flows[g].unique) = {}
      BY <1>0, <2>9, <3>1 DEF Vacant
    <3> QED
      BY <2>5, <2>6, <3>1, <3>2, <3>3 DEF Configured
  <2> QED
    BY <2>3, <2>4, <2>8, <2>9 DEF Vacant, Configured
<1> QED
  BY <1>3, <1>4, <1>5 DEF create_entry, keyed

-----------------------------------------------------------------------------
(* A flow that shows a form: it is fit for it, and its unique id is the    *)
(* one it had or one that no entry has.                                    *)
LEMMA ShowKeeps ==
  ASSUME IInv, NEW f \in Flows, NEW data \in FlowRecords,
         NEW step \in Forms, NEW error \in Errors, Show(f, data, step, error),
         entries' = entries,
         data.reason = "none", data.creds = None,
         step # "link_hopper" => data.linked = None,
         step = "delegate" => data.method = "delegate",
         step \in {"pair", "pair_pin", "ssdp_confirm", "link_hopper"} => data.method = "local_http",
         step = "link_hopper" =>
           data.serial \in Boxes /\ LinkOf[data.serial] # None /\ data.linked = LinkOf[data.serial],
         \/ data.unique = None
         \/ data.unique = flows[f].unique /\ flows[f].step \in Forms
         \/ Configured(data.unique) = {}
  PROVE  flows' \in [Flows -> FlowRecords] /\ FlowsOK' /\ EntriesOK' /\ Vacant'
<1>1. /\ flows' \in [Flows -> FlowRecords]
      /\ SameData(flows'[f], data) /\ flows'[f].step = step /\ flows'[f].reason = data.reason
      /\ \A g \in Flows : g # f => flows'[g] = flows[g]
  BY ShowType DEF IInv, TypeOK
<1>2. FlowOK(flows'[f])
  BY <1>1 DEF FlowOK, SameData, Forms
<1>3. FlowsOK' /\ EntriesOK'
  BY <1>1, <1>2 DEF IInv, FlowsOK, EntriesOK, Keyed
<1>4. Vacant'
  BY <1>1 DEF IInv, Vacant, Configured, SameData
<1> QED
  BY <1>1, <1>3, <1>4

LEMMA AbortKeeps ==
  ASSUME IInv, NEW f \in Flows, NEW data \in FlowRecords,
         NEW reason \in Reasons, Abort(f, data, reason), entries' = entries
  PROVE  flows' \in [Flows -> FlowRecords] /\ FlowsOK' /\ EntriesOK' /\ Vacant'
<1>1. /\ flows' \in [Flows -> FlowRecords] /\ flows'[f].step = "aborted"
      /\ \A g \in Flows : g # f => flows'[g] = flows[g]
  BY AbortType DEF IInv, TypeOK
<1>2. FlowOK(flows'[f])
  BY <1>1 DEF FlowOK, Forms
<1>3. FlowsOK' /\ EntriesOK'
  BY <1>1, <1>2 DEF IInv, FlowsOK, EntriesOK, Keyed
<1>4. Vacant'
  BY <1>1 DEF IInv, Vacant, Configured, Forms
<1> QED
  BY <1>1, <1>3, <1>4

LEMMA pairKeeps ==
  ASSUME IInv, NEW f \in Flows, flows[f].step \in Forms, NEW data \in FlowRecords,
         data.method = "local_http", data.reason = "none", data.creds = None,
         data.linked = None, data.unique = flows[f].unique,
         pair(f, data), entries' = entries
  PROVE  /\ flows' \in [Flows -> FlowRecords] /\ FlowsOK' /\ EntriesOK' /\ Vacant'
         /\ pin' \in [Boxes -> Flows \cup {None}]
<1>1. CASE Show(f, data, "user_blank", "none") /\ UNCHANGED pin
  BY <1>1, ShowKeeps DEF Forms, Errors, IInv, TypeOK
<1>2. ASSUME NEW serial \in Resolved(data), NEW known,
             known = [data EXCEPT !.serial = serial],
             \/ \E b \in PairsAt(data.host, serial) :
                  pin' = [pin EXCEPT ![b] = f] /\ Show(f, known, "pair_pin", "none")
             \/ Show(f, known, "pair", "cannot_connect") /\ UNCHANGED pin
      PROVE  /\ flows' \in [Flows -> FlowRecords] /\ FlowsOK' /\ EntriesOK' /\ Vacant'
             /\ pin' \in [Boxes -> Flows \cup {None}]
  <2>1. serial \in Boxes \cup {None}
    BY DEF Resolved, FlowRecords
  <2>2. known \in FlowRecords /\ SameData(known, [data EXCEPT !.serial = serial])
    BY <1>2, <2>1 DEF FlowRecords, SameData
  <2>3. /\ known.method = "local_http" /\ known.reason = "none" /\ known.creds = None
        /\ known.linked = None /\ known.unique = flows[f].unique
    BY <1>2, <2>1 DEF FlowRecords
  <2>4. pin' \in [Boxes -> Flows \cup {None}]
    BY <1>2 DEF IInv, TypeOK
  <2>5. PICK step \in {"pair", "pair_pin"}, error \in {"none", "cannot_connect"} :
          Show(f, known, step, error)
    BY <1>2
  <2>6. step \in Forms /\ error \in Errors
    BY DEF Forms, Errors
  <2> QED
    BY <2>2, <2>3, <2>4, <2>5, <2>6, ShowKeeps
<1> QED
  BY <1>1, <1>2 DEF pair

-----------------------------------------------------------------------------
(* What the steps of a flow rely on. *)
LEMMA OpenFlow ==
  ASSUME IInv, NEW f \in Flows
  PROVE  /\ flows[f] \in FlowRecords /\ FlowOK(flows[f])
         /\ flows[f].step = "idle" => flows[f] = NewFlow
         /\ flows[f].step \in Forms => flows[f].reason = "none" /\ flows[f].creds = None
  BY DEF IInv, TypeOK, FlowsOK, FlowOK, Forms

(* The parts of the invariant that the flows and the entries make up. *)
Kept ==
  /\ flows' \in [Flows -> FlowRecords] /\ entries' \subseteq Entries
  /\ FlowsOK' /\ EntriesOK' /\ Vacant'

LEMMA UserStartKeeps ==
  ASSUME IInv, NEW f \in Flows, UserStart(f)
  PROVE  Kept
<1>1. PICK found \in Discovered :
        Show(f, [flows[f] EXCEPT !.serial = found.serial, !.mac = found.mac], "user", "none")
  BY DEF UserStart
<1>2. found.serial \in Boxes \cup {None} /\ found.mac \in Uniques
  BY DEF Discovered, Uniques, IInv, TypeOK
<1> DEFINE data == [flows[f] EXCEPT !.serial = found.serial, !.mac = found.mac]
<1>3. /\ flows[f] \in FlowRecords /\ flows[f].reason = "none" /\ flows[f].creds = None
      /\ flows[f].linked = None /\ flows[f].unique = None
  <2>1. flows[f] = NewFlow
    BY OpenFlow DEF UserStart
  <2> QED
    BY <2>1, NewFlowType DEF NewFlow
<1>4. /\ data \in FlowRecords /\ data.reason = "none" /\ data.creds = None
      /\ data.linked = None /\ data.unique = None
  BY <1>2, <1>3 DEF FlowRecords
<1>5. Show(f, data, "user", "none")
  BY <1>1
<1> HIDE DEF data
<1> QED
  BY <1>4, <1>5, ShowKeeps DEF UserStart, Kept, Forms, Errors, IInv, TypeOK

LEMMA UserSubmitKeeps ==
  ASSUME IInv, NEW f \in Flows, UserSubmit(f)
  PROVE  Kept /\ pin' \in [Boxes -> Flows \cup {None}]
<1>1. PICK method \in Methods, host \in Addrs \cup {None} :
        LET data == [flows[f] EXCEPT !.method = method, !.host = host] IN
        \/ method = "local_http" /\ pair(f, data)
        \/ method = "delegate" /\ Show(f, data, "delegate", "none") /\ UNCHANGED pin
        \/ method = "cloud" /\ Show(f, data, "cloud", "none") /\ UNCHANGED pin
  BY DEF UserSubmit
<1> DEFINE data == [flows[f] EXCEPT !.method = method, !.host = host]
<1>2. flows[f].step = "user" /\ flows[f].step \in Forms /\ entries' = entries
  BY DEF UserSubmit, Forms
<1> HIDE DEF data
<1>3. /\ flows[f] \in FlowRecords /\ flows[f].reason = "none" /\ flows[f].creds = None
      /\ flows[f].linked = None
  BY <1>2, OpenFlow DEF FlowOK
<1>4. method \in {"local_http", "cloud", "delegate"}
  BY ConfigFlowAssumption
<1>5. /\ data \in FlowRecords /\ data.reason = "none" /\ data.creds = None
      /\ data.method = method /\ data.linked = None /\ data.unique = flows[f].unique
  BY <1>3, <1>4 DEF FlowRecords, data
<1>6. \/ method = "local_http" /\ pair(f, data)
      \/ method = "delegate" /\ Show(f, data, "delegate", "none") /\ UNCHANGED pin
      \/ method = "cloud" /\ Show(f, data, "cloud", "none") /\ UNCHANGED pin
  BY <1>1 DEF data
<1>7. CASE method = "local_http" /\ pair(f, data)
  BY <1>2, <1>5, <1>7, pairKeeps DEF Kept, IInv, TypeOK
<1>8. ASSUME NEW step \in {"delegate", "cloud"}, method = step, Show(f, data, step, "none"),
             UNCHANGED pin
      PROVE  Kept /\ pin' \in [Boxes -> Flows \cup {None}]
  BY <1>2, <1>5, <1>8, ShowKeeps DEF Kept, Forms, Errors, IInv, TypeOK
<1> QED
  BY <1>6, <1>7, <1>8

LEMMA PairSubmitKeeps ==
  ASSUME IInv, NEW f \in Flows, PairSubmit(f)
  PROVE  Kept /\ pin' \in [Boxes -> Flows \cup {None}]
<1>1. flows[f].step \in {"ssdp_confirm", "pair"} /\ entries' = entries
  BY DEF PairSubmit
<1>2. /\ flows[f] \in FlowRecords /\ flows[f].step \in Forms
      /\ flows[f].reason = "none" /\ flows[f].creds = None
      /\ flows[f].linked = None /\ flows[f].method = "local_http"
  BY <1>1, OpenFlow DEF FlowOK, Forms
<1>3. CASE pair(f, flows[f])
  BY <1>1, <1>2, <1>3, pairKeeps DEF Kept, IInv, TypeOK
<1>4. ASSUME NEW serial \in Boxes \cup {None}, pair(f, [flows[f] EXCEPT !.serial = serial])
      PROVE  Kept /\ pin' \in [Boxes -> Flows \cup {None}]
  <2> DEFINE data == [flows[f] EXCEPT !.serial = serial]
  <2>1. /\ data \in FlowRecords /\ data.reason = "none" /\ data.creds = None
        /\ data.linked = None /\ data.method = "local_http" /\ data.unique = flows[f].unique
    BY <1>2 DEF FlowRecords
  <2>2. pair(f, data)
    BY <1>4
  <2> HIDE DEF data
  <2> QED
    BY <1>1, <1>2, <2>1, <2>2, pairKeeps DEF Kept, IInv, TypeOK
<1>5. flows[f].serial \in Boxes \cup {None}
  BY <1>2 DEF FlowRecords
<1> QED
  BY <1>3, <1>4, <1>5 DEF PairSubmit

LEMMA DelegateSubmitKeeps ==
  ASSUME IInv, NEW f \in Flows, DelegateSubmit(f)
  PROVE  Kept
<1>1. flows[f].step = "delegate" /\ create_entry(f, flows[f])
  BY DEF DelegateSubmit
<1>2. /\ flows[f] \in FlowRecords /\ flows[f].step \in Forms
      /\ flows[f].reason = "none" /\ flows[f].creds = None /\ flows[f].method = "delegate"
  BY <1>1, OpenFlow DEF FlowOK, Forms
<1>3. Fit(flows[f])
  BY <1>2 DEF Fit, EntryOK, EntryOf, UniqueOf
<1> QED
  BY <1>1, <1>2, <1>3, create_entryKeeps DEF Kept

LEMMA PinSubmitKeeps ==
  ASSUME IInv, NEW f \in Flows, PinSubmit(f)
  PROVE  Kept /\ pin' \in [Boxes -> Flows \cup {None}]
<1>1. /\ flows[f].step = "pair_pin" /\ flows[f] \in FlowRecords /\ flows[f].step \in Forms
      /\ flows[f].reason = "none" /\ flows[f].creds = None
      /\ flows[f].linked = None /\ flows[f].method = "local_http"
  BY OpenFlow DEF PinSubmit, FlowOK, Forms
<1>2. ASSUME NEW b \in PairsAt(flows[f].host, flows[f].serial), pin' = [pin EXCEPT ![b] = None],
             create_entry(f, [flows[f] EXCEPT !.creds = b])
      PROVE  Kept /\ pin' \in [Boxes -> Flows \cup {None}]
  <2> DEFINE data == [flows[f] EXCEPT !.creds = b]
  <2>1. b \in Boxes /\ b = flows[f].serial /\ LinkOf[b] = None
    BY DEF PairsAt
  <2>2. /\ data \in FlowRecords /\ data.reason = "none" /\ data.creds = b /\ data.serial = b
        /\ data.linked = None /\ data.method = "local_http"
    BY <1>1, <2>1 DEF FlowRecords
  <2>3. create_entry(f, data)
    BY <1>2
  <2> HIDE DEF data
  <2>4. Fit(data)
    BY <2>1, <2>2, ConfigFlowAssumption DEF Fit, EntryOK, EntryOf, UniqueOf
  <2> QED
    BY <1>1, <1>2, <2>2, <2>3, <2>4, create_entryKeeps DEF Kept, IInv, TypeOK
<1>3. ASSUME NEW error \in {"pairing_failed", "cannot_connect"},
             Show(f, flows[f], "pair_pin", error), UNCHANGED <<pin, entries>>
      PROVE  Kept /\ pin' \in [Boxes -> Flows \cup {None}]
  BY <1>1, <1>3, ShowKeeps DEF Kept, Forms, Errors, IInv, TypeOK
<1> QED
  BY <1>2, <1>3 DEF PinSubmit

LEMMA LinkSubmitKeeps ==
  ASSUME IInv, NEW f \in Flows, LinkSubmit(f)
  PROVE  Kept
<1>1. /\ flows[f].step = "link_hopper" /\ flows[f] \in FlowRecords /\ flows[f].step \in Forms
      /\ flows[f].reason = "none" /\ flows[f].method = "local_http" /\ flows[f].serial \in Boxes
      /\ LinkOf[flows[f].serial] # None /\ flows[f].linked = LinkOf[flows[f].serial]
  BY OpenFlow DEF LinkSubmit, FlowOK, Forms
<1>2. CASE Abort(f, flows[f], "hopper_not_configured") /\ UNCHANGED entries
  BY <1>1, <1>2, AbortKeeps DEF Kept, Reasons, IInv, TypeOK
<1>3. ASSUME NEW hopper \in find_hopper_entry(flows[f].linked),
             create_entry(f, [flows[f] EXCEPT !.control = hopper.host, !.creds = hopper.creds])
      PROVE  Kept
  <2> DEFINE data == [flows[f] EXCEPT !.control = hopper.host, !.creds = hopper.creds]
  <2>1. hopper \in Entries /\ EntryOK(hopper) /\ hopper.serial = LinkOf[flows[f].serial]
    BY <1>1 DEF find_hopper_entry, IInv, TypeOK, EntriesOK
  <2>2. LinkOf[LinkOf[flows[f].serial]] = None
    BY <1>1, ConfigFlowAssumption
  <2>3. hopper.creds \in {None, LinkOf[flows[f].serial]}
    BY <2>1, <2>2 DEF EntryOK, Entries
  <2>4. /\ data \in FlowRecords /\ data.reason = "none" /\ data.creds = hopper.creds
        /\ data.serial = flows[f].serial /\ data.linked = flows[f].linked
        /\ data.method = "local_http"
    BY <1>1, <2>1 DEF FlowRecords, Entries
  <2>5. create_entry(f, data)
    BY <1>3
  <2> HIDE DEF data
  <2>6. Fit(data)
    BY <1>1, <2>3, <2>4, ConfigFlowAssumption DEF Fit, EntryOK, EntryOf, UniqueOf
  <2> QED
    BY <1>1, <2>4, <2>5, <2>6, create_entryKeeps DEF Kept
<1> QED
  BY <1>2, <1>3 DEF LinkSubmit

LEMMA SsdpKeeps ==
  ASSUME IInv, NEW f \in Flows, NEW b \in Boxes, Ssdp(f, b)
  PROVE  Kept
<1> DEFINE data == [NewFlow EXCEPT !.unique = b, !.serial = b, !.mac = b,
                                   !.host = addr[b], !.method = "local_http"]
           linked == [data EXCEPT !.linked = LinkOf[b]]
           known == [flows[f] EXCEPT !.unique = b]
<1>1. /\ data \in FlowRecords /\ data.reason = "none" /\ data.creds = None
      /\ data.linked = None /\ data.unique = b /\ data.serial = b /\ data.method = "local_http"
  <2>1. addr[b] \in Addrs
    BY DEF IInv, TypeOK
  <2>2. NewFlow.reason = "none" /\ NewFlow.creds = None /\ NewFlow.linked = None
    BY DEF NewFlow
  <2> HIDE DEF data
  <2> QED
    BY <2>1, <2>2, NewFlowType DEF FlowRecords, Uniques, data
<1>2. known \in FlowRecords /\ flows[f] \in FlowRecords
  BY OpenFlow DEF FlowRecords, Uniques
<1> HIDE DEF data
<1>3. LinkOf[b] # None =>
        /\ linked \in FlowRecords /\ linked.reason = "none" /\ linked.creds = None
        /\ linked.linked = LinkOf[b] /\ linked.unique = b /\ linked.serial = b
        /\ linked.method = "local_http"
  BY <1>1, ConfigFlowAssumption DEF FlowRecords
<1> HIDE DEF linked, known
<1>4. CASE Abort(f, flows[f], "already_in_progress") /\ UNCHANGED entries
  BY <1>2, <1>4, AbortKeeps DEF Kept, Reasons, IInv, TypeOK
<1>5. CASE Abort(f, known, "already_configured") /\ entries' = AnnouncedHost(b)
  <2>1. /\ entries' \subseteq Entries /\ EntriesOK'
        /\ \A u : Configured(u) = {} => (Configured(u) = {})'
    BY <1>5, WithHostKeeps DEF AnnouncedHost, IInv, TypeOK
  <2>2. /\ flows' \in [Flows -> FlowRecords] /\ flows'[f].step = "aborted"
        /\ \A g \in Flows : g # f => flows'[g] = flows[g]
    BY <1>2, <1>5, AbortType DEF Reasons, IInv, TypeOK
  <2>3. FlowOK(flows'[f]) /\ flows'[f].step \notin Forms
    BY <2>2 DEF FlowOK, Forms
  <2> QED
    BY <2>1, <2>2, <2>3 DEF Kept, IInv, FlowsOK, Vacant
<1>6. CASE /\ Configured(b) = {} /\ UNCHANGED entries
           /\ Show(f, data, "ssdp_confirm", "none")
  BY <1>1, <1>6, ShowKeeps DEF Kept, Forms, Errors, IInv, TypeOK
<1>7. CASE /\ Configured(b) = {} /\ UNCHANGED entries /\ LinkOf[b] # None
           /\ Abort(f, linked, "hopper_not_configured")
  BY <1>3, <1>7, AbortKeeps DEF Kept, Reasons, IInv, TypeOK
<1>8. CASE /\ Configured(b) = {} /\ UNCHANGED entries /\ LinkOf[b] # None
           /\ Show(f, linked, "link_hopper", "none")
  BY <1>3, <1>8, ShowKeeps DEF Kept, Forms, Errors, IInv, TypeOK
<1> QED
  BY <1>4, <1>5, <1>6, <1>7, <1>8 DEF Ssdp, data, linked, known

LEMMA RemoveKeeps ==
  ASSUME IInv, RemoveEntry
  PROVE  Kept
<1>1. entries' \subseteq entries /\ flows' = flows
  BY DEF RemoveEntry
<1> QED
  BY <1>1 DEF Kept, IInv, TypeOK, FlowsOK, EntriesOK, Keyed, Vacant, Configured

LEMMA NextIInv == IInv /\ [Next]_vars => IInv'
<1> SUFFICES ASSUME IInv, [Next]_vars
             PROVE  IInv'
  OBVIOUS
<1>0. TypeOK
  BY DEF IInv
<1>1. ASSUME Kept, addr' \in [Boxes -> Addrs], heard' \in [Boxes -> BOOLEAN],
             pin' \in [Boxes -> Flows \cup {None}]
      PROVE  IInv'
  BY <1>1 DEF Kept, IInv, TypeOK
<1>2. ASSUME NEW f \in Flows, UserStart(f)
      PROVE  IInv'
  BY <1>0, <1>1, <1>2, UserStartKeeps DEF UserStart, TypeOK
<1>3. ASSUME NEW f \in Flows, UserSubmit(f)
      PROVE  IInv'
  BY <1>0, <1>1, <1>3, UserSubmitKeeps DEF UserSubmit, TypeOK
<1>4. ASSUME NEW f \in Flows, CloudSubmit(f)
      PROVE  IInv'
  <2>1. /\ flows[f] \in FlowRecords /\ flows[f].step \in Forms
        /\ flows[f].reason = "none" /\ flows[f].creds = None /\ flows[f].linked = None
    BY <1>4, OpenFlow DEF CloudSubmit, FlowOK, Forms
  <2>2. Kept
    BY <1>0, <1>4, <2>1, ShowKeeps DEF CloudSubmit, Kept, Forms, Errors, TypeOK
  <2> QED
    BY <1>0, <1>1, <1>4, <2>2 DEF CloudSubmit, TypeOK
<1>5. ASSUME NEW f \in Flows, DelegateSubmit(f)
      PROVE  IInv'
  BY <1>0, <1>1, <1>5, DelegateSubmitKeeps DEF DelegateSubmit, TypeOK
<1>6. ASSUME NEW f \in Flows, PairSubmit(f)
      PROVE  IInv'
  BY <1>0, <1>1, <1>6, PairSubmitKeeps DEF PairSubmit, TypeOK
<1>7. ASSUME NEW f \in Flows, PinSubmit(f)
      PROVE  IInv'
  BY <1>0, <1>1, <1>7, PinSubmitKeeps DEF PinSubmit, TypeOK
<1>8. ASSUME NEW f \in Flows, LinkSubmit(f)
      PROVE  IInv'
  BY <1>0, <1>1, <1>8, LinkSubmitKeeps DEF LinkSubmit, TypeOK
<1>9. ASSUME NEW f \in Flows, Close(f)
      PROVE  IInv'
  <2>1. Kept
    BY <1>0, <1>9, OpenFlow, AbortKeeps DEF Close, Kept, Reasons, TypeOK
  <2> QED
    BY <1>0, <1>1, <1>9, <2>1 DEF Close, TypeOK
<1>10. ASSUME NEW f \in Flows, NEW b \in Boxes, Ssdp(f, b)
       PROVE  IInv'
  BY <1>0, <1>1, <1>10, SsdpKeeps DEF Ssdp, TypeOK
<1>11. ASSUME UNCHANGED <<flows, entries>>
       PROVE  Kept
  BY <1>11 DEF Kept, IInv, TypeOK, FlowsOK, EntriesOK, Keyed, Vacant, Configured
<1>12. ASSUME NEW b \in Boxes, PinExpire(b)
       PROVE  IInv'
  BY <1>0, <1>1, <1>11, <1>12 DEF PinExpire, TypeOK
<1>13. ASSUME NEW b \in Boxes, Renumber(b)
       PROVE  IInv'
  BY <1>0, <1>1, <1>11, <1>13 DEF Renumber, TypeOK
<1>14. CASE RemoveEntry
  BY <1>0, <1>1, <1>14, RemoveKeeps DEF RemoveEntry, TypeOK
<1>15. CASE UNCHANGED vars
  BY <1>0, <1>1, <1>11, <1>15 DEF vars, TypeOK
<1> QED
  BY <1>2, <1>3, <1>4, <1>5, <1>6, <1>7, <1>8, <1>9, <1>10, <1>12, <1>13, <1>14, <1>15 DEF Next

LEMMA AlwaysIInv == Spec => []IInv
  BY InitIInv, NextIInv, PTL DEF Spec

(* Type correctness of the receivers, the flows and the entries. *)
THEOREM TypeInvariant == Spec => []TypeOK
<1>1. IInv => TypeOK
  BY DEF IInv
<1> QED
  BY <1>1, AlwaysIInv, PTL

(* A receiver has one entry, by whatever mixture of cards, manual flows    *)
(* and announcements it was added (_create_entry, async_step_ssdp).        *)
THEOREM OneEntry == Spec => []OneEntryPerReceiver
<1>1. IInv => OneEntryPerReceiver
  BY DEF IInv, EntriesOK, EntryOK, Keyed, OneEntryPerReceiver
<1> QED
  BY <1>1, AlwaysIInv, PTL

(* Credentials are used with the receiver that minted them: a standalone   *)
(* one with its own, a Joey with its Hopper's.                             *)
THEOREM OwnCreds == Spec => []CredsFromOwnBox
<1>1. IInv => CredsFromOwnBox
  BY DEF IInv, EntriesOK, EntryOK, CredsFromOwnBox, Local, Owner
<1> QED
  BY <1>1, AlwaysIInv, PTL

-----------------------------------------------------------------------------
(* A step of one flow, which has not ended. *)
OneFlow(f) == flows[f].reason = "none" /\ \A g \in Flows : g # f => flows'[g] = flows[g]

(* An entry once overwritten counts as such for good: flows are used once. *)
LEMMA OverwrittenStays ==
  ASSUME (\E f \in Flows : OneFlow(f)) \/ UNCHANGED flows, NEW e, Overwritten(e)
  PROVE  Overwritten(e)'
<1>1. PICK g \in Flows : /\ flows[g].reason = "already_configured"
                         /\ flows[g].method = "delegate" /\ flows[g].unique = e.unique
  BY DEF Overwritten
<1>2. flows'[g] = flows[g]
  BY <1>1 DEF OneFlow
<1> QED
  BY <1>1, <1>2 DEF Overwritten

(* The entries and the addresses stay, and nothing new was heard. *)
LEMMA HostStays ==
  ASSUME HostFollowsAnnouncement, (\E f \in Flows : OneFlow(f)) \/ UNCHANGED flows,
         entries' \subseteq entries,
         \A e \in Local : heard'[e.serial] => heard[e.serial] /\ addr'[e.serial] = addr[e.serial]
  PROVE  HostFollowsAnnouncement'
<1> SUFFICES ASSUME NEW e \in Local', heard'[e.serial], e.linked = None, ~Overwritten(e)'
             PROVE  e.host = addr'[e.serial]
  BY DEF HostFollowsAnnouncement
<1>1. e \in Local /\ ~Overwritten(e)
  BY OverwrittenStays DEF Local
<1> QED
  BY <1>1 DEF HostFollowsAnnouncement

(* What the entry of an ended flow says of its receiver's address. *)
Sited(data) ==
  \/ data.method = "delegate"
  \/ /\ data.serial \in Boxes
     /\ IF data.linked = None THEN data.host = addr[data.serial] ELSE LinkOf[data.serial] # None

LEMMA create_entryHost ==
  ASSUME IInv, HostFollowsAnnouncement, NEW f \in Flows, OneFlow(f), NEW data \in FlowRecords,
         Fit(data), Sited(data), create_entry(f, data), UNCHANGED <<addr, heard>>
  PROVE  HostFollowsAnnouncement'
<1> DEFINE unique == UniqueOf(data)
           keyed == [data EXCEPT !.unique = unique]
<1>0. /\ flows \in [Flows -> FlowRecords] /\ entries \subseteq Entries /\ unique \in Uniques
      /\ \A e \in entries : EntryOK(e)
      /\ data.serial \in Boxes => unique = data.serial
  BY EntryOfType, ConfigFlowAssumption DEF IInv, TypeOK, EntriesOK, UniqueOf
<1>1. /\ keyed \in FlowRecords /\ keyed.unique = unique /\ keyed.method = data.method
  BY <1>0 DEF FlowRecords
<1> HIDE DEF keyed, unique
<1>2. CASE entries' = entries
  BY <1>2, HostStays
<1>3. CASE Abort(f, keyed, "already_configured") /\ entries' = WithHost(unique, data.host)
  <2> SUFFICES ASSUME NEW e \in Local', heard[e.serial], e.linked = None, ~Overwritten(e)'
               PROVE  e.host = addr[e.serial]
    BY DEF HostFollowsAnnouncement
  <2>1. PICK x \in entries : e = IF x.unique = unique THEN [x EXCEPT !.host = data.host] ELSE x
    BY <1>3 DEF Local, WithHost
  <2>2. CASE x.unique # unique
    <3>1. e \in Local /\ ~Overwritten(e)
      BY <2>1, <2>2, OverwrittenStays DEF Local
    <3> QED
      BY <3>1 DEF HostFollowsAnnouncement
  <2>3. CASE x.unique = unique
    <3>1. /\ e.host = data.host /\ e.unique = unique /\ e.serial = x.serial
          /\ e.method = x.method /\ e.linked = x.linked
      BY <1>0, <2>1, <2>3 DEF Entries
    <3>2. x.method = "local_http" /\ x.linked = None
      BY <3>1 DEF Local
    <3>3. x.serial \in Boxes /\ x.serial = unique /\ LinkOf[x.serial] = None
      BY <1>0, <2>3, <3>2, ConfigFlowAssumption DEF EntryOK
    <3>4. data.method # "delegate"
      <4>1. /\ SameData(flows'[f], keyed) /\ flows'[f].reason = "already_configured"
        BY <1>0, <1>1, <1>3, AbortType DEF Reasons
      <4> QED
        BY <1>1, <3>1, <4>1 DEF Overwritten, SameData
    <3> QED
      BY <1>0, <3>1, <3>3, <3>4 DEF Sited
  <2> QED
    BY <2>2, <2>3
<1>4. CASE entries' = entries \cup {EntryOf(data, unique)}
  <2> SUFFICES ASSUME NEW e \in Local', heard[e.serial], e.linked = None, ~Overwritten(e)'
               PROVE  e.host = addr[e.serial]
    BY DEF HostFollowsAnnouncement
  <2>1. CASE e \in entries
    <3>1. e \in Local /\ ~Overwritten(e)
      BY <2>1, OverwrittenStays DEF Local
    <3> QED
      BY <3>1 DEF HostFollowsAnnouncement
  <2>2. CASE e = EntryOf(data, unique)
    BY <2>2 DEF EntryOf, Sited, Local
  <2> QED
    BY <1>4, <2>1, <2>2 DEF Local
<1> QED
  BY <1>2, <1>3, <1>4 DEF create_entry, keyed, unique

(* A step of a flow leaves the other ones alone. *)
LEMMA FlowFrame ==
  ASSUME IInv, NEW f \in Flows, flows[f].step \in Forms \cup {"idle"},
         \E to : flows' = [flows EXCEPT ![f] = to]
  PROVE  OneFlow(f)
<1>1. flows[f].reason = "none"
  BY OpenFlow, NewFlowType DEF NewFlow
<1> QED
  BY <1>1 DEF OneFlow, IInv, TypeOK

LEMMA create_entryFrame ==
  ASSUME NEW f \in Flows, NEW data, create_entry(f, data)
  PROVE  \E to : flows' = [flows EXCEPT ![f] = to]
  BY DEF create_entry, Abort

LEMMA pairFrame ==
  ASSUME NEW f \in Flows, NEW data, pair(f, data)
  PROVE  \E to : flows' = [flows EXCEPT ![f] = to]
  BY DEF pair, Show

LEMMA DelegateSubmitHost ==
  ASSUME IInv, HostFollowsAnnouncement, NEW f \in Flows, DelegateSubmit(f)
  PROVE  HostFollowsAnnouncement'
<1>1. flows[f].step = "delegate" /\ create_entry(f, flows[f]) /\ UNCHANGED <<addr, heard>>
  BY DEF DelegateSubmit
<1>2. /\ flows[f] \in FlowRecords /\ flows[f].step \in Forms
      /\ flows[f].reason = "none" /\ flows[f].creds = None /\ flows[f].method = "delegate"
  BY <1>1, OpenFlow DEF FlowOK, Forms
<1>3. Fit(flows[f]) /\ Sited(flows[f])
  BY <1>2 DEF Fit, EntryOK, EntryOf, UniqueOf, Sited
<1>4. OneFlow(f)
  BY <1>1, <1>2, create_entryFrame, FlowFrame
<1> QED
  BY <1>1, <1>2, <1>3, <1>4, create_entryHost

LEMMA PinSubmitHost ==
  ASSUME IInv, HostFollowsAnnouncement, NEW f \in Flows, PinSubmit(f)
  PROVE  HostFollowsAnnouncement'
<1>1. /\ flows[f] \in FlowRecords /\ flows[f].step \in Forms
      /\ flows[f].reason = "none" /\ flows[f].linked = None /\ flows[f].method = "local_http"
  BY OpenFlow DEF PinSubmit, FlowOK, Forms
<1>2. UNCHANGED <<addr, heard>>
  BY DEF PinSubmit
<1>3. ASSUME NEW b \in PairsAt(flows[f].host, flows[f].serial),
             create_entry(f, [flows[f] EXCEPT !.creds = b])
      PROVE  HostFollowsAnnouncement'
  <2> DEFINE data == [flows[f] EXCEPT !.creds = b]
  <2>1. b \in Boxes /\ b = flows[f].serial /\ LinkOf[b] = None /\ addr[b] = flows[f].host
    BY DEF PairsAt
  <2>2. /\ data \in FlowRecords /\ data.reason = "none" /\ data.creds = b /\ data.serial = b
        /\ data.linked = None /\ data.method = "local_http" /\ data.host = addr[b]
    BY <1>1, <2>1 DEF FlowRecords
  <2>3. create_entry(f, data)
    BY <1>3
  <2> HIDE DEF data
  <2>4. Fit(data) /\ Sited(data)
    BY <2>1, <2>2, ConfigFlowAssumption DEF Fit, EntryOK, EntryOf, UniqueOf, Sited
  <2>5. OneFlow(f)
    BY <1>1, <2>3, create_entryFrame, FlowFrame
  <2> QED
    BY <1>2, <2>2, <2>3, <2>4, <2>5, create_entryHost
<1>4. ASSUME NEW error, Show(f, flows[f], "pair_pin", error), UNCHANGED entries
      PROVE  HostFollowsAnnouncement'
  <2>1. OneFlow(f)
    BY <1>1, <1>4, FlowFrame DEF Show
  <2> QED
    BY <1>2, <1>4, <2>1, HostStays
<1> QED
  BY <1>3, <1>4 DEF PinSubmit

LEMMA LinkSubmitHost ==
  ASSUME IInv, HostFollowsAnnouncement, NEW f \in Flows, LinkSubmit(f)
  PROVE  HostFollowsAnnouncement'
<1>1. /\ flows[f] \in FlowRecords /\ flows[f].step \in Forms
      /\ flows[f].reason = "none" /\ flows[f].method = "local_http" /\ flows[f].serial \in Boxes
      /\ LinkOf[flows[f].serial] # None /\ flows[f].linked = LinkOf[flows[f].serial]
  BY OpenFlow DEF LinkSubmit, FlowOK, Forms
<1>2. UNCHANGED <<addr, heard>>
  BY DEF LinkSubmit
<1>3. CASE Abort(f, flows[f], "hopper_not_configured") /\ UNCHANGED entries
  <2>1. OneFlow(f)
    BY <1>1, <1>3, FlowFrame DEF Abort
  <2> QED
    BY <1>2, <1>3, <2>1, HostStays
<1>4. ASSUME NEW hopper \in find_hopper_entry(flows[f].linked),
             create_entry(f, [flows[f] EXCEPT !.control = hopper.host, !.creds = hopper.creds])
      PROVE  HostFollowsAnnouncement'
  <2> DEFINE data == [flows[f] EXCEPT !.control = hopper.host, !.creds = hopper.creds]
  <2>1. hopper \in Entries /\ EntryOK(hopper) /\ hopper.serial = LinkOf[flows[f].serial]
    BY <1>1 DEF find_hopper_entry, IInv, TypeOK, EntriesOK
  <2>2. LinkOf[LinkOf[flows[f].serial]] = None
    BY <1>1, ConfigFlowAssumption
  <2>3. hopper.creds \in {None, LinkOf[flows[f].serial]}
    BY <2>1, <2>2 DEF EntryOK, Entries
  <2>4. /\ data \in FlowRecords /\ data.reason = "none" /\ data.creds = hopper.creds
        /\ data.serial = flows[f].serial /\ data.linked = flows[f].linked
        /\ data.method = "local_http"
    BY <1>1, <2>1 DEF FlowRecords, Entries
  <2>5. create_entry(f, data)
    BY <1>4
  <2> HIDE DEF data
  <2>6. Fit(data) /\ Sited(data)
    BY <1>1, <2>3, <2>4, ConfigFlowAssumption DEF Fit, EntryOK, EntryOf, UniqueOf, Sited
  <2>7. OneFlow(f)
    BY <1>1, <2>5, create_entryFrame, FlowFrame
  <2> QED
    BY <1>2, <2>4, <2>5, <2>6, <2>7, create_entryHost
<1> QED
  BY <1>3, <1>4 DEF LinkSubmit

(* An announcement that meets a flow of the same receiver finds no entry   *)
(* of it; otherwise it brings the host of the entry up to date.            *)
LEMMA SsdpHost ==
  ASSUME IInv, HostFollowsAnnouncement, NEW f \in Flows, NEW b \in Boxes, Ssdp(f, b)
  PROVE  HostFollowsAnnouncement'
<1>1. OneFlow(f)
  BY FlowFrame DEF Ssdp, Abort, Show
<1>2. addr' = addr /\ heard' = [heard EXCEPT ![b] = TRUE]
  BY DEF Ssdp
<1>3. /\ entries \subseteq Entries /\ heard \in [Boxes -> BOOLEAN]
      /\ \A e \in entries : EntryOK(e)
  BY DEF IInv, TypeOK, EntriesOK
<1>4. \A e \in Local : e.serial \in Boxes /\ e.unique = e.serial
  BY <1>3, ConfigFlowAssumption DEF Local, EntryOK
<1>5. CASE Configured(b) = {} /\ UNCHANGED entries
  <2>1. \A e \in Local : e.serial # b
    BY <1>4, <1>5 DEF Configured, Local
  <2> QED
    BY <1>1, <1>2, <1>3, <1>4, <1>5, <2>1, HostStays
<1>6. CASE InProgress(f, b) /\ UNCHANGED entries
  <2>1. Configured(b) = {}
    BY <1>6, ConfigFlowAssumption DEF InProgress, IInv, Vacant
  <2> QED
    BY <1>5, <1>6, <2>1
<1>7. CASE entries' = AnnouncedHost(b)
  <2> SUFFICES ASSUME NEW e \in Local', heard'[e.serial], e.linked = None, ~Overwritten(e)'
               PROVE  e.host = addr[e.serial]
    BY <1>2 DEF HostFollowsAnnouncement
  <2>1. PICK x \in entries : e = IF x.unique = b THEN [x EXCEPT !.host = addr[b]] ELSE x
    BY <1>7 DEF Local, AnnouncedHost, WithHost
  <2>2. CASE x.unique # b
    <3>1. e \in Local /\ ~Overwritten(e)
      BY <1>1, <2>1, <2>2, OverwrittenStays DEF Local
    <3>2. heard[e.serial]
      BY <1>2, <1>3, <1>4, <2>1, <2>2, <3>1
    <3> QED
      BY <3>1, <3>2 DEF HostFollowsAnnouncement
  <2>3. CASE x.unique = b
    <3>1. /\ e.host = addr[b] /\ e.serial = x.serial /\ e.method = x.method
      BY <1>3, <2>1, <2>3 DEF Entries
    <3>2. x \in Local
      BY <3>1 DEF Local
    <3> QED
      BY <1>4, <2>3, <3>1, <3>2
  <2> QED
    BY <2>2, <2>3
<1> QED
  BY <1>5, <1>6, <1>7 DEF Ssdp

LEMMA NextHost == IInv /\ HostFollowsAnnouncement /\ [Next]_vars => HostFollowsAnnouncement'
<1> SUFFICES ASSUME IInv, HostFollowsAnnouncement, [Next]_vars
             PROVE  HostFollowsAnnouncement'
  OBVIOUS
<1>1. ASSUME NEW f \in Flows,
             UserStart(f) \/ UserSubmit(f) \/ CloudSubmit(f) \/ PairSubmit(f) \/ Close(f)
      PROVE  HostFollowsAnnouncement'
  <2>1. UNCHANGED <<addr, heard, entries>> /\ flows[f].step \in Forms \cup {"idle"}
    BY <1>1 DEF UserStart, UserSubmit, CloudSubmit, PairSubmit, Close, Forms
  <2>2. \E to : flows' = [flows EXCEPT ![f] = to]
    BY <1>1, pairFrame DEF UserStart, UserSubmit, CloudSubmit, PairSubmit, Close, Show, Abort
  <2>3. OneFlow(f)
    BY <2>1, <2>2, FlowFrame
  <2> QED
    BY <2>1, <2>3, HostStays
<1>2. ASSUME NEW b \in Boxes, PinExpire(b)
      PROVE  HostFollowsAnnouncement'
  BY <1>2, HostStays DEF PinExpire
<1>3. ASSUME NEW b \in Boxes, Renumber(b)
      PROVE  HostFollowsAnnouncement'
  <2>1. UNCHANGED <<flows, entries>>
    BY <1>3 DEF Renumber
  <2>2. \A c \in Boxes : heard'[c] => heard[c] /\ addr'[c] = addr[c]
    BY <1>3 DEF Renumber, IInv, TypeOK
  <2>3. \A e \in Local : e.serial \in Boxes
    BY DEF Local, IInv, EntriesOK, EntryOK
  <2> QED
    BY <2>1, <2>2, <2>3, HostStays
<1>4. CASE RemoveEntry \/ UNCHANGED vars
  BY <1>4, HostStays DEF RemoveEntry, vars
<1> QED
  BY <1>1, <1>2, <1>3, <1>4, DelegateSubmitHost, PinSubmitHost, LinkSubmitHost, SsdpHost DEF Next

(* Once a receiver that moved has announced itself, its entry has the new  *)
(* address, though the announcement may meet cards, manual flows and       *)
(* pairings of the same receiver (async_step_ssdp), unless a delegate flow *)
(* has overwritten the entry.                                              *)
THEOREM FollowedHost == Spec => []HostFollowsAnnouncement
<1>1. Init => HostFollowsAnnouncement
  BY DEF Init, HostFollowsAnnouncement, Local
<1> QED
  BY <1>1, AlwaysIInv, NextHost, PTL DEF Spec
=============================================================================
