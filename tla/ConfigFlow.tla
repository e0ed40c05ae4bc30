----------------------------- MODULE ConfigFlow -----------------------------
(***************************************************************************)
(* Setting receivers up (config_flow.py): the flows a user or an SSDP      *)
(* announcement starts, the PIN pairing with a receiver, the link of a     *)
(* Joey to the entry of its Hopper, and the config entries that result.    *)
(* Around them Home Assistant, which keeps the flows of one unique id      *)
(* apart, and the receivers, which move to other addresses.                *)
(*                                                                         *)
(* A receiver stands for its serial; credentials stand for the receiver    *)
(* that minted them.                                                       *)
(***************************************************************************)
EXTENDS FiniteSets

CONSTANTS
  Boxes,    \* receivers, by their serial
  LinkOf,   \* the Hopper of a Joey, None for a Hopper or a Wally
  Addrs,    \* addresses on the LAN
  Flows,    \* config flows, each used once
  Sources,  \* who starts flows: "user", "ssdp"
  Methods,  \* control methods a user chooses
  Lossy,    \* may discovery and description requests fail?
  None

ASSUME ConfigFlowAssumption ==
  /\ LinkOf \in [Boxes -> Boxes \cup {None}]
  /\ \A b \in Boxes : LinkOf[b] # None => LinkOf[LinkOf[b]] = None
  /\ Sources \subseteq {"user", "ssdp"}
  /\ Methods \subseteq {"local_http", "cloud", "delegate"}
  /\ Lossy \in BOOLEAN
  /\ None \notin Boxes \cup Addrs

VARIABLES
  addr,     \* the address of each receiver
  heard,    \* has the receiver announced its present address?
  pin,      \* receiver -> the flow whose PIN is on its TV
  flows,    \* flow -> its step, its data and how it ended
  entries   \* the config entries

vars == <<addr, heard, pin, flows, entries>>

Forms == {"user", "user_blank", "pair", "pair_pin", "cloud", "delegate",
          "ssdp_confirm", "link_hopper"}
Errors == {"none", "no_host", "cannot_connect", "pairing_failed"}
Reasons == {"none", "already_in_progress", "already_configured",
            "hopper_not_configured", "closed"}
Uniques == Boxes \cup Addrs \cup {None}

FlowRecords ==
  [step : Forms \cup {"idle", "created", "aborted"}, error : Errors, reason : Reasons,
   method : {"local_http", "cloud", "delegate", None}, host : Addrs \cup {None},
   serial : Boxes \cup {None}, mac : Uniques, linked : Boxes \cup {None},
   control : Addrs \cup {None}, creds : Boxes \cup {None}, unique : Uniques]

Entries ==
  [unique : Uniques, method : {"local_http", "delegate"}, host : Addrs \cup {None},
   serial : Boxes \cup {None}, linked : Boxes \cup {None},
   control : Addrs \cup {None}, creds : Boxes \cup {None}]

NewFlow ==
  [step |-> "idle", error |-> "none", reason |-> "none", method |-> None, host |-> None,
   serial |-> None, mac |-> None, linked |-> None, control |-> None, creds |-> None,
   unique |-> None]

Init ==
  /\ addr \in {a \in [Boxes -> Addrs] : \A b, c \in Boxes : a[b] = a[c] => b = c}
  /\ heard = [b \in Boxes |-> FALSE]
  /\ pin = [b \in Boxes |-> None]
  /\ flows = [f \in Flows |-> NewFlow]
  /\ entries = {}

-----------------------------------------------------------------------------
(* Home Assistant. *)

Show(f, data, step, error) ==
  flows' = [flows EXCEPT ![f] = [data EXCEPT !.step = step, !.error = error]]

Abort(f, data, reason) ==
  flows' = [flows EXCEPT ![f] = [data EXCEPT !.step = "aborted", !.reason = reason]]

(* async_set_unique_id refuses a flow beside another one of the same id. *)
InProgress(f, unique) ==
  \E g \in Flows \ {f} : flows[g].step \in Forms /\ flows[g].unique = unique

(* _abort_if_unique_id_configured and the update of the entry it finds. *)
Configured(unique) == {e \in entries : e.unique = unique}

WithHost(unique, host) ==
  {IF e.unique = unique THEN [e EXCEPT !.host = host] ELSE e : e \in entries}

-----------------------------------------------------------------------------
(* The end of a flow. *)

(* Mutant: the address and the credentials of the Hopper in each other's place. *)
EntryOfSwapped(data, unique) ==
  [unique |-> unique, method |-> data.method, host |-> data.host, serial |-> data.serial,
   linked |-> data.linked, control |-> data.creds, creds |-> data.control]

EntryOf(data, unique) ==
  [unique |-> unique, method |-> data.method, host |-> data.host, serial |-> data.serial,
   linked |-> data.linked, control |-> data.control, creds |-> data.creds]

UniqueOf(data) ==
  IF data.serial # None THEN data.serial
  ELSE IF data.mac # None THEN data.mac ELSE data.host

(* Mutant: the entry is not keyed. *)
create_entryUnkeyed(f, data) ==
  /\ entries' = entries \cup {EntryOf(data, None)}
  /\ flows' = [flows EXCEPT ![f] = [data EXCEPT !.step = "created"]]

(* Keyed on the serial, else the MAC, else the host; an entry that has the *)
(* key already gets this flow's host.                                      *)
create_entry(f, data) ==
  LET unique == UniqueOf(data)
      keyed == [data EXCEPT !.unique = unique] IN
  \/ /\ unique # None /\ InProgress(f, unique)
     /\ Abort(f, data, "already_in_progress")
     /\ UNCHANGED entries
  \/ /\ unique # None /\ ~InProgress(f, unique) /\ Configured(unique) # {}
     /\ Abort(f, keyed, "already_configured")
     /\ entries' = WithHost(unique, data.host)
  \/ /\ unique # None => ~InProgress(f, unique) /\ Configured(unique) = {}
     /\ flows' = [flows EXCEPT ![f] = [keyed EXCEPT !.step = "created"]]
     /\ entries' = entries \cup {EntryOf(data, unique)}

-----------------------------------------------------------------------------
(* Pairing. *)

(* The receiver at an address pairs a controller that names its serial; a  *)
(* Joey redirects to its Hopper, which counts as an error.                 *)
PairsAt(host, serial) ==
  {b \in Boxes : addr[b] = host /\ b = serial /\ LinkOf[b] = None}

(* async_connect finds the serial of the receiver at the host, if it has   *)
(* none and the receiver answers the search.                               *)
Resolved(data) ==
  LET there == {b \in Boxes : addr[b] = data.host} IN
  IF data.serial # None THEN {data.serial}
  ELSE IF there = {} \/ Lossy THEN there \cup {None} ELSE there

(* async_step_pair: connect and ask for the PIN on the TV.  Without a host *)
(* the blank user form returns, and its error is dropped.                  *)
pair(f, data) ==
  \/ /\ data.host = None
     /\ Show(f, data, "user_blank", "none")
     /\ UNCHANGED pin
  \/ \E serial \in Resolved(data) :
       LET known == [data EXCEPT !.serial = serial] IN
       /\ data.host # None
       /\ \/ \E b \in PairsAt(data.host, serial) :
               /\ pin' = [pin EXCEPT ![b] = f]
               /\ Show(f, known, "pair_pin", "none")
          \/ /\ PairsAt(data.host, serial) = {} \/ Lossy
             /\ Show(f, known, "pair", "cannot_connect")
             /\ UNCHANGED pin

-----------------------------------------------------------------------------
(* The steps of a flow. *)

(* async_discover: no receiver answers the search, or one does, and its    *)
(* description may not be readable.                                        *)
Discovered ==
  {[serial |-> None, mac |-> None]}
  \cup {[serial |-> b, mac |-> b] : b \in Boxes}
  \cup {[serial |-> None, mac |-> addr[b]] : b \in {c \in Boxes : Lossy}}

(* A user adds the integration: whatever receiver answers the search first *)
(* fills in host, serial and MAC; one whose description could not be read  *)
(* has its address for a MAC.                                              *)
UserStart(f) ==
  /\ "user" \in Sources /\ flows[f].step = "idle"
  /\ \E found \in Discovered :
       Show(f, [flows[f] EXCEPT !.serial = found.serial, !.mac = found.mac], "user", "none")
  /\ UNCHANGED <<addr, heard, pin, entries>>

(* The form: a method and a host, which the user may change or clear. *)
UserSubmit(f) ==
  /\ flows[f].step = "user"
  /\ \E method \in Methods, host \in Addrs \cup {None} :
       LET data == [flows[f] EXCEPT !.method = method, !.host = host] IN
       \/ method = "local_http" /\ pair(f, data)
       \/ method = "delegate" /\ Show(f, data, "delegate", "none") /\ UNCHANGED pin
       \/ method = "cloud" /\ Show(f, data, "cloud", "none") /\ UNCHANGED pin
  /\ UNCHANGED <<addr, heard, entries>>

(* The cloud transport is a stub that never connects. *)
CloudSubmit(f) ==
  /\ flows[f].step = "cloud"
  /\ Show(f, flows[f], "cloud", "cannot_connect")
  /\ UNCHANGED <<addr, heard, pin, entries>>

DelegateSubmit(f) ==
  /\ flows[f].step = "delegate"
  /\ create_entry(f, flows[f])
  /\ UNCHANGED <<addr, heard, pin>>

(* The confirmed card, or the form that follows a failure and on which the *)
(* user may give the serial.                                               *)
PairSubmit(f) ==
  /\ \/ flows[f].step = "ssdp_confirm" /\ pair(f, flows[f])
     \/ /\ flows[f].step = "pair"
        /\ \E serial \in Boxes \cup {flows[f].serial} :
             pair(f, [flows[f] EXCEPT !.serial = serial])
  /\ UNCHANGED <<addr, heard, entries>>

(* The PIN: the one on the TV, a wrong or an expired one, or no answer. *)
PinSubmit(f) ==
  /\ flows[f].step = "pair_pin"
  /\ \/ \E b \in PairsAt(flows[f].host, flows[f].serial) :
          /\ pin[b] = f
          /\ pin' = [pin EXCEPT ![b] = None]
          /\ create_entry(f, [flows[f] EXCEPT !.creds = b])
     \/ /\ PairsAt(flows[f].host, flows[f].serial) # {}
        /\ Show(f, flows[f], "pair_pin", "pairing_failed")
        /\ UNCHANGED <<pin, entries>>
     \/ /\ PairsAt(flows[f].host, flows[f].serial) = {} \/ Lossy
        /\ Show(f, flows[f], "pair_pin", "cannot_connect")
        /\ UNCHANGED <<pin, entries>>
  /\ UNCHANGED <<addr, heard>>

(* Mutant: the entry that is found keeps its host. *)
AnnouncedHostDropped(b) == entries

(* An announcement of a configured receiver brings its host up to date. *)
AnnouncedHost(b) == WithHost(b, addr[b])

(* Mutant: any entry is taken for the Hopper's. *)
FindAnyEntry(serial) == entries

find_hopper_entry(serial) == {e \in entries : e.serial = serial}

(* async_fetch_by_location: the Hopper a Joey names; none if it cannot be  *)
(* asked, or for a receiver that names itself.                             *)
LinkedReceivers(b) == IF Lossy THEN {LinkOf[b], None} ELSE {LinkOf[b]}

(* SSDP announces a receiver.  One that is known, or in progress, ends the *)
(* flow; a Joey goes on to its Hopper's entry, any other one to pairing.   *)
Ssdp(f, b) ==
  /\ "ssdp" \in Sources /\ flows[f].step = "idle"
  /\ heard' = [heard EXCEPT ![b] = TRUE]
  /\ LET data == [NewFlow EXCEPT !.unique = b, !.serial = b, !.mac = b,
                                 !.host = addr[b], !.method = "local_http"] IN
     \/ /\ InProgress(f, b)
        /\ Abort(f, flows[f], "already_in_progress")
        /\ UNCHANGED entries
     \/ /\ ~InProgress(f, b) /\ Configured(b) # {}
        /\ Abort(f, [flows[f] EXCEPT !.unique = b], "already_configured")
        /\ entries' = AnnouncedHost(b)
     \/ /\ ~InProgress(f, b) /\ Configured(b) = {}
        /\ \/ /\ None \in LinkedReceivers(b)
              /\ Show(f, data, "ssdp_confirm", "none")
           \/ /\ LinkOf[b] # None
              /\ IF find_hopper_entry(LinkOf[b]) = {}
                 THEN Abort(f, [data EXCEPT !.linked = LinkOf[b]], "hopper_not_configured")
                 ELSE Show(f, [data EXCEPT !.linked = LinkOf[b]], "link_hopper", "none")
        /\ UNCHANGED entries
  /\ UNCHANGED <<addr, pin>>

(* The Joey's card is submitted: the Hopper's entry is looked up again. *)
LinkSubmit(f) ==
  /\ flows[f].step = "link_hopper"
  /\ \/ /\ find_hopper_entry(flows[f].linked) = {}
        /\ Abort(f, flows[f], "hopper_not_configured")
        /\ UNCHANGED entries
     \/ \E hopper \in find_hopper_entry(flows[f].linked) :
          create_entry(f, [flows[f] EXCEPT !.control = hopper.host, !.creds = hopper.creds])
  /\ UNCHANGED <<addr, heard, pin>>

-----------------------------------------------------------------------------
(* What happens around the flows. *)

(* The user closes the dialog of a flow; on the blank form, which has no   *)
(* fields and whose submission fails for want of a method, nothing else    *)
(* is left to do.                                                          *)
Close(f) ==
  /\ flows[f].step \in Forms
  /\ Abort(f, flows[f], "closed")
  /\ UNCHANGED <<addr, heard, pin, entries>>

PinExpire(b) ==
  /\ pin[b] # None
  /\ pin' = [pin EXCEPT ![b] = None]
  /\ UNCHANGED <<addr, heard, flows, entries>>

(* A receiver gets another address from the DHCP server. *)
Renumber(b) ==
  /\ \E a \in Addrs :
       /\ \A c \in Boxes : addr[c] # a
       /\ addr' = [addr EXCEPT ![b] = a]
  /\ heard' = [heard EXCEPT ![b] = FALSE]
  /\ pin' = [pin EXCEPT ![b] = None]
  /\ UNCHANGED <<flows, entries>>

RemoveEntry ==
  /\ \E e \in entries : entries' = entries \ {e}
  /\ UNCHANGED <<addr, heard, pin, flows>>

Next ==
  \/ \E f \in Flows :
       \/ UserStart(f) \/ UserSubmit(f) \/ CloudSubmit(f)
       \/ DelegateSubmit(f) \/ PairSubmit(f) \/ PinSubmit(f) \/ LinkSubmit(f)
       \/ Close(f) \/ \E b \in Boxes : Ssdp(f, b)
  \/ \E b \in Boxes : PinExpire(b) \/ Renumber(b)
  \/ RemoveEntry

Spec == Init /\ [][Next]_vars

-----------------------------------------------------------------------------
(* Properties. *)

Local == {e \in entries : e.method = "local_http"}
Owner(b) == IF LinkOf[b] = None THEN b ELSE LinkOf[b]

(* Type correctness of the receivers, the flows and the entries. *)
TypeOK ==
  /\ addr \in [Boxes -> Addrs] /\ heard \in [Boxes -> BOOLEAN]
  /\ pin \in [Boxes -> Flows \cup {None}]
  /\ flows \in [Flows -> FlowRecords]
  /\ entries \subseteq Entries

(* A receiver has one entry, by whatever mixture of cards, manual flows    *)
(* and announcements it was added.                                         *)
OneEntryPerReceiver ==
  \A e, d \in entries : e.serial # None /\ e.serial = d.serial => e = d

(* Credentials are used with the receiver that minted them: a standalone   *)
(* one with its own, a Joey with its Hopper's.                             *)
CredsFromOwnBox ==
  \A e \in Local :
    /\ e.creds # None => e.creds = Owner(e.serial)
    /\ e.linked = None => e.creds = e.serial

(* A delegate flow that ended in the entry and gave it its own host. *)
Overwritten(e) ==
  \E f \in Flows :
    flows[f].reason = "already_configured" /\ flows[f].method = "delegate"
    /\ flows[f].unique = e.unique

(* Once a receiver that moved has announced itself, its entry has the new  *)
(* address, though the announcement may meet cards, manual flows and       *)
(* pairings of the same receiver; of receivers that were paired, and whose *)
(* entry no delegate flow has overwritten since.                           *)
HostFollowsAnnouncement ==
  \A e \in Local :
    heard[e.serial] /\ e.linked = None /\ ~Overwritten(e) => e.host = addr[e.serial]

(* Commands for a Joey go to its Hopper's address. *)
JoeyFollowsHopper ==
  \A e, h \in Local : e.linked # None /\ h.serial = e.linked => e.control = h.host
=============================================================================
