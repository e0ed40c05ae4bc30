# A verification of dish-receiver-hass in TLA+

The repository is a Home Assistant integration for EchoStar satellite receivers
(Hopper, Joey, Wally) and a few stand-alone tools.  This directory models the
parts of it that are concurrent, that fail halfway or that race with the
receiver, checks them with TLC, and proves with TLAPS
every safety property that holds.  `PROJECT.json` lists components, runs, the code each definition
models, findings, hazards and theorems; this file explains them.

`C/` stands for `src/custom_components/dish_receiver/`.

## 1. Inventory

Everything in the integration runs on one asyncio event loop, so what happens
between two awaits is atomic, and every await is a place where something else
may happen.  That is the grain of all models of the integration.  The web remote
runs one thread per request; there a step is what a thread does between two
waits for the network.  The prober is an event loop of its own, and of the
verifier each invocation is a process, with a step per access to its file.

| part | state | operations | what makes it hard |
| --- | --- | --- | --- |
| keys and service calls (`C/keys.py`, `C/remote.py`, `C/media_player.py`) | none | `channel_to_keys`, `parse_key`, tune, send_command, single key, turn_on/off, launch_app | one call is many keys; names that are none |
| entities (`C/remote.py`, `C/media_player.py`) | the remote's assumed power, the media player's favorites | turn_on/off, select_source, play_media, state | on and off are one toggle; favorites are a copy of the options |
| local transport (`C/transport/local_http.py`, `base.py`) | session, lock, credentials | `async_send_keys`, `_post_sgs`, `async_launch_app`, `async_close`; connect and pair | two-step Digest exchange under a lock that covers one key, timeouts that leave a key in doubt, a close under the call |
| Digest (`C/transport/digest.py`) | nonce count | parse a challenge, build a header | arithmetic on strings |
| delegate, cloud, factory (`C/transport/*.py`) | none | one service call per key; a stub; a table | - |
| discovery (`C/discovery.py`) | none | search, fetch a description, ask for a Joey's Hopper | answers that do not come |
| event subscription (`C/gena.py`) | `_sid`, renew task, listener | start, renew, subscribe afresh, stop | leases against timers, restarts, lost answers, cancellation of a task inside a request |
| coordinator (`C/coordinator.py`) | data, timers | poll, requested refresh, push | results applied out of order |
| config flow (`C/config_flow.py`) | the data of each open flow | user, SSDP, pair, PIN, link, cloud, delegate steps | several flows for one receiver, receivers that move, state read when a card is shown and used when it is submitted |
| options flow (`C/config_flow.py`) | options of the entry | one form: an interval, favorites as text | takes effect by a reload |
| entry lifecycle (`C/__init__.py`) | runtime data of each entry | setup, unload, reload | failures halfway, options that change meanwhile |
| frontend (`C/frontend.py`) | a flag | register the card once | check, await, set |
| web remote (`src/tools/remote_server.py`) | page and its power indicator, threads, URLs | find the URLs, key, tune, launch, stop, state | threads without a lock, answers that overtake each other |
| prober (`src/tools/probe_receiver.py`) | sockets, scan tasks, a semaphore, the report | listen, scan, fingerprint, write | hundreds of connections at once, any of which fails; an interrupt |
| verifier (`src/tools/verify_control.py`) | the file `.verify_mac` | pair, complete, send keys | what one process pairs the next one uses |
| Lovelace card, constants, translations | - | - | not modelled, see 7 |

How they interact.  A service call on an entity becomes a key sequence (keys),
which the entity's transport replays at the receiver; then the entity asks the
coordinator for a refresh.  The coordinator polls through the same transport and
takes what the event subscription pushes; entities show its data.  The entry's
setup makes transport, coordinator and subscription, its unload takes them down,
while service calls may still be running.  The config flow makes entries, through
a transport of its own, and brings their host up to date.

What makes each part correct:

* commands: exchanges isolated, keys in order and at most once, success only when
  the receiver answered for all of them, a known prefix when not, every call ends,
  nobody is told to pair again for nothing;
* subscription: renewed in time, one task, recovers after a restart, nothing left
  behind by a stop;
* state: whatever overlaps and gets lost, what is shown catches up;
* flows: one entry per receiver, with the receiver's own credentials and its
  present address;
* entities: what they show is what the receiver is, in the end; every favorite the
  user typed is a source and tunes its channel;
* lifecycle: no listener or session without an owner, every reload ends, the
  options in force are the ones that were given, every entry has the card;
* web remote: what the page is told is true, and its indicator catches up;
* prober: no open port and no answer is missing from the report, and it ends;
* verifier: all invocations are the same controller.

## 2. Modules

```
Keys <- SgsTransport <- MCSgsTransport          KeyDelivery  (abstract)
   |         |  \- implements -> KeyDelivery <- implements - RemoteServer <- MCRemoteServer
   |         \- SgsTransportProofs                            |   \- RemoteServerProofs
   \- RemoteKeys <- MCSgsTransport               Ascending <-+- Probe <- MCProbe
                                                                \- ProbeProofs
GenaSubscription <- MCGenaSubscription, GenaSubscriptionProofs
StateCoordinator <- MCStateCoordinator, StateCoordinatorProofs
ConfigFlow <- MCConfigFlow, ConfigFlowProofs
Favorites <- EntryLifecycle <- MCEntryLifecycle, EntryLifecycleProofs
VerifyControl <- MCVerifyControl, VerifyControlProofs
```

A definition that models an operation has the operation's name where it can; a
comment `Mutant:` marks a definition that is not part of any specification: it is
a plausible bug, put in the place of the correct definition to see that a property
notices.

**Keys.**  Pure operators: the key sequence (`Plan`) of each service call.  A
channel is a sequence of characters; `channel_to_keys` maps each to its key and
adds `Enter`; an unknown character raises before any key is sent.

**RemoteKeys.**  The names a user may give a key, their aliases, and the receiver's
names of them.  `send_command` leaves out the names that are none and sends the
rest; `send_single_key` does nothing with such a name.  The calls of `sgs_core`
are built with it.

**KeyDelivery.**  What a transport promises, in four actions: serve the key the
call is at, advance, succeed, fail.  A call that failed may still see one key
pressed (the request in doubt), never a later one.  Serving a key is pressing it, or
skipping it in an answer that no caller can tell from success.  A forgiving call
(`Forgiving`) reports success whatever became of its keys.

**SgsTransport.**  `pc[c]` is where the task of a call is suspended: `ready`
(between keys, `asyncio.sleep`), `waiting` (on the lock, FIFO as in asyncio),
`challenge` and `auth` (the two POSTs), `launch`.  `SendKey` is everything
`async_send_key` does up to the lock (session and credentials checked), `Acquire`
its continuation when the lock is handed over, `ReadChallenge` and `ReadResult`
what follows each answer, with every early exit of `_post_sgs`; `GiveUp` is the
timeout or client error of a POST, `Cancel` a cancellation at any await,
`async_close` the unload of the entry.  A 200 to the first POST is success and its
body is not read; an answer below 400 to the second is success unless its body has a
result other than 1.  `Raise` is a `TransportError`: turn_on and turn_off swallow it
(`_try_power`) and return as if nothing had happened, the outcome `swallowed`.

The receiver (`Serve`) is external: it challenges, checks nonce and credentials,
executes or rejects a key; or it asks for no authorization, redirects, or answers
without a result.  A request that was given up may be served at any later time.
`OneNonce` makes each challenge void those before it, since the receiver's policy is
not known; the run has the strict one, the theorems hold for both.  Three history
variables: `typed`, the keys executed; `skipped`, the keys left out in an answer that
the transport reads as success; `overtaken`, the calls during whose exchange a request
was served that its sender had given up.  `Together` names the sets of calls an
instance makes at about the same time.

**GenaSubscription.**  The client's state is `main` (async_start, async_stop),
`sid`, the renew `task` with its `wake`, the one outstanding `call`, and the
listener; the receiver's is the `expiry` of each subscription.  Time is discrete.
A renew that is refused clears `sid` and subscribes afresh; an exception that is
not caught ends the task.  `stray` are requests that were given up and may still
arrive.  A tick is ten seconds, the client's timeout.  `timeout_seconds` is
`_timeout_seconds`: a TIMEOUT header that is missing or cannot be read
(the fault `no_timeout`) counts as `DEFAULT_TIMEOUT`.  The receiver may restart
(`Reboot`) beside the faults, which forgets its subscriptions.

**StateCoordinator.**  Home Assistant's coordinator as it is used here: a timed
refresh and a requested one may overlap (they do not share a lock),
`async_set_updated_data` replaces the data and the timer but not a poll under
way.  The receiver's power is told by the number of its changes, so that old news
can be told from new; its parity is the power.  The entities read it: `media_state`
is on unless the power is known to be off, `is_on` is the power or, where it is not
known, what the remote's last command assumed.  `try_power` is turn_on and turn_off:
both press the toggle, assume what was asked for and request no refresh.  A
notification may be lost or be of another property (`NoteFault`).

**ConfigFlow.**  A flow is a record of what `self._data` holds; each step of the
code is an action, and what a step does inside its awaits against one receiver is
one action.  `InProgress`, `Configured` and `WithHost` are
`async_set_unique_id` and `_abort_if_unique_id_configured`.  Receivers move
(`Renumber`), announce themselves (`Ssdp`), take PINs off the TV.  A receiver
stands for its serial, credentials for the receiver that minted them.

**Favorites.**  Pure operators, from the text of the options form to a source that is
selected.  A dict is a function from names to channels: the order of its names shows
in a text only, where `favorites_to_text` puts them in some order, since the sources
are sorted and Home Assistant compares options whatever their order.
`favorites_from_text` is in closed form: a name has the channel of the last line that
assigns it one.  `MCEntryLifecycle` holds the code's loop, line by line, and the
assumption `FavoritesOfText` that both agree on all texts of up to four of six lines,
which TLC evaluates.  `select_source` and `play_media` are the media player's use;
`play_media` tunes for the media types of a channel (`ChannelTypes`) and does nothing
for any other.

**EntryLifecycle.**  `entry[e].stage` is the await the setup or unload of an entry
is at.  Entries run concurrently, one setup or unload at a time each, as Home
Assistant's setup lock has it.  `Fault` is the step that fails.  Setup reads the
interval at its start and the media player takes the favorites when it is made
(`AddEntities`), after the subscription, so one setup may see two forms.  `typed`
and `missed` are history variables: the lines the user typed last, and the options
that changed after the setup under way had read them.

**RemoteServer.**  The page's clicks, the server's threads and the receiver, with
the same abstract promise as the integration; it has no lock, so `OneNonce` bites.
`told[c]` is what the page learns of a click.  Some errors leave the key they are
about in doubt (`Doubtful`): a receiver that asks for no authorization executes the
key and the page is told that it failed, and so does an answer in JSON without a
result.
`discover_urls` is where the server's URLs come from: a search, or a guess.  The page
polls for the power without waiting for the poll before; an answer is read at the
receiver (`PollAnswered`) and shown in any order (`ShowState`).

**Ascending.**  A set of numbers in ascending order, as `scan` sorts the open ports
and the web remote goes through the characters of a channel that are digits.  It is
written by counting, because sorting and selecting are recursions about which nothing
could be proved.

**Probe.**  `stage` is what `main` is at; in a scan `task[p]` is the await of one
port's task.  A place at the semaphore is held until the connection is closed.  A
process that is out of sockets sees what a closed port looks like.  `timedout` is a
history variable: the connections that failed for no reason of the port's.  `hangup`
is the wait for the peer to acknowledge the close of a TLS connection, which is outside
every timeout; `HungUp` ends it, when the peer answers.

**VerifyControl.**  An invocation finds the serial, gets the MAC (`ControllerMac`,
`ReadMac`, or `CreateMac` and `SaveMac`: opening the file empties it), then starts a
pairing, completes one or sends keys, with credentials from the command line, which
may have been given out long before.  A crash is an exception, which nothing
catches, or an interrupt.  `raced` is a history variable: first invocations
overlapped or one was cut off before the file was full.

## 3. Runs

All runs finish in two minutes or less on two workers.  Deadlock is not
checked where the system may really stop: all calls done, changes and faults used
up, the client stopped, the program ended.

| run | instance | what it shows |
| --- | --- | --- |
| `sgs_core` | one transport and pairs of service calls at it: a command of three names, one of them none, beside a `turn_on` whose key the receiver rejects, or beside a tune; the `turn_on` beside an app launch; a key that is none beside a channel that is none.  A receiver that honours only its last nonce; every fault, late requests, fairness | exchanges are isolated (`LockIsolatesExchange`), keys arrive in order and once (`TypedInOrder`), a failure leaves a known prefix and a normal return means that all keys were served (`PrefixTyped`), the invariant of the proofs (`DeliveryInv`) and the refinement of `KeyDelivery` (`DeliversKeys`); nobody is told to pair again while the pairing is valid, unless a late request came between (`NoSpuriousRepair`); every call ends (`CallsEnd`) |
| `sgs_interleave` | two tunes of two digits, no fault | finding, see 5 |
| `gena_faults` | leases of seven ticks, a default of six, three faults, two restarts of the receiver, fairness | `RenewedInTime`, `TaskDiscipline`, `StopLeavesNothing`, `ListenerBeforeSubscription`, `FewSubscriptions` (beside one, each subscription at the receiver is paid for by a fault); `PushRecovers` (where no fault happened, after any restart) and `StopEnds` |
| `gena_stop_raises` | one hang-up | finding |
| `state_catches_up` | three changes of the receiver, by turn_on, turn_off or somebody else, two faults of polls and notifications, fairness | `RefreshAhead`: another look is scheduled or under way at all times; `CatchesUp`: what both entities show becomes and stays what is |
| `flow_all` | a Hopper, its Joey and a Wally, four addresses, two flows of any source and method, searches that fail | `OneEntryPerReceiver`, `CredsFromOwnBox`, `HostFollowsAnnouncement` |
| `flow_joey_moves` | a Hopper and its Joey, three announcements | finding |
| `entry_reloads` | two entries, two faults, two forms saved, fairness | `ListenersOwned`, `OptionsApplied` (the interval), `SourcesWork` (the favorites, from text to channel), `CardServed` (a loaded entry has the card, and once it is registered only set-ups that were about to register it do so again), `ReloadEnds` |
| `entry_zero` | the same, no fairness | finding |
| `remote_mixed` | a tune beside a key or an app, in two threads, and an empty field; a receiver that honours one nonce and may ask for none, every fault, two polls of the page over one change of the power, fairness | `ToldTruth` (up to the errors that leave a key in doubt), the refinement `DeliversKeys`, and `IndicatorCatchesUp` |
| `probe_scan` | two hosts, three ports, one of which speaks TLS, two paths, two connections at once, two faults, an interrupt, fairness | `OpenPortsReported`, `ServicesReported`, `ProbeEnds` (unless it waits for ever in a TLS close) |
| `verify_pairs` | four invocations in two shells, two crashes | `MacSettled`: a MAC once in the file stays; `OneController`: all requests name it |

`TypeOK` of each module is checked by one of its runs.

Bounds and why they are enough.  Two calls of one transport already compete for
the lock; which two is what the pairs vary.  Two digits make a tune that can be torn
apart.  In the subscription,
four ids let three stale subscriptions stand beside a new one; the lease of seven
ticks is just above the sum of margin and shortest wait, six, which is the
default for an unreadable header here: both the margin and the shortest wait decide
something (the code's default is thirty ticks, and a receiver that grants less in an
unreadable header is outside, see 7); after two restarts a client has
been forgotten while it recovers.  Three changes let a poll be
two changes behind.  Two flows are the fewest that race, three let a receiver be
configured, announced again and linked to.  The forms of `entry_reloads` hold a
blank line, a line without an equals sign, one with no channel, a name twice, a channel with an equals sign, an
app's name, an interval of zero, and a form saved as it was opened; two of them let
options change twice around one setup.  Two polls are the fewest of which the older
may arrive last.  Three ports are more than the two places at the semaphore, which
are all the sockets there are.  Four invocations are a pair of first ones and a pair
that uses what they left.  `MaxFaults`, `MaxReboots`, `MaxChanges`, `MaxOptions` and
`MaxRuns` bound how often the environment acts; the system's own retries are
not bounded.  `SYMMETRY` is used in `flow_all` only, which checks invariants,
over flows and addresses that nothing tells apart.

## 4. Fairness

Weak fairness but for one action, and only where something is bound to happen: the event loop runs
what is ready, every POST has a timeout (`ClientTimeout`), asyncio's lock wakes
its waiters in order, timers fire, Home Assistant retries a setup that was not
ready, every connect, handshake and read of the prober has a timeout and every
listener of it a deadline.  There is none on `HungUp`: `await writer.wait_closed()`
(`probe_receiver.py:308`, `371`) is outside `wait_for`, and before Python 3.11 a TLS
close waits for the peer's close_notify without limit; `ProbeEnds` says that this is the
only place where the prober can stay.  Strong fairness is on `PollAnswered`: a receiver that is there time and
again answers a poll of the page in the end.  No fairness is put on the user, on
faults, on restarts or on changes of the receiver.  `PushRecovers` rests on the
receiver answering after its last restart, `CatchesUp` and `ReloadEnds` on
failures being finitely many.

## 5. Findings

Four runs must find their property violated; `PROJECT.json` quotes the text the
code departs from.

* `sgs_interleave` - the lock covers one key (`local_http.py:367`), so the digits
  of two tunes mix and an `Enter` enters a channel nobody asked for.
* `gena_stop_raises` - a hang-up on UNSUBSCRIBE raises an error that is neither a
  timeout nor an `OSError` (`gena.py:191`) and leaves the listener up.
* `flow_joey_moves` - a Joey keeps its Hopper's old address after the Hopper
  announced the new one (`config_flow.py:249`).
* `entry_zero` - the form says "State poll interval (seconds, 0 to disable)"
  (`strings.json:69`) and accepts 0, but the setup takes 0 for none given and the
  entry polls every ten seconds (`__init__.py:52`; `ScanInterval`).

Other departures that the models show and no run singles out: the properties that
hold name them as exceptions, or they follow from one definition.

* A call that waited for the lock meets a session that an unload cleared and ends
  in an `AttributeError`, which `_try_power` does not swallow (`local_http.py:370`;
  `FirstPost`).
* A 200 to the first POST returns success without a look at its body
  (`local_http.py:383-384`), although the body is where the receiver "reports
  success/failure" (`local_http.py:424-426`): a key that a receiver without
  authorization rejects with result 20 counts as sent.  So does an answer below 400 to
  the second POST whose body has no result, a redirect among them
  (`local_http.py:416-430`).  `PrefixTyped` calls such keys served, and `skipped` has them.
* turn_on and turn_off report success whatever became of their key
  (`remote.py:78-82`; the outcome `swallowed`), as `remote.py:68-69` intends.
* At a receiver that honours only its last nonce, a request that was given up and
  is served during the exchange of a later call voids the nonce of that call, which is
  then told to pair again (`local_http.py:367`; `NoSpuriousRepair` excepts the calls in
  `overtaken`).
* A grant of forty seconds or less is renewed with no margin (`gena.py:195`; with
  `Grants = {4}` `RenewedInTime` fails), and so is a grant of less than five minutes
  whose TIMEOUT header cannot be read (`gena.py:46-52`).
* A stop during a fresh SUBSCRIBE leaves a subscription at the receiver until its
  lease ends (`gena.py:99`; `StopLeavesNothing` is about stops without a fault).
* A poll that was answered before a change replaces the newer push until the next
  refresh (`coordinator.py:48`; `CatchesUp` is about the end, not about each step).
* A notification that does not carry the power takes it from the data, and the
  entities fall back to on (`coordinator.py:57`; `OtherNote`).
* turn_on and turn_off press the same toggle, and the remote assumes what was asked
  for, possibly the opposite of what it did; neither requests a refresh
  (`remote.py:82`, `local_http.py:76-78`; `try_power`).
* The channel and source attributes of the entities are never shown: a poll fills in
  the power only (`local_http.py:440-447`; `state_from_devinfo`).
* A failed poll gives no data instead of an unavailable entity
  (`local_http.py:313`; `state_from_devinfo`).
* A delegate flow that began with a receiver answering the search gives that
  receiver's entry its own host, which may be none (`config_flow.py:418`;
  `Overwritten`).
* A Joey's card shown before the Joey moved creates an entry with the old address
  (`config_flow.py:185-188`; `HostFollowsAnnouncement` is about paired receivers).
* A Joey may be linked to a delegate entry of its Hopper, without credentials
  (`config_flow.py:263`; `CredsFromOwnBox` allows it).
* A pairing whose receiver has an open card ends without an entry
  (`config_flow.py:417`; `create_entry`).
* The form after a missing host is blank and has no error (`config_flow.py:295`;
  the step `user_blank`).
* Options that change between their reading and the end of a setup are not applied
  (`__init__.py:40` and `74`; the field `missed`).
* Favorites take any text for a channel; a tune of it fails later
  (`config_flow.py:441`; `favorites_from_text`).  A field that is emptied may be left
  out of the submission, and then the old favorites stand (`config_flow.py:453`; the
  form with its text as it was opened).
* Two entries set up at once register the card twice (`frontend.py:31`;
  `BeginSetup`, `RegisterFrontend`), although `frontend.py:8-9` calls the registration
  idempotent, even with multiple config entries.  `CardServed` says what is left of
  that: once the card is registered, no set-up that begins then registers it again.
* The web remote reports a receiver that does not answer as a stopped server
  (`remote_server.py:152`; `GiveUp`).
* At a receiver that asks for no authorization the web remote reports as failed a key
  that was executed (`remote_server.py:163-164`), and so, with any receiver, does an answer in JSON
  without a result (`182-189`; `Doubtful`).  An answer below 400 that is no JSON counts
  as success whatever became of the key (`remote_server.py:183-184`; `skipped`).
* The prober's default of 400 connections is above the 256 sockets that a stock
  macOS grants a process, and a connection refused for want of a socket counts as a
  closed port (`probe_receiver.py:549`, `230`; `OpenPortsReported` assumes
  `Concurrency <= FdLimit`).
* A receiver that never acknowledges the close of a TLS connection holds the prober
  up for ever, on the Python versions before 3.11 that it claims to run on
  (`probe_receiver.py:15`, `308`, `371`; the stage `hangup`).
* An interrupt loses all the prober found, and one between opening and writing the
  report leaves it empty, whatever was there before (`probe_receiver.py:573-577`;
  `OpenReport`, `Interrupt`).
* An invocation of the verifier that is cut off between opening and writing its file
  leaves an empty MAC, which all later ones use; overlapping first invocations
  overwrite each other's (`verify_control.py:96-102`; `raced`).

## 6. Proofs

Each proofs module extends its component and assumes its named assumption on the
constants, nothing else: sets have their types, and values that stand for "none" are
not among those they stand beside.  Everything holds for any number of calls, flows,
entries, hosts, threads, faults and changes.  Where a theorem needs more of the
constants, its statement says so.  A state predicate `IInv` (or a named part) is shown to
hold initially and to be preserved action by action, and to imply the properties;
`PTL` does the rest.

**SgsTransportProofs** (`TransportAssumption`: calls address transports, a call is one
of the records of `Keys`).

* `TypeInvariant` - by one lemma per group of operators that several actions share.
  That a plan is a sequence of keys (`PlanIsSequence`) needs that the index into a
  repeated command stays within it (`IndexWithin`).
* `LockIsolates` - from `LockOwned`: a call inside the exchange is the holder of its
  transport's lock.  `LockIsolatesExchange` by itself does not say who may enter.
* `DeliveryInvariant` - `DeliveryInv` is inductive together with `TypeOK`: a request
  on its way is the only one of its call, is for the key the call is at, and means that
  this key was not served yet (`RequestsCurrent`); the caller takes an answer for success
  exactly if it was, and an "ok" means that it was executed (`RepliesTruthful`); at each
  place of a task all earlier keys were served (`TasksAtKey`).  Late requests are why the
  first part speaks of calls that are done.  It does not need the lock: each call's own
  requests are sequential.
* `SuccessMeansExecuted` - at a receiver that asks for authorization and gives every
  answer a result (`Conforming`) nothing is skipped, so a call that succeeds has had all
  its keys executed.  Without `Conforming` only `PrefixTyped` holds; a call that swallowed
  its error is not one that succeeds.
* `ExactUnlessInterrupted` - the Enter of a tune enters that tune's channel unless a key
  of another call was executed between two keys of the tune, or the receiver left one of
  them out in an answer that reads as success: `Consecutive` counts back
  from the Enter, at each place by `TypedInOrder` and `PrefixTyped` (`Successors` is
  induction over a set of numbers, from the well-foundedness of `<`).  `LoneTuneIsExact` is
  `TuneIsExact` where only one call sends keys.  So what `sgs_interleave` finds is, beside
  such answers, the only way for a tune to go wrong, late requests and failures included.
* `KeysInOrder`, `KeysArePrefix`, and `Implements` (`Spec => DeliversKeys`: each step is
  a step of `KeyDelivery` or a stutter) - from `DeliveryInv`.
* `OnlyDueRepairs` - under `OneBoxOneEntry`: the calls of a receiver that honours one
  nonce share one transport; two entries of one box are outside.  The invariant is
  `NonceKept`: unless a call was overtaken, the nonce it uses, or is about to use, is its
  own and still alive, and an answer "denied" is read only where the pairing is not valid.
  This proof does need `LockOwned`: the lock is what keeps another call's challenge from
  voiding the nonce.

**GenaSubscriptionProofs**.

* `TypeInvariant`; `DisciplinedTask` and `ListenerUp` from `Phases`, which ties `main`,
  `task`, `sid`, the kind of the outstanding call and the listener together.
* `ShutDownUnlessHungUp` - `StopShutsDown`, which `gena_stop_raises` refutes, holds where the
  receiver never hangs up: no other failure leaves the listener up.
* `RenewedBeforeExpiry` and `NothingLeft` assume `Timely`: the margin exceeds the time
  out, and every grant exceeds the shortest wait and a time out.  The code's constants
  have the first (30 s and 10 s); the second is what a receiver must grant, section 5
  has what happens below.  That an unreadable header stands for no less than the default
  is in the model (section 7).  `RenewedInTime` is carried by `Lasting`: while the task
  sleeps the lease outlasts the wait and a time out; while it calls, age and lease
  together exceed a time out; a fresh answer's lease is as long as it says.  It needs
  `StraysOld`: no given-up request that may still arrive names the subscription held.
  `StopLeavesNothing` is carried by `Tidy`: without a fault or a restart only the
  subscription held, or just granted, exists.
* `PricedSubscriptions` (`FewSubscriptions`) needs no `Timely`.  `Priced` counts what is or
  may become a subscription, those at the receiver and the SUBSCRIBE requests that were
  given up (`Cost`): at most one more than the faults; and no more than the faults
  while a client that goes on holds none of those at the receiver (`Own`), or has its
  renewal refused or unanswered by a fault (`Failing`).  The second part makes it
  inductive: a client subscribes afresh only from such a state, so the new subscription
  is the one that is free.

**StateCoordinatorProofs** - `TypeInvariant`; `AlwaysRefreshed`, whose property is
inductive once the types are known.

**ConfigFlowProofs** - `IInv` has what a flow holds at each step (`FlowOK`), what an
entry may hold (`EntryOK`), that unique ids tell entries apart (`Keyed`), and that no
entry has the unique id of a flow that shows a form (`Vacant`).  The last is what makes
`create_entry` safe without a second look: an entry made meanwhile ends the other flows
of its receiver.  From it `TypeInvariant`, `OneEntry` and `OwnCreds`; `FollowedHost` adds
a case for each action that writes a host or an address.

**EntryLifecycleProofs** - `Shape`: who has a listener, a session and a subscription at
each stage (`Owns`), and which interval the setup works with (`Reads`).  From it
`OwnedListeners` and `AppliedOptions`.  `WorkingSources` (`SourcesWork`) has two halves: what
the steps do, by `Offered`: a loaded entry works with what was made of the text typed
last, and the options hold it too; and what the operators do: `FromText`, that each
name of a text has the channel of its last line, whose number exists (`MaxOf`, by
the well-foundedness of `<`), and `ToText`, that a text written from options reads back
as them, so that a form saved as it was opened changes nothing.  `TypeInvariant` rests on the
same two.  `AppliedOptions` is about the intervals the options give and the default where
they give none; of zero it claims nothing.  `ServedCard` is a temporal formula, by an
invariant (`Served`: the flag is set exactly if the card is registered, and who is past
the registration found or set it) and a step that follows from it (`Late`).

**RemoteServerProofs** - the same argument as for `SgsTransport` without a lock; that a
request carries one key outside a tune (`RemoteAssumption`, as `send_key` and `launch_app`
take one name) is used.  `TypeInvariant`; `PageToldTruth`: an answer stands for what became of its key except
for the errors in `Doubtful`; `Implements`.

**ProbeProofs** - `AscendingLemma`: `Ascending(S)` enumerates `S`, strictly.  `IInv`
says of a scan that a port that accepts and whose task is over is in `open` unless its
own connection failed (`ScanOK`), of fingerprinting that what is made and what is left
are the open ports in order (`NamesOK`), and of each host reported that it is right
(`HostOK`).  `PortsReported` has `Concurrency <= FdLimit` as part of its property: the
semaphore is what keeps the process from running out of sockets, a step of the proof
that counts the places held.

**VerifyControlProofs** - `Placed` and `Named`: as long as nothing raced, a request
carries the MAC of the file, which is full.  `TypeInvariant`, `SameController`, and
`MacStays`, an action property, from it.

Only model-checked:

* liveness (`CallsEnd`, `PushRecovers`, `StopEnds`, `CatchesUp`, `ReloadEnds`,
  `IndicatorCatchesUp`, `ProbeEnds`): fairness and `ENABLED` are beyond the prover;
* that `favorites_from_text` computes what the code's loop does, an induction over the
  lines: TLC compares them on bounded texts (`FavoritesOfText`);
* the four properties that the code violates: for `TuneIsExact` and `StopShutsDown` theorems
  say under which condition they hold; none is stated for `JoeyFollowsHopper` and
  `ZeroDisables`.

## 7. Assumptions and what is not modelled

* Home Assistant: unique ids of flows and entries, setup lock, retry, timers and
  the two refreshes of a coordinator behave as used above.  A reload requested
  during an unload is merged with the one that is due.
* The receiver: an authorized POST that it answers with an error (400 and above) has no
  effect; one answered below 400 may have one or not.  A subscription whose TIMEOUT header
  cannot be read lasts at least as long as the code assumes (300 s).  It sends its notifications
  in order, one at a time, so the
  sequence number that `_handle_notify` ignores is not modelled; a receiver pairs
  only a controller that names its serial, and a Joey redirects.
* The cloud transport never connects; the delegate transport is one blocking
  service call per key and is not modelled further, nor is the option that names its
  entity, which the form hands on as it is.
* Digest: the hashes and the header's text are arithmetic on strings with a published
  vector, which the unit tests check; what counts as a challenge is modelled.
* Texts: XML, SSDP and mDNS parsing, labels, banners; the card, whose taps are one
  service call each; the verifier's `--mac`, which goes around its file.
* The PIN that expires and is not renewed (`async_step_pair_pin`) is in the model
  (`PinExpire`), but no text of the repository promises that it be renewed.
* Without a control URL at connect time a refresh sets the data to `None`, also
  after a push; `CatchesUp` and `RefreshAhead` are claimed only where the description
  was read.

## 8. Plan

Done: the inventory, all state machines above, the proofs of section 6: every safety
invariant, action property and refinement that a run finds to hold is a theorem.

What would extend it: two transports that share a Hopper's SGS server (a Joey and its
Hopper), whose nonces then meet; the composition of lifecycle, subscription and
transport, so that an unload meets calls and renewals in progress; an abstract
subscription that `GenaSubscription` implements.
