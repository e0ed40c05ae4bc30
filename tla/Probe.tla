-------------------------------- MODULE Probe --------------------------------
(***************************************************************************)
(* The prober of a receiver (tools/probe_receiver.py): three listeners     *)
(* collect announcements, then for each host a scan opens connections to   *)
(* all ports at once, as many as a semaphore admits, each open port is     *)
(* fingerprinted, and in the end one report is written.  The user may      *)
(* interrupt it at any time.                                               *)
(***************************************************************************)
EXTENDS Naturals, Sequences, SequencesExt, Ascending

CONSTANTS
  Hosts,         \* the receivers to probe, in order
  Ports,         \* ports to scan
  Accepts,       \* host -> the ports that accept a connection
  Tls,           \* ports that speak TLS
  Paths,         \* CANDIDATE_PATHS
  Concurrency,   \* connections the semaphore admits
  FdLimit,       \* sockets the operating system grants the process
  Announcements, \* datagrams: [protocol, source, head, tail]
  MaxFaults,     \* how often a connection or a listener fails
  None           \* no fingerprint is being made

Protocols == {"ssdp", "sddp", "mdns"}

ASSUME ProbeAssumption ==
  /\ Ports \subseteq Nat /\ IsFiniteSet(Ports) /\ Tls \subseteq Ports
  /\ Hosts \in Seq(DOMAIN Accepts)
  /\ \A h \in DOMAIN Accepts : Accepts[h] \subseteq Ports
  /\ Paths \in Nat /\ Concurrency \in Nat \ {0} /\ FdLimit \in Nat \ {0}
  /\ \A m \in Announcements : m.protocol \in Protocols
  /\ MaxFaults \in Nat
  /\ None \notin Nat

VARIABLES
  stage,    \* what main awaits or does
  asked,    \* --discover-only, --no-discover
  socks,    \* discovery sockets bound so far
  heard,    \* protocol -> the datagrams kept, in order
  at,       \* which of the hosts is probed
  task,     \* port -> the await its scan is at
  open,     \* open_ports of the host's scan
  ports,    \* the ports still to be fingerprinted, sorted
  entry,    \* the fingerprint being made
  services, \* those made for this host
  report,   \* the hosts probed so far
  file,     \* the report on disk: absent, empty or whole
  timedout, \* history: <<host, port>> whose connection failed for a fault
  faults

vars == <<stage, asked, socks, heard, at, task, open, ports, entry, services, report,
          file, timedout, faults>>

finding == <<socks, heard>>
scanning == <<task, open>>
naming == <<ports, entry, services>>

Host == Hosts[at]
Ended == {"done", "failed", "interrupted"}

(* The first await of the probe of host number i, or the report. *)
StartHost(i) ==
  /\ at' = i
  /\ stage' = IF i <= Len(Hosts) /\ ~asked.only THEN "scan" ELSE "write"
  /\ task' = [p \in Ports |-> "waiting"] /\ open' = {}

Init ==
  /\ asked \in [only : BOOLEAN, skip : BOOLEAN]
  /\ (Hosts = <<>> => asked.only)
  /\ stage = "bind"
  /\ socks = {} /\ heard = [l \in Protocols |-> <<>>]
  /\ at = 0 /\ task = [p \in Ports |-> "waiting"] /\ open = {}
  /\ ports = <<>> /\ entry = None /\ services = <<>>
  /\ report = <<>> /\ file = "absent"
  /\ timedout = {} /\ faults = 0

Fault == faults < MaxFaults /\ faults' = faults + 1

-----------------------------------------------------------------------------
(* Discovery. *)

(* The three sockets are bound one after the other; one that is in use     *)
(* ends the program.  --no-discover goes on at once.                       *)
Bind ==
  /\ stage = "bind"
  /\ \/ /\ asked.skip /\ StartHost(1)
        /\ UNCHANGED <<socks, faults>>
     \/ /\ ~asked.skip /\ socks' = Protocols /\ stage' = "listen"
        /\ UNCHANGED <<at, task, open, faults>>
     \/ /\ ~asked.skip /\ Fault /\ stage' = "failed"
        /\ UNCHANGED <<socks, at, task, open>>
  /\ UNCHANGED <<asked, heard, naming, report, file, timedout>>

(* A datagram is known by its source and the first 200 characters. *)
Known(l, m) ==
  \E i \in DOMAIN heard[l] : heard[l][i].source = m.source /\ heard[l][i].head = m.head

(* A listener reads a datagram, and keeps it unless it knows it. *)
Hear(m) ==
  /\ stage = "listen" /\ m.protocol \in socks
  /\ ~Known(m.protocol, m)
  /\ heard' = [heard EXCEPT ![m.protocol] = Append(@, m)]
  /\ UNCHANGED <<stage, asked, socks, at, scanning, naming, report, file, timedout, faults>>

(* The deadline of one listener; when the last one is over all sockets     *)
(* are closed.                                                             *)
Deadline(l) ==
  /\ stage = "listen" /\ l \in socks
  /\ socks' = socks \ {l}
  /\ IF socks' = {} THEN StartHost(1) ELSE UNCHANGED <<stage, at, task, open>>
  /\ UNCHANGED <<asked, heard, naming, report, file, timedout, faults>>

-----------------------------------------------------------------------------
(* The scan. *)

Sockets == {p \in Ports : task[p] \in {"connecting", "closing"}}

(* Mutant: nothing bounds the connections. *)
AcquireAll(p) ==
  /\ stage = "scan" /\ task[p] = "waiting"
  /\ task' = [task EXCEPT ![p] = IF Cardinality(Sockets) < FdLimit THEN "connecting" ELSE "over"]
  /\ UNCHANGED <<stage, asked, finding, at, open, naming, report, file, timedout, faults>>

(* A task passes the semaphore and opens its connection, unless the        *)
(* process has no socket left: an OSError, hence a closed port.            *)
Acquire(p) ==
  /\ stage = "scan" /\ task[p] = "waiting"
  /\ Cardinality(Sockets) < Concurrency
  /\ task' = [task EXCEPT ![p] = IF Cardinality(Sockets) < FdLimit THEN "connecting" ELSE "over"]
  /\ UNCHANGED <<stage, asked, finding, at, open, naming, report, file, timedout, faults>>

(* Mutant: a task whose connection failed leaves without its release. *)
ConnectKeepingPlace(p) ==
  /\ stage = "scan" /\ task[p] = "connecting" /\ p \in Accepts[Host]
  /\ task' = [task EXCEPT ![p] = "closing"]
  /\ UNCHANGED <<stage, asked, finding, at, open, naming, report, file, timedout, faults>>

(* The connection is made, refused or times out. *)
Connect(p) ==
  /\ stage = "scan" /\ task[p] = "connecting"
  /\ \/ /\ p \in Accepts[Host]
        /\ task' = [task EXCEPT ![p] = "closing"]
        /\ UNCHANGED <<timedout, faults>>
     \/ /\ p \notin Accepts[Host]
        /\ task' = [task EXCEPT ![p] = "over"]
        /\ UNCHANGED <<timedout, faults>>
     \/ /\ Fault
        /\ task' = [task EXCEPT ![p] = "over"]
        /\ timedout' = timedout \cup {<<at, p>>}
  /\ UNCHANGED <<stage, asked, finding, at, open, naming, report, file>>

(* A connection that was made is closed, then its port counts as open and  *)
(* its place is free.                                                      *)
Close(p) ==
  /\ stage = "scan" /\ task[p] = "closing"
  /\ task' = [task EXCEPT ![p] = "over"] /\ open' = open \cup {p}
  /\ UNCHANGED <<stage, asked, finding, at, naming, report, file, timedout, faults>>

(* gather returned: the open ports in ascending order. *)
Scanned ==
  /\ stage = "scan" /\ \A p \in Ports : task[p] = "over"
  /\ stage' = "name" /\ ports' = Ascending(open) /\ services' = <<>>
  /\ UNCHANGED <<asked, finding, at, scanning, entry, report, file, timedout, faults>>

-----------------------------------------------------------------------------
(* Fingerprints. *)

(* A connection that was made is closed, and the close awaited, without a  *)
(* timeout: in TLS that takes the peer's close_notify.                     *)
Closing(tls) == stage' = IF tls THEN "hangup" ELSE "name"

(* The TLS handshake with the next port, after a look for a banner. *)
Handshake ==
  /\ stage = "name" /\ entry = None /\ ports # <<>>
  /\ \/ /\ entry' = [port |-> Head(ports), tls |-> Head(ports) \in Tls, path |-> 0, http |-> {}]
        /\ Closing(Head(ports) \in Tls)
        /\ UNCHANGED <<timedout, faults>>
     \/ /\ Head(ports) \in Tls /\ Fault
        /\ entry' = [port |-> Head(ports), tls |-> FALSE, path |-> 0, http |-> {}]
        /\ timedout' = timedout \cup {<<at, Head(ports)>>}
        /\ UNCHANGED stage
  /\ UNCHANGED <<asked, finding, at, scanning, ports, services, report, file>>

(* Mutant: one path too many. *)
FetchPast ==
  /\ entry # None /\ stage = "name" /\ entry.path <= Paths
  /\ \/ /\ entry' = [entry EXCEPT !.path = @ + 1,
                                  !.http = @ \cup {<<entry.tls, entry.path + 1>>}]
        /\ Closing(entry.tls)
        /\ UNCHANGED <<timedout, faults>>
     \/ /\ Fault /\ entry' = [entry EXCEPT !.path = @ + 1]
        /\ timedout' = timedout \cup {<<at, entry.port>>}
        /\ UNCHANGED stage \/ Closing(entry.tls)
  /\ UNCHANGED <<asked, finding, at, scanning, ports, services, report, file>>

(* One path is fetched, in the scheme the port speaks; at a fault no       *)
(* connection is made, or one without an answer.                           *)
Fetch ==
  /\ entry # None /\ stage = "name" /\ entry.path < Paths
  /\ \/ /\ entry' = [entry EXCEPT !.path = @ + 1,
                                  !.http = @ \cup {<<entry.tls, entry.path + 1>>}]
        /\ Closing(entry.tls)
        /\ UNCHANGED <<timedout, faults>>
     \/ /\ Fault /\ entry' = [entry EXCEPT !.path = @ + 1]
        /\ timedout' = timedout \cup {<<at, entry.port>>}
        /\ UNCHANGED stage \/ Closing(entry.tls)
  /\ UNCHANGED <<asked, finding, at, scanning, ports, services, report, file>>

(* The peer acknowledges the close of a TLS connection, or breaks it off;  *)
(* or it never does.                                                       *)
HungUp ==
  /\ stage = "hangup" /\ stage' = "name"
  /\ UNCHANGED <<asked, finding, at, scanning, naming, report, file, timedout, faults>>

(* Mutant: the ports left are forgotten with the first. *)
NamedLast ==
  /\ entry # None /\ stage = "name" /\ entry.path = Paths
  /\ ports' = <<>> /\ entry' = None /\ services' = Append(services, entry)
  /\ UNCHANGED <<stage, asked, finding, at, scanning, report, file, timedout, faults>>

(* The fingerprint of a port is complete. *)
Named ==
  /\ entry # None /\ stage = "name" /\ entry.path = Paths
  /\ ports' = Tail(ports) /\ entry' = None /\ services' = Append(services, entry)
  /\ UNCHANGED <<stage, asked, finding, at, scanning, report, file, timedout, faults>>

(* The last port is done: look up the MAC and go on to the next host. *)
NextHost ==
  /\ stage = "name" /\ entry = None /\ ports = <<>>
  /\ report' = Append(report, [open_ports |-> Ascending(open), services |-> services])
  /\ StartHost(at + 1)
  /\ UNCHANGED <<asked, finding, naming, file, timedout, faults>>

-----------------------------------------------------------------------------
(* The report, hosts and announcements, is written in the end: the file    *)
(* is opened, which empties what was there, and filled.                    *)
OpenReport ==
  /\ stage = "write"
  /\ \/ /\ stage' = "dump" /\ file' = "empty"
        /\ UNCHANGED faults
     \/ /\ Fault /\ stage' = "failed"
        /\ UNCHANGED file
  /\ UNCHANGED <<asked, finding, at, scanning, naming, report, timedout>>

Dump ==
  /\ stage = "dump"
  /\ stage' = "done" /\ file' = "whole"
  /\ UNCHANGED <<asked, finding, at, scanning, naming, report, timedout, faults>>

(* Ctrl-C. *)
Interrupt ==
  /\ stage \notin Ended
  /\ stage' = "interrupted"
  /\ UNCHANGED <<asked, finding, at, scanning, naming, report, file, timedout, faults>>

Step ==
  \/ Bind \/ (\E l \in Protocols : Deadline(l))
  \/ (\E p \in Ports : Acquire(p) \/ Connect(p) \/ Close(p)) \/ Scanned
  \/ Handshake \/ Fetch \/ Named \/ NextHost \/ OpenReport \/ Dump

Next == Step \/ HungUp \/ (\E m \in Announcements : Hear(m)) \/ Interrupt

Spec == Init /\ [][Next]_vars

(* Every connection, answer and banner has a timeout, every listener a     *)
(* deadline, and a plain connection is closed without its peer.  HungUp is *)
(* up to the peer: before Python 3.11 nothing limits the wait for it.      *)
FairSpec == Spec /\ WF_vars(Step)

-----------------------------------------------------------------------------
(* Properties. *)

(* Type correctness of the scan, the fingerprints and the report. *)
TypeOK ==
  /\ stage \in {"bind", "listen", "scan", "name", "hangup", "write", "dump"} \cup Ended
  /\ socks \subseteq Protocols /\ heard \in [Protocols -> Seq(Announcements)]
  /\ at \in 0..(Len(Hosts) + 1)
  /\ task \in [Ports -> {"waiting", "connecting", "closing", "over"}]
  /\ open \subseteq Ports /\ ports \in Seq(Ports)
  /\ entry # None => entry.port = Head(ports) /\ entry.path \in 0..Paths
  /\ Len(report) <= Len(Hosts)
  /\ file \in {"absent", "empty", "whole"}
  /\ faults \in 0..MaxFaults

Missed(i) == {p \in Ports : <<i, p>> \in timedout}

(* A finished report names, for each host and no other, the ports that     *)
(* accept connections: none is missed but one whose own connection failed. *)
(* It takes a semaphore that keeps the scan below the limit of sockets.    *)
OpenPortsReported ==
  file = "whole" /\ ~asked.only /\ Concurrency <= FdLimit =>
    /\ Len(report) = Len(Hosts)
    /\ \A i \in DOMAIN report :
         /\ Accepts[Hosts[i]] \ Missed(i) \subseteq ToSet(report[i].open_ports)
         /\ ToSet(report[i].open_ports) \subseteq Accepts[Hosts[i]]

(* Each open port has its fingerprint, in order, which holds an answer to  *)
(* every path in the scheme the port speaks, if no connection to it failed. *)
ServicesReported ==
  file = "whole" =>
    \A i \in DOMAIN report : LET services_i == report[i].services IN
      /\ [k \in DOMAIN services_i |-> services_i[k].port] = report[i].open_ports
      /\ \A k \in DOMAIN services_i : LET s == services_i[k] IN
           s.port \notin Missed(i) => s.http = {s.port \in Tls} \X (1..Paths)

(* A probe ends, whatever fails, and no task waits for a place for ever;   *)
(* unless a receiver never acknowledges the close of a TLS connection, for *)
(* which the probe then waits for ever.                                    *)
ProbeEnds == <>(stage \in Ended) \/ <>[](stage = "hangup")
=============================================================================
