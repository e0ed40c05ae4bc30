----------------------------- MODULE ProbeProofs -----------------------------
(***************************************************************************)
(* Proofs about the prober for any hosts, ports, paths, announcements,     *)
(* limits and number of faults.                                            *)
(***************************************************************************)
EXTENDS Probe, SequenceTheorems, FiniteSetTheorems, TLAPS

(* A number has as many up to it as its place says: one more than the      *)
(* number before it, and no more than there are.                           *)
LEMMA PlaceOf ==
  ASSUME NEW S \in SUBSET Nat, IsFiniteSet(S)
  PROVE  /\ Cardinality(S) \in Nat
         /\ \A i \in S : Cardinality(UpTo(i, S)) \in 1..Cardinality(S)
         /\ \A i, j \in S : i < j => Cardinality(UpTo(i, S)) < Cardinality(UpTo(j, S))
<1>1. Cardinality(S) \in Nat
  BY FS_CardinalityType
<1>2. ASSUME NEW i \in S
      PROVE  /\ IsFiniteSet(UpTo(i, S)) /\ i \in UpTo(i, S)
             /\ Cardinality(UpTo(i, S)) \in 1..Cardinality(S)
  <2>1. UpTo(i, S) \in SUBSET S /\ i \in UpTo(i, S)
    BY DEF UpTo
  <2>2. IsFiniteSet(UpTo(i, S)) /\ Cardinality(UpTo(i, S)) <= Cardinality(S)
    BY <2>1, FS_Subset
  <2>3. Cardinality(UpTo(i, S)) \in Nat /\ Cardinality(UpTo(i, S)) # 0
    BY <2>1, <2>2, FS_CardinalityType, FS_EmptySet
  <2> QED
    BY <1>1, <2>1, <2>2, <2>3
<1>3. ASSUME NEW i \in S, NEW j \in S, i < j
      PROVE  Cardinality(UpTo(i, S)) < Cardinality(UpTo(j, S))
  <2>0. \A k \in S : k \in Nat /\ (k <= i => k <= j) /\ ~(j <= i) /\ j <= j
    BY <1>3
  <2>1. UpTo(i, S) \in SUBSET UpTo(j, S) /\ j \notin UpTo(i, S) /\ j \in UpTo(j, S)
    BY <2>0 DEF UpTo
  <2>2. /\ Cardinality(UpTo(i, S)) <= Cardinality(UpTo(j, S))
        /\ Cardinality(UpTo(i, S)) # Cardinality(UpTo(j, S))
    BY <1>2, <2>1, FS_Subset
  <2> QED
    BY <1>1, <1>2, <2>2
<1> QED
  BY <1>1, <1>2, <1>3

(* Ascending returns the numbers of a set, each once, in ascending order.  *)
LEMMA AscendingLemma ==
  ASSUME NEW S \in SUBSET Nat, IsFiniteSet(S)
  PROVE  /\ Ascending(S) \in Seq(S) /\ ToSet(Ascending(S)) = S
         /\ \A k, l \in DOMAIN Ascending(S) : k < l => Ascending(S)[k] < Ascending(S)[l]
<1> DEFINE n == Cardinality(S)
           place == [i \in S |-> Cardinality(UpTo(i, S))]
<1>1. n \in Nat /\ place \in [S -> 1..n]
  BY PlaceOf
<1>2. \A i, j \in S : i < j => place[i] < place[j]
  BY PlaceOf
<1>3. IsFiniteSet(1..n) /\ Cardinality(1..n) = n
  BY <1>1, FS_Interval
<1>a. \A k \in 1..n : Ascending(S)[k] = CHOOSE i \in S : place[i] = k
  BY DEF Ascending
<1>b. DOMAIN Ascending(S) = 1..n /\ Ascending(S) = [k \in 1..n |-> Ascending(S)[k]]
  BY DEF Ascending
<1> HIDE DEF place, n
<1>4. place \in Injection(S, 1..n)
  <2>1. \A i, j \in S : place[i] = place[j] => i = j
    <3> SUFFICES ASSUME NEW i \in S, NEW j \in S, i # j, place[i] = place[j]
                 PROVE  FALSE
      OBVIOUS
    <3>1. i < j \/ j < i
      OBVIOUS
    <3> QED
      BY <1>1, <1>2, <3>1
  <2> QED
    BY <1>1, <2>1 DEF Injection, IsInjective
<1>5. place \in Surjection(S, 1..n)
  BY <1>3, <1>4, FS_Injection DEF n
<1>6. \A k \in 1..n : Ascending(S)[k] \in S /\ place[Ascending(S)[k]] = k
  BY <1>a, <1>5 DEF Surjection
<1>7. \A i \in S : place[i] \in 1..n /\ Ascending(S)[place[i]] = i
  BY <1>1, <1>4, <1>6 DEF Injection, IsInjective
<1>8. Ascending(S) \in Seq(S)
  BY <1>1, <1>b, <1>6
<1>9. ToSet(Ascending(S)) = S
  BY <1>b, <1>6, <1>7 DEF ToSet
<1>10. ASSUME NEW k \in 1..n, NEW l \in 1..n, k < l
       PROVE  Ascending(S)[k] < Ascending(S)[l]
  <2> DEFINE i == Ascending(S)[k]
             j == Ascending(S)[l]
  <2>1. i \in S /\ j \in S /\ place[i] = k /\ place[j] = l /\ i \in Nat /\ j \in Nat
    BY <1>6
  <2> HIDE DEF i, j
  <2>2. i < j
    BY <1>1, <1>2, <1>10, <2>1
  <2> QED
    BY <2>2 DEF i, j
<1> QED
  BY <1>b, <1>8, <1>9, <1>10

-----------------------------------------------------------------------------
(* The invariant: what the program holds at each stage, and how far the    *)
(* report is.                                                              *)

Fingerprints == [port : Ports, tls : BOOLEAN, path : 0..Paths,
                 http : SUBSET (BOOLEAN \X (1..Paths))]
HostReports == [open_ports : Seq(Ports), services : Seq(Fingerprints)]

Held ==
  /\ stage \in {"bind", "listen", "scan", "name", "hangup", "write", "dump"} \cup Ended
  /\ asked \in [only : BOOLEAN, skip : BOOLEAN] /\ (Hosts = <<>> => asked.only)
  /\ socks \subseteq Protocols /\ heard \in [Protocols -> Seq(Announcements)]
  /\ at \in 0..(Len(Hosts) + 1)
  /\ task \in [Ports -> {"waiting", "connecting", "closing", "over"}]
  /\ open \subseteq Ports /\ ports \in Seq(Ports)
  /\ entry \in Fingerprints \cup {None}
  /\ entry # None => ports # <<>> /\ entry.port = Head(ports)
  /\ services \in Seq(Fingerprints) /\ report \in Seq(HostReports)
  /\ file \in {"absent", "empty", "whole"}
  /\ timedout \subseteq Nat \X Ports /\ faults \in 0..MaxFaults

Progress ==
  /\ stage \in {"bind", "listen"} => report = <<>>
  /\ stage \in {"scan", "name", "hangup"} =>
       at \in 1..Len(Hosts) /\ ~asked.only /\ Len(report) = at - 1
  /\ stage \in {"write", "dump", "done"} /\ ~asked.only => Len(report) = Len(Hosts)
  /\ stage \in {"bind", "listen", "scan", "write", "dump"} => entry = None
  /\ file = "whole" <=> stage = "done"
  /\ Len(report) <= Len(Hosts)

(* The limit on connections keeps below the number of sockets. *)
Wide == Concurrency <= FdLimit

(* A port that accepts connections and whose task is over is known to be   *)
(* open, or its connection failed for a fault.                             *)
ScanOK ==
  stage = "scan" =>
    /\ open \subseteq Accepts[Host]
    /\ \A p \in Ports : task[p] = "closing" => p \in Accepts[Host]
    /\ \A p \in Accepts[Host] :
         Wide /\ task[p] = "over" => p \in open \/ p \in Missed(at)

(* The fingerprints made, and the one in the making, of the i-th host.     *)
Answered(i, s) ==
  s.port \notin Missed(i) => s.http = {s.port \in Tls} \X (1..Paths)

Begun(i, s) ==
  s.port \notin Missed(i) =>
    s.tls = (s.port \in Tls) /\ s.http = {s.port \in Tls} \X (1..s.path)

(* The fingerprints made and the ports left are the open ports in order.   *)
InOrder(found) ==
  /\ Len(found) = Len(services) + Len(ports)
  /\ \A k \in 1..Len(services) : services[k].port = found[k]
  /\ \A k \in 1..Len(ports) : ports[k] = found[Len(services) + k]

Made ==
  /\ \A k \in DOMAIN services : Answered(at, services[k])
  /\ entry # None => Begun(at, entry)

NamesOK ==
  stage \in {"name", "hangup"} =>
    /\ open \subseteq Accepts[Host]
    /\ Wide => Accepts[Host] \ Missed(at) \subseteq open
    /\ InOrder(Ascending(open))
    /\ Made

HostOK(i) ==
  /\ ToSet(report[i].open_ports) \subseteq Accepts[Hosts[i]]
  /\ Wide => Accepts[Hosts[i]] \ Missed(i) \subseteq ToSet(report[i].open_ports)
  /\ [k \in DOMAIN report[i].services |-> report[i].services[k].port] = report[i].open_ports
  /\ \A k \in DOMAIN report[i].services : Answered(i, report[i].services[k])

ReportOK == \A i \in DOMAIN report : HostOK(i)

IInv == Held /\ Progress /\ ScanOK /\ NamesOK /\ ReportOK

LEMMA InitInv == Init => IInv
<1> SUFFICES ASSUME Init
             PROVE  IInv
  OBVIOUS
<1>1. Held /\ Progress
  <2>1. Len(Hosts) \in Nat /\ MaxFaults \in Nat
    BY ProbeAssumption
  <2> QED
    BY <2>1 DEF Init, Held, Progress, Ended
<1> QED
  BY <1>1 DEF Init, IInv, ScanOK, NamesOK, ReportOK

(* What main does next, and what it then holds. *)
LEMMA StartHostLemma ==
  ASSUME NEW i \in 1..(Len(Hosts) + 1), StartHost(i), Held
  PROVE  /\ at' = i /\ at' \in 0..(Len(Hosts) + 1)
         /\ task' \in [Ports -> {"waiting", "connecting", "closing", "over"}]
         /\ \A p \in Ports : task'[p] = "waiting"
         /\ open' = {}
         /\ \/ stage' = "scan" /\ i \in 1..Len(Hosts) /\ ~asked.only
            \/ stage' = "write" /\ (~asked.only => i = Len(Hosts) + 1)
<1>1. Len(Hosts) \in Nat
  BY ProbeAssumption
<1> QED
  BY <1>1 DEF StartHost

LEMMA OpenAscending ==
  ASSUME Held
  PROVE  /\ Ascending(open) \in Seq(Ports) /\ ToSet(Ascending(open)) = open
<1>1. open \in SUBSET Nat /\ IsFiniteSet(open)
  BY ProbeAssumption, FS_Subset DEF Held
<1>2. Ascending(open) \in Seq(open) /\ ToSet(Ascending(open)) = open
  BY <1>1, AscendingLemma
<1> DEFINE s == Ascending(open)
<1> HIDE DEF s
<1>3. s \in Seq(open)
  BY <1>2 DEF s
<1>4. Len(s) \in Nat /\ s = [i \in 1..Len(s) |-> s[i]] /\ \A i \in 1..Len(s) : s[i] \in Ports
  BY <1>3 DEF Held
<1>5. s \in Seq(Ports)
  BY <1>4
<1> QED
  BY <1>2, <1>5 DEF s

LEMMA NextHeld ==
  ASSUME Held, Progress, [Next]_vars
  PROVE  Held' /\ Progress'
<1>0. /\ Len(Hosts) \in Nat /\ MaxFaults \in Nat /\ Paths \in Nat /\ Ports \subseteq Nat
      /\ IsFiniteSet(Ports) /\ Tls \subseteq Ports /\ None \notin Nat
  BY ProbeAssumption
<1>f. Fault => faults' \in 0..MaxFaults
  BY <1>0 DEF Fault, Held
<1>r. Len(report) \in Nat
  BY DEF Held
<1>1. CASE Bind
  <2>1. CASE asked.skip /\ StartHost(1)
    <3>1. 1 \in 1..(Len(Hosts) + 1)
      BY <1>0
    <3>2. Held'
      BY <1>1, <2>1, <3>1, StartHostLemma DEF Bind, naming, Held, Ended
    <3>3. Progress'
      BY <1>0, <1>1, <2>1, <3>1, StartHostLemma DEF Bind, naming, Held, Progress
    <3> QED
      BY <3>2, <3>3
  <2>2. CASE ~(asked.skip /\ StartHost(1))
    <3>1. /\ stage = "bind" /\ stage' \in {"listen", "failed"} /\ socks' \subseteq Protocols
          /\ faults' \in 0..MaxFaults
          /\ UNCHANGED <<at, task, open, asked, heard, ports, entry, services, report,
                         file, timedout>>
      BY <1>1, <1>f, <2>2 DEF Bind, naming, Held
    <3> QED
      BY <3>1 DEF Held, Progress, Ended
  <2> QED
    BY <2>1, <2>2
<1>2. ASSUME NEW m \in Announcements, Hear(m)
      PROVE  Held' /\ Progress'
  <2>1. heard' \in [Protocols -> Seq(Announcements)]
    <3>1. m.protocol \in Protocols /\ heard[m.protocol] \in Seq(Announcements)
      BY ProbeAssumption DEF Held
    <3>2. Append(heard[m.protocol], m) \in Seq(Announcements)
      BY <3>1
    <3> QED
      BY <1>2, <3>1, <3>2 DEF Hear, Held
  <2> QED
    BY <1>2, <2>1 DEF Hear, scanning, naming, Held, Progress
<1>3. ASSUME NEW l \in Protocols, Deadline(l)
      PROVE  Held' /\ Progress'
  <2>1. /\ stage = "listen" /\ socks' \subseteq Protocols
        /\ UNCHANGED <<asked, heard, ports, entry, services, report, file, timedout, faults>>
    BY <1>3 DEF Deadline, naming, Held
  <2>2. CASE StartHost(1)
    <3>1. 1 \in 1..(Len(Hosts) + 1)
      BY <1>0
    <3>2. Held'
      BY <2>1, <2>2, <3>1, StartHostLemma DEF Held, Ended
    <3>3. /\ at' = 1 /\ report' = <<>> /\ Len(report') = 0 /\ entry' = None
          /\ file' # "whole"
      BY <2>1, <2>2, <3>1, StartHostLemma DEF Progress
    <3>4. \/ stage' = "scan" /\ 1 \in 1..Len(Hosts) /\ ~asked'.only
          \/ stage' = "write" /\ (~asked'.only => Len(Hosts) = 0)
      <4>1. asked' = asked
        BY <2>1
      <4>2. \/ stage' = "scan" /\ 1 \in 1..Len(Hosts) /\ ~asked.only
            \/ stage' = "write" /\ (~asked.only => 1 = Len(Hosts) + 1)
        BY <2>2, <3>1, StartHostLemma
      <4> QED
        BY <1>0, <4>1, <4>2
    <3>5. Progress'
      BY <1>0, <3>3, <3>4 DEF Progress
    <3> QED
      BY <3>2, <3>5
  <2>3. CASE UNCHANGED <<stage, at, task, open>>
    BY <2>1, <2>3 DEF Held, Progress
  <2> QED
    BY <1>3, <2>2, <2>3 DEF Deadline
<1>4. ASSUME NEW p \in Ports, Acquire(p) \/ Connect(p) \/ Close(p)
      PROVE  Held' /\ Progress'
  <2>1. /\ stage = "scan"
        /\ UNCHANGED <<stage, asked, socks, heard, at, ports, entry, services, report, file>>
    BY <1>4 DEF Acquire, Connect, Close, finding, naming
  <2>2. task' \in [Ports -> {"waiting", "connecting", "closing", "over"}]
    BY <1>4 DEF Acquire, Connect, Close, Held
  <2>3. open' \subseteq Ports
    BY <1>4 DEF Acquire, Connect, Close, Held
  <2>4. timedout' \subseteq Nat \X Ports
    <3>1. at \in Nat
      BY <1>0 DEF Held
    <3> QED
      BY <1>4, <3>1 DEF Acquire, Connect, Close, Held
  <2>5. faults' \in 0..MaxFaults
    BY <1>4, <1>f DEF Acquire, Connect, Close, Held
  <2> QED
    BY <2>1, <2>2, <2>3, <2>4, <2>5 DEF Held, Progress
<1>5. CASE Scanned
  <2>2. Ascending(open) \in Seq(Ports)
    BY OpenAscending
  <2>3. /\ stage = "scan" /\ stage' = "name" /\ ports' \in Seq(Ports) /\ services' = <<>>
        /\ UNCHANGED <<asked, socks, heard, at, task, open, entry, report, file, timedout,
                       faults>>
    BY <1>5, <2>2 DEF Scanned, finding, scanning
  <2> QED
    BY <2>3 DEF Held, Progress
<1>6. CASE Handshake
  <2>1. /\ stage = "name" /\ ports # <<>> /\ Head(ports) \in Ports
        /\ stage' \in {"name", "hangup"}
        /\ UNCHANGED <<asked, socks, heard, at, task, open, ports, services, report, file>>
    BY <1>6 DEF Handshake, Closing, finding, scanning, Held
  <2>2. entry' \in Fingerprints /\ entry'.port = Head(ports)
    <3> DEFINE speaks == Head(ports) \in Tls
    <3>1. \/ entry' = [port |-> Head(ports), tls |-> speaks, path |-> 0, http |-> {}]
          \/ entry' = [port |-> Head(ports), tls |-> FALSE, path |-> 0, http |-> {}]
      BY <1>6 DEF Handshake
    <3>2. speaks \in BOOLEAN
      OBVIOUS
    <3> HIDE DEF speaks
    <3>3. ASSUME NEW tls \in BOOLEAN
          PROVE  [port |-> Head(ports), tls |-> tls, path |-> 0, http |-> {}] \in Fingerprints
      <4>1. 0 \in 0..Paths /\ {} \in SUBSET (BOOLEAN \X (1..Paths))
        BY <1>0
      <4> QED
        BY <2>1, <4>1 DEF Fingerprints
    <3>4. [port |-> Head(ports), tls |-> speaks, path |-> 0, http |-> {}] \in Fingerprints
      BY ONLY <3>2, <3>3
    <3>5. [port |-> Head(ports), tls |-> FALSE, path |-> 0, http |-> {}] \in Fingerprints
      BY ONLY <3>3
    <3>6. entry' \in Fingerprints
      BY <3>1, <3>4, <3>5
    <3>7. entry'.port = Head(ports)
      BY <3>1
    <3> QED
      BY <3>6, <3>7
  <2>3. timedout' \subseteq Nat \X Ports
    <3>1. at \in Nat
      BY <1>0 DEF Held
    <3> QED
      BY <1>6, <2>1, <3>1 DEF Handshake, Held
  <2>4. faults' \in 0..MaxFaults
    BY <1>6, <1>f DEF Handshake, Held
  <2> QED
    BY <2>1, <2>2, <2>3, <2>4 DEF Held, Progress
<1>7. CASE Fetch
  <2>1. /\ stage = "name" /\ entry \in Fingerprints /\ entry.path < Paths
        /\ ports # <<>> /\ entry.port = Head(ports)
        /\ stage' \in {"name", "hangup"}
        /\ UNCHANGED <<asked, socks, heard, at, task, open, ports, services, report, file>>
    BY <1>7 DEF Fetch, Closing, finding, scanning, Held
  <2>2. entry' \in Fingerprints /\ entry'.port = Head(ports)
    <3>1. entry.path + 1 \in 1..Paths /\ entry.path + 1 \in 0..Paths
      BY <1>0, <2>1 DEF Fingerprints
    <3>2. entry.http \cup {<<entry.tls, entry.path + 1>>} \in SUBSET (BOOLEAN \X (1..Paths))
      BY <2>1, <3>1 DEF Fingerprints
    <3>3. \/ entry' = [entry EXCEPT !.path = entry.path + 1,
                          !.http = entry.http \cup {<<entry.tls, entry.path + 1>>}]
          \/ entry' = [entry EXCEPT !.path = entry.path + 1]
      BY <1>7 DEF Fetch
    <3> QED
      BY <2>1, <3>1, <3>2, <3>3 DEF Fingerprints
  <2>3. timedout' \subseteq Nat \X Ports
    <3>1. at \in Nat /\ entry.port \in Ports
      BY <1>0, <2>1 DEF Held, Fingerprints
    <3> QED
      BY <1>7, <3>1 DEF Fetch, Held
  <2>4. faults' \in 0..MaxFaults
    BY <1>7, <1>f DEF Fetch, Held
  <2> QED
    BY <2>1, <2>2, <2>3, <2>4 DEF Held, Progress
<1>8. CASE Named
  <2>1. /\ stage = "name" /\ entry \in Fingerprints /\ entry' = None
        /\ services' = Append(services, entry) /\ ports' = Tail(ports) /\ ports # <<>>
        /\ UNCHANGED <<stage, asked, socks, heard, at, task, open, report, file, timedout,
                       faults>>
    BY <1>8 DEF Named, finding, scanning, Held
  <2>2. services' \in Seq(Fingerprints) /\ ports' \in Seq(Ports)
    BY <2>1 DEF Held
  <2> QED
    BY <2>1, <2>2 DEF Held, Progress
<1>9. CASE NextHost
  <2>1. /\ stage = "name" /\ entry = None /\ StartHost(at + 1)
        /\ report' = Append(report, [open_ports |-> Ascending(open), services |-> services])
        /\ UNCHANGED <<asked, socks, heard, ports, entry, services, file, timedout, faults>>
    BY <1>9 DEF NextHost, finding, naming
  <2>2. at \in 1..Len(Hosts) /\ ~asked.only /\ Len(report) = at - 1
    BY <2>1 DEF Progress
  <2>3. at + 1 \in 1..(Len(Hosts) + 1)
    BY <1>0, <2>2
  <2>4. Ascending(open) \in Seq(Ports)
    BY OpenAscending
  <2>5. [open_ports |-> Ascending(open), services |-> services] \in HostReports
    BY <2>4 DEF Held, HostReports
  <2>6. report' \in Seq(HostReports) /\ Len(report') = at
    BY <1>0, <2>1, <2>2, <2>5 DEF Held
  <2>7. Held'
    BY <2>1, <2>3, <2>6, StartHostLemma DEF Held, Ended
  <2>8. Progress'
    BY <1>0, <2>1, <2>2, <2>3, <2>6, StartHostLemma DEF Progress
  <2> QED
    BY <2>7, <2>8
<1>10. CASE OpenReport \/ Dump \/ Interrupt
  <2>1. UNCHANGED <<asked, socks, heard, at, task, open, ports, entry, services, report,
                    timedout>>
    BY <1>10 DEF OpenReport, Dump, Interrupt, finding, scanning, naming
  <2>2. faults' \in 0..MaxFaults
    BY <1>10, <1>f DEF OpenReport, Dump, Interrupt, Held
  <2>3. \/ stage = "write" /\ stage' = "dump" /\ file' = "empty"
        \/ stage = "write" /\ stage' = "failed" /\ file' = file
        \/ stage = "dump" /\ stage' = "done" /\ file' = "whole"
        \/ stage \notin Ended /\ stage' = "interrupted" /\ file' = file
    BY <1>10 DEF OpenReport, Dump, Interrupt
  <2> QED
    BY <2>1, <2>2, <2>3 DEF Held, Progress, Ended
<1>11. CASE UNCHANGED vars
  BY <1>11 DEF vars, Held, Progress
<1>12. CASE HungUp
  BY <1>12 DEF HungUp, finding, scanning, naming, Held, Progress, Ended
<1> QED
  BY <1>1, <1>2, <1>3, <1>4, <1>5, <1>6, <1>7, <1>8, <1>9, <1>10, <1>11, <1>12 DEF Next, Step

(* A fault is never forgotten. *)
LEMMA MissedGrows ==
  ASSUME [Next]_vars
  PROVE  \A i : Missed(i) \subseteq Missed(i)'
<1>1. timedout \subseteq timedout'
  BY DEF Next, Step, Bind, Hear, Deadline, Acquire, Connect, Close, Scanned, Handshake, Fetch,
         HungUp, Named, NextHost, OpenReport, Dump, Interrupt, vars
<1> QED
  BY <1>1 DEF Missed

LEMMA AnsweredStays ==
  ASSUME [Next]_vars, NEW i, NEW s, Answered(i, s)
  PROVE  Answered(i, s)'
  BY MissedGrows DEF Answered

(* The steps that change what a scan knows. *)
LEMMA NextScan ==
  ASSUME Held, Progress, ScanOK, [Next]_vars
  PROVE  ScanOK'
<1>1. CASE \E i \in 1..(Len(Hosts) + 1) : StartHost(i)
  <2>1. open' = {} /\ \A p \in Ports : task'[p] = "waiting"
    BY <1>1 DEF StartHost
  <2>2. stage' = "scan" => at' \in 1..Len(Hosts)
    BY <1>1, ProbeAssumption, StartHostLemma
  <2>3. stage' = "scan" => Accepts[Hosts[at']] \subseteq Ports
    BY <2>2, ProbeAssumption
  <2> QED
    BY <2>1, <2>3 DEF ScanOK, Host
<1>2. ASSUME NEW p \in Ports, Acquire(p) \/ Connect(p) \/ Close(p)
      PROVE  ScanOK'
  <2>1. stage = "scan" /\ UNCHANGED <<stage, at>> /\ at \in 1..Len(Hosts)
    BY <1>2 DEF Acquire, Connect, Close, Progress
  <2>2. Host' = Host /\ Accepts[Host] \subseteq Ports
    BY <2>1, ProbeAssumption DEF Host
  <2>3. Missed(at) \subseteq Missed(at)' /\ Missed(at') = Missed(at)
    BY <2>1, MissedGrows
  <2>4. /\ open \subseteq Accepts[Host]
        /\ \A q \in Ports : task[q] = "closing" => q \in Accepts[Host]
        /\ \A q \in Accepts[Host] :
             Wide /\ task[q] = "over" => q \in open \/ q \in Missed(at)
    BY <2>1 DEF ScanOK
  <2>5. CASE Acquire(p)
    <3>1. Wide => task' = [task EXCEPT ![p] = "connecting"]
      <4>1. Sockets \in SUBSET Ports /\ IsFiniteSet(Ports)
        BY ProbeAssumption DEF Sockets
      <4>2. Cardinality(Sockets) \in Nat
        BY <4>1, FS_Subset, FS_CardinalityType
      <4>3. Concurrency \in Nat /\ FdLimit \in Nat
        BY ProbeAssumption
      <4>4. Cardinality(Sockets) < Concurrency
        BY <2>5 DEF Acquire
      <4>5. Wide => Cardinality(Sockets) < FdLimit
        BY <4>2, <4>3, <4>4 DEF Wide
      <4> QED
        BY <2>5, <4>5 DEF Acquire
    <3>2. /\ UNCHANGED <<open, timedout>>
          /\ \A q \in Ports : task'[q] = "closing" => task[q] = "closing"
          /\ \A q \in Ports : Wide /\ task'[q] = "over" => task[q] = "over"
      BY <2>5, <3>1 DEF Acquire, Held
    <3>3. Missed(at)' = Missed(at)
      BY <2>1, <3>2 DEF Missed
    <3> QED
      BY <2>1, <2>2, <2>4, <3>2, <3>3 DEF ScanOK
  <2>6. CASE Connect(p)
    <3>1. /\ open' = open /\ task' \in [Ports -> {"waiting", "connecting", "closing", "over"}]
          /\ \A q \in Ports \ {p} : task'[q] = task[q]
      BY <2>6 DEF Connect, Held
    <3>2. \/ p \in Accepts[Host] /\ task'[p] = "closing"
          \/ p \notin Accepts[Host] /\ task'[p] = "over"
          \/ p \in Missed(at)' /\ task'[p] = "over"
      BY <2>1, <2>6 DEF Connect, Held, Missed
    <3> QED
      BY <2>1, <2>2, <2>3, <2>4, <3>1, <3>2 DEF ScanOK
  <2>7. CASE Close(p)
    <3>1. /\ open' = open \cup {p} /\ p \in Accepts[Host] /\ timedout' = timedout
          /\ \A q \in Ports \ {p} : task'[q] = task[q]
          /\ task'[p] = "over"
      BY <2>4, <2>7 DEF Close, Held
    <3>2. Missed(at)' = Missed(at)
      BY <2>1, <3>1 DEF Missed
    <3> QED
      BY <2>1, <2>2, <2>4, <3>1, <3>2 DEF ScanOK
  <2> QED
    BY <1>2, <2>5, <2>6, <2>7
<1>3. CASE stage' # "scan"
  BY <1>3 DEF ScanOK
<1>4. CASE UNCHANGED vars
  BY <1>4 DEF vars, ScanOK, Host, Missed
<1>5. \/ \E i \in 1..(Len(Hosts) + 1) : StartHost(i)
      \/ \E p \in Ports : Acquire(p) \/ Connect(p) \/ Close(p)
      \/ stage' # "scan"
      \/ UNCHANGED vars
  <2>1. Len(Hosts) \in Nat
    BY ProbeAssumption
  <2>2. CASE Bind \/ \E l \in Protocols : Deadline(l)
    BY <2>1, <2>2 DEF Bind, Deadline
  <2>3. CASE NextHost
    <3>1. at + 1 \in 1..(Len(Hosts) + 1)
      BY <2>1, <2>3 DEF NextHost, Progress
    <3> QED
      BY <2>3, <3>1 DEF NextHost
  <2> QED
    BY <2>2, <2>3 DEF Next, Step, Hear, Scanned, Handshake, Fetch, Closing, HungUp, Named,
         OpenReport, Dump, Interrupt
<1> QED
  BY <1>1, <1>2, <1>3, <1>4, <1>5

(* The steps that make fingerprints. *)
LEMMA NextNames ==
  ASSUME Held, Progress, ScanOK, NamesOK, [Next]_vars
  PROVE  NamesOK'
<1>0. Paths \in Nat
  BY ProbeAssumption
<1>1. CASE Scanned
  <2>1. /\ stage = "scan" /\ UNCHANGED <<at, open, timedout>> /\ entry' = None
        /\ ports' = Ascending(open) /\ services' = <<>> /\ \A p \in Ports : task[p] = "over"
    BY <1>1 DEF Scanned, scanning, Progress
  <2>2. Accepts[Host] \subseteq Ports
    BY <2>1, ProbeAssumption DEF Progress, Host
  <2>3. Ascending(open) \in Seq(Ports)
    BY OpenAscending
  <2>4. InOrder(Ascending(open))'
    BY <2>1, <2>3 DEF InOrder
  <2>5. Missed(at)' = Missed(at) /\ Host' = Host
    BY <2>1 DEF Missed, Host
  <2>6. open \subseteq Accepts[Host] /\ (Wide => Accepts[Host] \ Missed(at) \subseteq open)
    BY <2>1, <2>2 DEF ScanOK
  <2>7. Made'
    BY <2>1 DEF Made
  <2> QED
    BY <2>1, <2>4, <2>5, <2>6, <2>7 DEF NamesOK
<1>2. ASSUME stage \in {"name", "hangup"}, UNCHANGED <<at, open>>,
             InOrder(Ascending(open))', Made'
      PROVE  NamesOK'
  <2>1. open \subseteq Accepts[Host] /\ (Wide => Accepts[Host] \ Missed(at) \subseteq open)
    BY <1>2 DEF NamesOK
  <2>2. Host' = Host /\ Missed(at) \subseteq Missed(at)'
    BY <1>2, MissedGrows DEF Host, Missed
  <2>3. open' = open /\ Accepts[Host'] = Accepts[Host]
    BY <1>2, <2>2
  <2> QED
    BY <1>2, <2>1, <2>2, <2>3 DEF NamesOK
<1>3. ASSUME UNCHANGED <<at, services>>, Made
      PROVE  \A k \in DOMAIN services' : Answered(at, services[k])'
  BY <1>3, MissedGrows DEF Made, Answered, Missed
<1>4. CASE Handshake
  <2> DEFINE p == Head(ports)
  <2>1. /\ stage = "name" /\ UNCHANGED <<at, open, ports, services>> /\ Made
        /\ InOrder(Ascending(open)) /\ at \in Nat /\ ports # <<>>
    BY <1>4, ProbeAssumption DEF Handshake, finding, scanning, NamesOK, Held
  <2>2. InOrder(Ascending(open))'
    BY <2>1 DEF InOrder
  <2>3. Begun(at, entry)'
    <3>1. CASE /\ entry' = [port |-> p, tls |-> p \in Tls, path |-> 0, http |-> {}]
      <4>1. entry'.port = p /\ entry'.tls = (p \in Tls) /\ entry'.path = 0 /\ entry'.http = {}
        BY <3>1
      <4>2. {p \in Tls} \X (1..0) = {}
        OBVIOUS
      <4> QED
        BY <4>1, <4>2 DEF Begun
    <3>2. CASE entry'.port = p /\ timedout' = timedout \cup {<<at, p>>}
      <4>1. p \in Ports
        BY <2>1 DEF Held
      <4> QED
        BY <2>1, <3>2, <4>1 DEF Begun, Missed
    <3> QED
      BY <1>4, <3>1, <3>2 DEF Handshake
  <2>4. Made'
    BY <1>3, <2>1, <2>3 DEF Made
  <2> QED
    BY <1>2, <2>1, <2>2, <2>4
<1>5. CASE Fetch
  <2>1. /\ stage = "name" /\ UNCHANGED <<at, open, ports, services>> /\ Made
        /\ InOrder(Ascending(open)) /\ at \in Nat /\ entry # None
        /\ entry \in Fingerprints /\ Begun(at, entry)
    BY <1>5, ProbeAssumption DEF Fetch, finding, scanning, NamesOK, Made, Held
  <2>2. InOrder(Ascending(open))'
    BY <2>1 DEF InOrder
  <2>3. Begun(at, entry)'
    <3>0. entry.path \in Nat /\ entry.port \in Ports
      BY <1>0, <2>1 DEF Fingerprints
    <3>1. CASE entry' = [entry EXCEPT !.path = entry.path + 1,
                           !.http = entry.http \cup {<<entry.tls, entry.path + 1>>}]
      <4>1. /\ entry'.port = entry.port /\ entry'.tls = entry.tls
            /\ entry'.path = entry.path + 1
            /\ entry'.http = entry.http \cup {<<entry.tls, entry.path + 1>>}
        BY <2>1, <3>1 DEF Fingerprints
      <4>2. entry.port \notin Missed(at)' => entry.port \notin Missed(at)
        BY <2>1, MissedGrows DEF Missed
      <4>3. \A b : ({b} \X (1..entry.path)) \cup {<<b, entry.path + 1>>}
                     = {b} \X (1..(entry.path + 1))
        BY <3>0
      <4> QED
        BY <2>1, <4>1, <4>2, <4>3 DEF Begun
    <3>2. CASE entry'.port = entry.port /\ timedout' = timedout \cup {<<at, entry.port>>}
      BY <2>1, <3>0, <3>2 DEF Begun, Missed
    <3>3. entry' = [entry EXCEPT !.path = entry.path + 1] => entry'.port = entry.port
      BY <2>1 DEF Fingerprints
    <3> QED
      BY <1>5, <3>1, <3>2, <3>3 DEF Fetch
  <2>4. Made'
    BY <1>3, <2>1, <2>3 DEF Made
  <2> QED
    BY <1>2, <2>1, <2>2, <2>4
<1>6. CASE Named
  <2> DEFINE found == Ascending(open)
  <2>1. /\ stage = "name" /\ UNCHANGED <<at, open, timedout>> /\ Made
        /\ InOrder(found) /\ entry # None /\ entry' = None
        /\ entry \in Fingerprints /\ Begun(at, entry) /\ entry.path = Paths
        /\ ports # <<>> /\ ports \in Seq(Ports) /\ entry.port = Head(ports)
        /\ ports' = Tail(ports) /\ services' = Append(services, entry)
        /\ services \in Seq(Fingerprints)
    BY <1>6 DEF Named, finding, scanning, NamesOK, Made, Held
  <2>2. Answered(at, entry)
    BY <2>1 DEF Begun, Answered
  <2>3. /\ Len(services') = Len(services) + 1 /\ Len(services) \in Nat
        /\ DOMAIN services' = 1..(Len(services) + 1)
        /\ \A k \in 1..Len(services) : services'[k] = services[k]
        /\ services'[Len(services) + 1] = entry
        /\ Len(ports) \in Nat \ {0} /\ Len(ports') = Len(ports) - 1
        /\ \A k \in 1..(Len(ports) - 1) : ports'[k] = ports[k + 1]
        /\ Head(ports) = ports[1]
    BY <2>1
  <2>4. Made'
    <3>1. \A k \in DOMAIN services' : Answered(at, services'[k])
      BY <2>1, <2>2, <2>3 DEF Made
    <3>2. \A i, s : Answered(i, s)' <=> Answered(i, s)
      BY <2>1 DEF Answered, Missed
    <3> QED
      BY <2>1, <3>1, <3>2 DEF Made, Answered, Missed
  <2>5. InOrder(found)'
    <3>1. found' = found
      BY <2>1
    <3> HIDE DEF found
    <3>2. /\ Len(found) = Len(services) + Len(ports)
          /\ \A k \in 1..Len(services) : services[k].port = found[k]
          /\ \A k \in 1..Len(ports) : ports[k] = found[Len(services) + k]
      BY <2>1 DEF InOrder
    <3>3. Len(found) = Len(services') + Len(ports')
      BY <2>3, <3>2
    <3>4. \A k \in 1..Len(services') : services'[k].port = found[k]
      BY <2>1, <2>3, <3>2
    <3>5. \A k \in 1..Len(ports') : ports'[k] = found[Len(services') + k]
      BY <2>3, <3>2
    <3> QED
      BY <3>1, <3>3, <3>4, <3>5 DEF InOrder
  <2> QED
    BY <1>2, <2>1, <2>4, <2>5
<1>7. CASE UNCHANGED vars
  BY <1>7 DEF vars, NamesOK, Host, Made, Answered, Begun, Missed, InOrder
<1>8. ASSUME NEW m \in Announcements, Hear(m)
      PROVE  NamesOK'
  BY <1>8 DEF Hear, NamesOK
<1>9. CASE stage' \notin {"name", "hangup"}
  BY <1>9 DEF NamesOK
<1>10. CASE HungUp
  <2>1. /\ stage = "hangup" /\ InOrder(Ascending(open)) /\ Made
        /\ UNCHANGED <<at, open, ports, entry, services, timedout>>
    BY <1>10 DEF HungUp, scanning, naming, NamesOK
  <2>2. InOrder(Ascending(open))' /\ Made'
    BY <2>1 DEF InOrder, Made, Answered, Begun, Missed
  <2> QED
    BY <1>2, <2>1, <2>2
<1> QED
  BY <1>1, <1>4, <1>5, <1>6, <1>7, <1>8, <1>9, <1>10
     DEF Next, Step, Bind, Deadline, StartHost, Acquire, Connect, Close, NextHost, OpenReport,
         Dump, Interrupt

(* The entry of a host, once in the report, stays and stays true. *)
LEMMA NextReport ==
  ASSUME Held, Progress, NamesOK, ReportOK, [Next]_vars
  PROVE  ReportOK'
<1>1. ASSUME NEW i \in DOMAIN report, i \in DOMAIN report', report'[i] = report[i]
      PROVE  HostOK(i)'
  <2>1. HostOK(i)
    BY DEF ReportOK
  <2> QED
    BY <1>1, <2>1, MissedGrows DEF HostOK, Answered
<1>2. CASE report' = report
  BY <1>1, <1>2 DEF ReportOK
<1>3. CASE NextHost
  <2> DEFINE new == [open_ports |-> Ascending(open), services |-> services]
             found == Ascending(open)
  <2>1. /\ stage = "name" /\ ports = <<>> /\ report' = Append(report, new)
        /\ timedout' = timedout /\ report \in Seq(HostReports)
    BY <1>3 DEF NextHost, Held
  <2>2. Len(report) = at - 1 /\ at \in 1..Len(Hosts) /\ Len(report) \in Nat
    BY <2>1 DEF Progress
  <2>3. /\ DOMAIN report' = DOMAIN report \cup {at} /\ report'[at] = new
        /\ \A i \in DOMAIN report : report'[i] = report[i]
    BY <2>1, <2>2
  <2>5. /\ ToSet(found) = open /\ found \in Seq(Ports) /\ services \in Seq(Fingerprints)
    BY OpenAscending DEF Held
  <2>6. [k \in DOMAIN services |-> services[k].port] = found
    <3>1. /\ Len(found) = Len(services) /\ Len(services) \in Nat
          /\ DOMAIN found = 1..Len(found) /\ DOMAIN services = 1..Len(services)
          /\ \A k \in 1..Len(services) : services[k].port = found[k]
      BY <2>1, <2>5 DEF NamesOK, InOrder
    <3>2. found = [k \in 1..Len(found) |-> found[k]]
      BY <2>5
    <3> HIDE DEF found
    <3> QED
      BY <3>1, <3>2
  <2>7. /\ open \subseteq Accepts[Host] /\ (Wide => Accepts[Host] \ Missed(at) \subseteq open)
        /\ \A k \in DOMAIN services : Answered(at, services[k])
    BY <2>1 DEF NamesOK, Made
  <2>8. ASSUME NEW i, i = at
        PROVE  HostOK(i)'
    <3>1. report'[i].open_ports = found /\ report'[i].services = services
      BY <2>3, <2>8
    <3>2. Missed(i)' = Missed(i) /\ Host = Hosts[i]
      BY <2>1, <2>8 DEF Missed, Host
    <3>3. \A s : Answered(i, s)' <=> Answered(i, s)
      BY <3>2 DEF Answered
    <3> HIDE DEF found
    <3> QED
      BY <2>5, <2>6, <2>7, <2>8, <3>1, <3>2, <3>3 DEF HostOK, Answered
  <2> QED
    BY <1>1, <2>3, <2>8 DEF ReportOK
<1>4. NextHost \/ report' = report
  BY DEF Next, Step, Bind, Hear, Deadline, Acquire, Connect, Close, Scanned, Handshake, Fetch,
         HungUp, Named, OpenReport, Dump, Interrupt, finding, scanning, naming, vars
<1> QED
  BY <1>2, <1>3, <1>4

LEMMA NextInv == IInv /\ [Next]_vars => IInv'
  BY NextHeld, NextScan, NextNames, NextReport DEF IInv

LEMMA Invariant == Spec => []IInv
  BY InitInv, NextInv, PTL DEF Spec

-----------------------------------------------------------------------------

(* The type invariant, for every instance. *)
THEOREM TypeInvariant == Spec => []TypeOK
<1>1. IInv => TypeOK
  BY DEF IInv, Held, Progress, TypeOK, Fingerprints
<1> QED
  BY <1>1, Invariant, PTL

(* A finished report names, for each host, the ports that accept           *)
(* connections and no other, and misses none whose connection did not      *)
(* fail, for any number of hosts, ports and faults: the semaphore never    *)
(* lets a task find the process without a socket.                          *)
THEOREM PortsReported == Spec => []OpenPortsReported
<1>1. IInv => OpenPortsReported
  <2> SUFFICES ASSUME IInv, file = "whole", ~asked.only, Wide
               PROVE  /\ Len(report) = Len(Hosts)
                      /\ \A i \in DOMAIN report :
                           /\ Accepts[Hosts[i]] \ Missed(i) \subseteq ToSet(report[i].open_ports)
                           /\ ToSet(report[i].open_ports) \subseteq Accepts[Hosts[i]]
    BY DEF OpenPortsReported, Wide
  <2> QED
    BY DEF IInv, Progress, ReportOK, HostOK
<1> QED
  BY <1>1, Invariant, PTL

(* Each open port has its fingerprint, in order, with an answer to every   *)
(* path in the scheme the port speaks, if no connection to it failed.      *)
THEOREM FingerprintsReported == Spec => []ServicesReported
<1>1. IInv => ServicesReported
  BY DEF IInv, ReportOK, HostOK, Answered, ServicesReported
<1> QED
  BY <1>1, Invariant, PTL
=============================================================================
