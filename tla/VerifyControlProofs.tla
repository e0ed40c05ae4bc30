------------------------- MODULE VerifyControlProofs -------------------------
(***************************************************************************)
(* Proofs about the verifier for any number of shells, invocations and     *)
(* crashes: the MAC in the file settles, and all invocations are the same  *)
(* controller unless first ones overlapped or one was cut off.             *)
(***************************************************************************)
EXTENDS VerifyControl, TLAPS

(* What an invocation holds at each place.  The file, once made, is never  *)
(* removed, so one that goes on to read it finds it.                       *)
Placed ==
  \A s \in Shells :
    /\ shell[s].at # "idle" => shell[s].cmd # "none"
    /\ shell[s].at \in {"create", "save"} => shell[s].mac \in Macs
    /\ shell[s].at \in {"read", "save"} => macfile # NoFile

(* As long as nothing raced, only full MACs reach the receiver, each the   *)
(* one in the file, and whoever fills the file finds it empty.             *)
Named ==
  ~raced =>
    /\ \A s \in Shells : shell[s].at = "post" => shell[s].mac = macfile /\ macfile \in Macs
    /\ paired \subseteq {macfile} \cap Macs
    /\ pin \in ({macfile} \cap Macs) \cup {None}

IInv == TypeOK /\ Placed /\ Named

LEMMA InitIInv == Init => IInv
<1> SUFFICES ASSUME Init
             PROVE  IInv
  OBVIOUS
<1>1. TypeOK
  <2>1. 1 \in 1..Keys /\ 0 \in 0..MaxRuns /\ 0 \in 0..MaxFaults
    BY VerifyAssumption
  <2>2. raced \in BOOLEAN
    BY DEF Init
  <2> QED
    BY <2>1, <2>2 DEF Init, TypeOK, Invocations, Idle
<1>2. Placed /\ Named
  BY DEF Init, Placed, Named, Idle
<1> QED
  BY <1>1, <1>2 DEF IInv

(* One invocation goes on, the others stay where they are. *)
LEMMA Updated ==
  ASSUME shell \in [Shells -> Invocations], NEW s \in Shells, NEW to \in Invocations,
         shell' = [shell EXCEPT ![s] = to]
  PROVE  /\ shell' \in [Shells -> Invocations] /\ shell'[s] = to
         /\ \A t \in Shells : t # s => shell'[t] = shell[t]
  OBVIOUS

LEMMA IdleType == Idle \in Invocations
  BY VerifyAssumption DEF Idle, Invocations

(* Where a step of one invocation leads it. *)
LEMMA GotoType ==
  ASSUME shell \in [Shells -> Invocations], NEW s \in Shells,
         NEW at \in {"mac", "read", "save", "post"}, Goto(s, at)
  PROVE  /\ shell' \in [Shells -> Invocations]
         /\ shell'[s].at = at /\ shell'[s].cmd = shell[s].cmd /\ shell'[s].mac = shell[s].mac
         /\ \A t \in Shells : t # s => shell'[t] = shell[t]
<1> DEFINE to == [shell[s] EXCEPT !.at = at]
<1>1. /\ to \in Invocations /\ to.at = at
      /\ to.cmd = shell[s].cmd /\ to.mac = shell[s].mac
  BY DEF Invocations
<1>2. shell' = [shell EXCEPT ![s] = to]
  BY DEF Goto
<1> HIDE DEF to
<1> QED
  BY <1>1, <1>2, Updated

LEMMA ExitType ==
  ASSUME shell \in [Shells -> Invocations], NEW s \in Shells, Exit(s)
  PROVE  /\ shell' \in [Shells -> Invocations] /\ shell'[s] = Idle
         /\ \A t \in Shells : t # s => shell'[t] = shell[t]
  BY IdleType, Updated DEF Exit

LEMMA ReadType ==
  ASSUME shell \in [Shells -> Invocations], NEW s \in Shells,
         macfile \in Macs \cup {Empty}, ReadMac(s)
  PROVE  /\ shell' \in [Shells -> Invocations] /\ shell'[s].at = "post"
         /\ shell'[s].mac = macfile /\ shell'[s].cmd = shell[s].cmd
         /\ \A t \in Shells : t # s => shell'[t] = shell[t]
<1> DEFINE to == [shell[s] EXCEPT !.at = "post", !.mac = macfile]
<1>1. to \in Invocations /\ to.at = "post" /\ to.mac = macfile /\ to.cmd = shell[s].cmd
  BY DEF Invocations
<1>2. shell' = [shell EXCEPT ![s] = to]
  BY DEF ReadMac
<1> HIDE DEF to
<1> QED
  BY <1>1, <1>2, Updated

LEMMA NextKeyType ==
  ASSUME shell \in [Shells -> Invocations], NEW s \in Shells, shell[s].left > 1,
         shell' = [shell EXCEPT ![s].left = @ - 1]
  PROVE  /\ shell' \in [Shells -> Invocations] /\ shell'[s].at = shell[s].at
         /\ shell'[s].mac = shell[s].mac /\ shell'[s].cmd = shell[s].cmd
         /\ \A t \in Shells : t # s => shell'[t] = shell[t]
<1> DEFINE to == [shell[s] EXCEPT !.left = @ - 1]
<1>1. /\ to \in Invocations /\ to.at = shell[s].at
      /\ to.mac = shell[s].mac /\ to.cmd = shell[s].cmd
  BY VerifyAssumption DEF Invocations
<1>2. shell' = [shell EXCEPT ![s] = to]
  OBVIOUS
<1> HIDE DEF to
<1> QED
  BY <1>1, <1>2, Updated

LEMMA NextIInv == IInv /\ [Next]_vars => IInv'
<1> SUFFICES ASSUME IInv, [Next]_vars
             PROVE  IInv'
  OBVIOUS
<1> USE VerifyAssumption DEF file, box, IInv
<1>0. shell \in [Shells -> Invocations]
  BY DEF TypeOK
<1>1. ASSUME NEW s \in Shells, Run(s)
      PROVE  IInv'
  <2>1. PICK to \in Invocations :
          to.at = "serial" /\ to.cmd # "none" /\ shell' = [shell EXCEPT ![s] = to]
    <3>1. PICK cmd \in {"pair", "complete", "keys"} :
            shell' = [shell EXCEPT ![s] = [at |-> "serial", cmd |-> cmd, mac |-> None,
                                           left |-> IF cmd = "keys" THEN Keys ELSE 1]]
      BY <1>1 DEF Run
    <3> DEFINE to == [at |-> "serial", cmd |-> cmd, mac |-> None,
                      left |-> IF cmd = "keys" THEN Keys ELSE 1]
    <3>2. to \in Invocations /\ to.at = "serial" /\ to.cmd # "none"
      BY DEF Invocations
    <3> QED
      BY <3>1, <3>2
  <2>2. /\ shell' \in [Shells -> Invocations] /\ shell'[s] = to
        /\ \A t \in Shells : t # s => shell'[t] = shell[t]
    BY <1>0, <2>1, Updated
  <2>3. TypeOK'
    BY <1>1, <2>1, <2>2 DEF Run, TypeOK
  <2>4. Placed' /\ Named'
    BY <1>1, <2>1, <2>2 DEF Run, Placed, Named
  <2> QED
    BY <2>3, <2>4
<1>2. ASSUME NEW s \in Shells, Serial(s)
      PROVE  IInv'
  <2>1. CASE Goto(s, "mac") /\ UNCHANGED faults
    <3>1. /\ shell' \in [Shells -> Invocations]
          /\ shell'[s].at = "mac" /\ shell'[s].cmd = shell[s].cmd
          /\ \A t \in Shells : t # s => shell'[t] = shell[t]
      BY <1>0, <2>1, GotoType
    <3> QED
      BY <1>2, <2>1, <3>1 DEF Serial, TypeOK, Placed, Named
  <2>2. CASE faults < MaxFaults /\ faults' = faults + 1 /\ Exit(s)
    BY <1>0, <1>2, <2>2, ExitType DEF Serial, TypeOK, Placed, Named, Idle
  <2> QED
    BY <1>2, <2>1, <2>2 DEF Serial
<1>3. ASSUME NEW s \in Shells, ControllerMac(s)
      PROVE  IInv'
  <2>1. CASE macfile # NoFile /\ Goto(s, "read") /\ UNCHANGED drawn
    <3>1. /\ shell' \in [Shells -> Invocations]
          /\ shell'[s].at = "read" /\ shell'[s].cmd = shell[s].cmd
          /\ \A t \in Shells : t # s => shell'[t] = shell[t]
      BY <1>0, <2>1, GotoType
    <3> QED
      BY <1>3, <2>1, <3>1 DEF ControllerMac, TypeOK, Placed, Named
  <2>2. ASSUME NEW mac \in Macs, drawn' = drawn \cup {mac},
               shell' = [shell EXCEPT ![s] = [@ EXCEPT !.at = "create", !.mac = mac]]
        PROVE  IInv'
    <3> DEFINE to == [shell[s] EXCEPT !.at = "create", !.mac = mac]
    <3>1. to \in Invocations /\ to.at = "create" /\ to.mac = mac /\ to.cmd = shell[s].cmd
      BY <1>0 DEF Invocations
    <3>2. shell' = [shell EXCEPT ![s] = to]
      BY <2>2
    <3> HIDE DEF to
    <3>3. /\ shell' \in [Shells -> Invocations] /\ shell'[s] = to
          /\ \A t \in Shells : t # s => shell'[t] = shell[t]
      BY <1>0, <3>1, <3>2, Updated
    <3> QED
      BY <1>3, <2>2, <3>1, <3>3 DEF ControllerMac, TypeOK, Placed, Named
  <2> QED
    BY <1>3, <2>1, <2>2 DEF ControllerMac
<1>4. ASSUME NEW s \in Shells, ReadMac(s)
      PROVE  IInv'
  <2>1. macfile \in Macs \cup {Empty} /\ shell[s].cmd # "none"
    BY <1>4 DEF ReadMac, TypeOK, Placed
  <2>2. /\ shell' \in [Shells -> Invocations] /\ shell'[s].at = "post"
        /\ shell'[s].mac = macfile /\ shell'[s].cmd = shell[s].cmd
        /\ \A t \in Shells : t # s => shell'[t] = shell[t]
    BY <1>0, <1>4, <2>1, ReadType
  <2>3. TypeOK'
    BY <1>4, <2>1, <2>2 DEF ReadMac, TypeOK
  <2>4. Placed' /\ Named'
    BY <1>4, <2>1, <2>2 DEF ReadMac, Placed, Named
  <2> QED
    BY <2>3, <2>4
<1>5. ASSUME NEW s \in Shells, CreateMac(s)
      PROVE  IInv'
  <2>1. /\ shell' \in [Shells -> Invocations]
        /\ shell'[s].at = "save" /\ shell'[s].cmd = shell[s].cmd /\ shell'[s].mac = shell[s].mac
        /\ \A t \in Shells : t # s => shell'[t] = shell[t]
    BY <1>0, <1>5, GotoType DEF CreateMac
  <2>2. TypeOK'
    BY <1>5, <2>1 DEF CreateMac, TypeOK
  <2>3. Placed' /\ Named'
    BY <1>5, <2>1 DEF CreateMac, TypeOK, Placed, Named
  <2> QED
    BY <2>2, <2>3
<1>6. ASSUME NEW s \in Shells, SaveMac(s)
      PROVE  IInv'
  <2>1. /\ shell' \in [Shells -> Invocations]
        /\ shell'[s].at = "post" /\ shell'[s].cmd = shell[s].cmd /\ shell'[s].mac = shell[s].mac
        /\ \A t \in Shells : t # s => shell'[t] = shell[t]
    BY <1>0, <1>6, GotoType DEF SaveMac
  <2>2. shell[s].mac \in Macs /\ shell[s].cmd # "none"
    BY <1>6 DEF SaveMac, Placed
  <2>3. TypeOK'
    BY <1>6, <2>1, <2>2 DEF SaveMac, TypeOK
  <2>4. Placed' /\ Named'
    BY <1>6, <2>1, <2>2 DEF SaveMac, TypeOK, Placed, Named
  <2> QED
    BY <2>3, <2>4
<1>7. ASSUME NEW s \in Shells, PairingStart(s)
      PROVE  IInv'
  <2>1. /\ shell' \in [Shells -> Invocations] /\ shell'[s] = Idle
        /\ \A t \in Shells : t # s => shell'[t] = shell[t]
    BY <1>0, <1>7, ExitType DEF PairingStart
  <2> QED
    BY <1>7, <2>1 DEF PairingStart, TypeOK, Placed, Named, Idle, Invocations
<1>8. ASSUME NEW s \in Shells, PairingComplete(s)
      PROVE  IInv'
  <2>1. /\ shell' \in [Shells -> Invocations] /\ shell'[s] = Idle
        /\ \A t \in Shells : t # s => shell'[t] = shell[t]
    BY <1>0, <1>8, ExitType DEF PairingComplete
  <2>2. TypeOK'
    BY <1>8, <2>1 DEF PairingComplete, TypeOK, Idle
  <2>3. Placed' /\ Named'
    BY <1>8, <2>1 DEF PairingComplete, TypeOK, Placed, Named, Idle
  <2> QED
    BY <2>2, <2>3
<1>9. ASSUME NEW s \in Shells, SendKey(s)
      PROVE  IInv'
  <2>1. CASE shell[s].left > 1 /\ shell' = [shell EXCEPT ![s].left = @ - 1]
    <3>1. /\ shell' \in [Shells -> Invocations] /\ shell'[s].at = shell[s].at
          /\ shell'[s].mac = shell[s].mac /\ shell'[s].cmd = shell[s].cmd
          /\ \A t \in Shells : t # s => shell'[t] = shell[t]
      BY <1>0, <2>1, NextKeyType
    <3> QED
      BY <1>9, <3>1 DEF SendKey, TypeOK, Placed, Named
  <2>2. CASE Exit(s)
    BY <1>0, <1>9, <2>2, ExitType DEF SendKey, TypeOK, Placed, Named, Idle
  <2> QED
    BY <1>9, <2>1, <2>2 DEF SendKey
<1>10. ASSUME NEW s \in Shells, Crash(s)
       PROVE  IInv'
  <2>1. /\ shell' \in [Shells -> Invocations] /\ shell'[s] = Idle
        /\ \A t \in Shells : t # s => shell'[t] = shell[t]
    BY <1>0, <1>10, ExitType DEF Crash
  <2>2. TypeOK'
    BY <1>10, <2>1 DEF Crash, TypeOK, Idle, Invocations
  <2>3. Placed' /\ Named'
    BY <1>10, <2>1 DEF Crash, TypeOK, Placed, Named, Idle
  <2> QED
    BY <2>2, <2>3
<1>11. CASE PinExpire \/ UNCHANGED vars
  BY <1>11 DEF PinExpire, vars, TypeOK, Placed, Named
<1> QED
  BY <1>1, <1>2, <1>3, <1>4, <1>5, <1>6, <1>7, <1>8, <1>9, <1>10, <1>11 DEF Next, Step

LEMMA Invariant == Spec => []IInv
  BY InitIInv, NextIInv, PTL DEF Spec

(* Type correctness of the invocations, the file and the receiver. *)
THEOREM TypeInvariant == Spec => []TypeOK
<1>1. IInv => TypeOK
  BY DEF IInv
<1> QED
  BY <1>1, Invariant, PTL

(* What is paired in one invocation and used in the next is the same       *)
(* controller (controller_mac), unless first invocations overlapped.       *)
THEOREM SameController == Spec => []OneController
<1>1. IInv => OneController
  BY DEF IInv, Named, OneController
<1> QED
  BY <1>1, Invariant, PTL

(* "generated & cached": a MAC that is in the file stays there for good.   *)
THEOREM MacStays == Spec => MacSettled
<1>1. IInv /\ [Next]_vars => [Settled => Settled' /\ macfile' = macfile]_vars
  <2> SUFFICES ASSUME IInv, [Next]_vars, Settled
               PROVE  Settled' /\ macfile' = macfile
    OBVIOUS
  <2> USE VerifyAssumption DEF Settled, file, box
  <2>0. shell \in [Shells -> Invocations]
    BY DEF IInv, TypeOK
  <2>1. ASSUME NEW s \in Shells, Step(s)
        PROVE  Settled' /\ macfile' = macfile
    <3>1. ~ControllerMac(s) \/ Goto(s, "read")
      BY DEF ControllerMac
    <3>2. CASE \/ Serial(s) \/ (ControllerMac(s) /\ Goto(s, "read")) \/ PairingStart(s)
               \/ PairingComplete(s)
      <4>1. UNCHANGED file /\ (Goto(s, "mac") \/ Goto(s, "read") \/ Exit(s))
        BY <3>2 DEF Serial, ControllerMac, PairingStart, PairingComplete
      <4> QED
        BY <2>0, <4>1, GotoType, ExitType DEF Idle
    <3>3. CASE ReadMac(s) \/ SendKey(s)
      <4>1. CASE ReadMac(s)
        BY <2>0, <4>1, ReadType DEF ReadMac
      <4>2. CASE SendKey(s)
        BY <2>0, <4>2, NextKeyType, ExitType DEF SendKey, Idle
      <4> QED
        BY <3>3, <4>1, <4>2
    <3>4. ~CreateMac(s) /\ ~SaveMac(s)
      BY DEF CreateMac, SaveMac
    <3> QED
      BY <2>1, <3>1, <3>2, <3>3, <3>4 DEF Step
  <2>2. ASSUME NEW s \in Shells, Run(s) \/ Crash(s)
        PROVE  Settled' /\ macfile' = macfile
    BY <2>0, <2>2, ExitType DEF Run, Crash, Idle
  <2>3. CASE PinExpire \/ UNCHANGED vars
    BY <2>3 DEF PinExpire, vars
  <2> QED
    BY <2>1, <2>2, <2>3 DEF Next
<1> QED
  BY <1>1, Invariant, PTL DEF Spec, MacSettled
=============================================================================
