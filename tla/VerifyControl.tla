---------------------------- MODULE VerifyControl ----------------------------
(***************************************************************************)
(* Pairing and controlling a receiver from the shell                       *)
(* (tools/verify_control.py): each invocation is a process of its own, and *)
(* all they share is the file that holds the controller's MAC, which the   *)
(* first one makes.  A receiver pairs with a controller, known by its MAC. *)
(***************************************************************************)
EXTENDS Naturals, FiniteSets

CONSTANTS
  Shells,     \* shells that may run the program at the same time
  Macs,       \* what os.urandom may yield
  Keys,       \* how many keys a --discover names
  MaxRuns,    \* how many invocations there are
  MaxFaults,  \* how often a request fails or the user interrupts one
  NoFile,     \* .verify_mac does not exist
  Empty,      \* the text of an empty file
  None        \* no MAC yet, no PIN on the TV

ASSUME VerifyAssumption ==
  /\ IsFiniteSet(Macs) /\ Keys \in Nat \ {0} /\ MaxRuns \in Nat /\ MaxFaults \in Nat
  /\ {NoFile, Empty, None} \cap Macs = {}
  /\ NoFile # Empty /\ NoFile # None /\ Empty # None

VARIABLES
  shell,    \* shell -> what its invocation does: [at, cmd, mac, left]
  macfile,  \* .verify_mac
  drawn,    \* MACs that were generated
  pin,      \* receiver: the controller whose PIN is on the TV
  paired,   \* receiver: the controllers it gave credentials to
  raced,    \* history: the file was written over, or read before it was full
  runs, faults

file == <<macfile, drawn, raced>>
box == <<pin, paired>>
vars == <<shell, file, box, runs, faults>>

Idle == [at |-> "idle", cmd |-> "none", mac |-> None, left |-> 1]

Init ==
  /\ shell = [s \in Shells |-> Idle]
  /\ macfile = NoFile /\ drawn = {} /\ raced = FALSE
  /\ pin = None /\ paired = {}
  /\ runs = 0 /\ faults = 0

Goto(s, at) == shell' = [shell EXCEPT ![s].at = at]
Exit(s) == shell' = [shell EXCEPT ![s] = Idle]

-----------------------------------------------------------------------------
(* The program is started.  Keys take their credentials from the command   *)
(* line, whoever they were given to.                                       *)
Run(s) ==
  /\ shell[s].at = "idle" /\ runs < MaxRuns /\ runs' = runs + 1
  /\ \E cmd \in {"pair", "complete", "keys"} :
       shell' = [shell EXCEPT ![s] = [at |-> "serial", cmd |-> cmd, mac |-> None,
                                      left |-> IF cmd = "keys" THEN Keys ELSE 1]]
  /\ UNCHANGED <<file, box, faults>>

(* discover_serial answered, or nothing did: exit 2. *)
Serial(s) ==
  /\ shell[s].at = "serial"
  /\ \/ Goto(s, "mac") /\ UNCHANGED faults
     \/ faults < MaxFaults /\ faults' = faults + 1 /\ Exit(s)
  /\ UNCHANGED <<file, box, runs>>

(* Mutant: a new controller for each invocation. *)
ControllerMacFresh(s) ==
  /\ shell[s].at = "mac"
  /\ \E mac \in Macs \ drawn :
       /\ drawn' = drawn \cup {mac}
       /\ shell' = [shell EXCEPT ![s] = [@ EXCEPT !.at = "create", !.mac = mac]]
  /\ UNCHANGED <<macfile, raced, box, runs, faults>>

(* controller_mac: is there a file?  If not, a MAC is drawn. *)
ControllerMac(s) ==
  /\ shell[s].at = "mac"
  /\ \/ macfile # NoFile /\ Goto(s, "read") /\ UNCHANGED drawn
     \/ /\ macfile = NoFile
        /\ \E mac \in Macs \ drawn :
             /\ drawn' = drawn \cup {mac}
             /\ shell' = [shell EXCEPT ![s] = [@ EXCEPT !.at = "create", !.mac = mac]]
  /\ UNCHANGED <<macfile, raced, box, runs, faults>>

(* Otherwise the MAC is what the file holds, which may be nothing. *)
ReadMac(s) ==
  /\ shell[s].at = "read"
  /\ shell' = [shell EXCEPT ![s] = [@ EXCEPT !.at = "post", !.mac = macfile]]
  /\ raced' = (raced \/ macfile = Empty)
  /\ UNCHANGED <<macfile, drawn, box, runs, faults>>

(* open("w") empties the file, whoever made it meanwhile; when it is       *)
(* closed the MAC is in it.                                                *)
CreateMac(s) ==
  /\ shell[s].at = "create"
  /\ macfile' = Empty /\ raced' = (raced \/ macfile # NoFile)
  /\ Goto(s, "save")
  /\ UNCHANGED <<drawn, box, runs, faults>>

(* Mutant: the text stays in a buffer. *)
SaveMacBuffered(s) ==
  /\ shell[s].at = "save"
  /\ Goto(s, "post")
  /\ UNCHANGED <<file, box, runs, faults>>

SaveMac(s) ==
  /\ shell[s].at = "save"
  /\ macfile' = shell[s].mac /\ raced' = (raced \/ macfile # Empty)
  /\ Goto(s, "post")
  /\ UNCHANGED <<drawn, box, runs, faults>>

-----------------------------------------------------------------------------
(* device_pairing_start: the receiver shows a PIN for this controller. *)
PairingStart(s) ==
  /\ shell[s].at = "post" /\ shell[s].cmd = "pair"
  /\ pin' = shell[s].mac
  /\ Exit(s)
  /\ UNCHANGED <<file, paired, runs, faults>>

(* device_pairing_complete: the PIN on the TV from the controller it is    *)
(* for yields credentials; anything else "Re-run --pair".                  *)
PairingComplete(s) ==
  /\ shell[s].at = "post" /\ shell[s].cmd = "complete"
  /\ \/ pin = shell[s].mac /\ paired' = paired \cup {pin} /\ pin' = None
     \/ UNCHANGED box
  /\ Exit(s)
  /\ UNCHANGED <<file, runs, faults>>

(* Mutant: one key too many. *)
SendKeyPast(s) ==
  /\ shell[s].at = "post" /\ shell[s].cmd = "keys"
  /\ IF shell[s].left >= 1 THEN shell' = [shell EXCEPT ![s].left = @ - 1] ELSE Exit(s)
  /\ UNCHANGED <<file, box, runs, faults>>

(* send_key prints what became of one key; the next one follows. *)
SendKey(s) ==
  /\ shell[s].at = "post" /\ shell[s].cmd = "keys"
  /\ IF shell[s].left > 1 THEN shell' = [shell EXCEPT ![s].left = @ - 1] ELSE Exit(s)
  /\ UNCHANGED <<file, box, runs, faults>>

(* A request fails with an exception nobody catches, or Ctrl-C.  A pairing *)
(* may have been completed although the answer is lost.                    *)
Crash(s) ==
  /\ shell[s].at # "idle" /\ faults < MaxFaults /\ faults' = faults + 1
  /\ Exit(s)
  /\ \/ UNCHANGED box
     \/ /\ shell[s].at = "post" /\ shell[s].cmd = "complete" /\ pin = shell[s].mac
        /\ paired' = paired \cup {pin} /\ pin' = None
     \/ shell[s].at = "post" /\ shell[s].cmd = "pair" /\ pin' = shell[s].mac /\ UNCHANGED paired
  /\ UNCHANGED <<file, runs>>

PinExpire ==
  /\ pin # None /\ pin' = None
  /\ UNCHANGED <<shell, file, paired, runs, faults>>

Step(s) ==
  \/ Serial(s) \/ ControllerMac(s) \/ ReadMac(s) \/ CreateMac(s) \/ SaveMac(s)
  \/ PairingStart(s) \/ PairingComplete(s) \/ SendKey(s)

Next == PinExpire \/ \E s \in Shells : Run(s) \/ Step(s) \/ Crash(s)

Spec == Init /\ [][Next]_vars

-----------------------------------------------------------------------------
(* Properties. *)

Invocations ==
  [at : {"idle", "serial", "mac", "read", "create", "save", "post"},
   cmd : {"none", "pair", "complete", "keys"},
   mac : Macs \cup {None, Empty}, left : 1..Keys]

(* Type correctness of the invocations, the file and the receiver. *)
TypeOK ==
  /\ shell \in [Shells -> Invocations]
  /\ \A s \in Shells : shell[s].at = "post" => shell[s].mac # None /\ shell[s].cmd # "none"
  /\ macfile \in Macs \cup {NoFile, Empty} /\ drawn \subseteq Macs
  /\ pin \in Macs \cup {None, Empty}
  /\ paired \subseteq Macs \cup {Empty}
  /\ raced \in BOOLEAN /\ runs \in 0..MaxRuns /\ faults \in 0..MaxFaults

Creating == \E s \in Shells : shell[s].at \in {"create", "save"}

Settled ==
  macfile \in Macs /\ \A s \in Shells : shell[s].at \notin {"create", "save"}

(* "generated & cached": once a MAC is in the file and no invocation is    *)
(* about to make one, it stays for good: later invocations, also those     *)
(* that crash, neither replace it nor draw another.                        *)
MacSettled == [][Settled => Settled' /\ macfile' = macfile]_vars

(* What is paired in one invocation and used in the next is the same       *)
(* controller: all requests name the MAC in the file, which is the only    *)
(* one the receiver knows, unless first invocations overlapped or one was  *)
(* cut off between making the file and filling it.                         *)
OneController ==
  ~raced =>
    /\ \A s \in Shells : shell[s].at = "post" => shell[s].mac = macfile
    /\ paired \subseteq {macfile} /\ pin \in {macfile, None}
=============================================================================
