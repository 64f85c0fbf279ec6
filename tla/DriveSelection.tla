--------------------------- MODULE DriveSelection ---------------------------
(***************************************************************************)
(* The commands that work on a drive chosen from a list: encrypt, decrypt, *)
(* unlock, lock, change-password and status, which run diskutil on one     *)
(* APFS volume of the drive (internal/drive/darwin.go), and encrypt-pro as *)
(* far as the open of the device.  A command lists the drives, then        *)
(* prompts, and only then acts; meanwhile other commands run and drives    *)
(* are pulled out and plugged in.                                          *)
(*                                                                         *)
(* Every drive is APFS formatted: in partitions, each a container of       *)
(* volumes, or as a whole.  diskutil and the numbering of the devices are  *)
(* the environment: a volume's device identifier is taken to be its place  *)
(* on the node its drive is plugged into.                                  *)
(***************************************************************************)
EXTENDS Naturals, Sequences, FiniteSets

CONSTANTS
  Procs,        \* invocations of the program that may overlap
  Nodes,        \* the device nodes /dev/diskN
  Drives,       \* the drives
  Layout,       \* the containers of each drive, in partition order
  WholeDisk,    \* the drives that are one container without partitions
  Removable,    \* those diskutil calls removable or ejectable
  Volumes,      \* the volumes in the containers
  Passwords,
  Commands,     \* the commands the users run
  Targets,      \* what they name: nodes, or mount points of volumes
  FaultKinds,   \* {"refused"}: diskutil fails without having done anything
  None,         \* no drive, volume, device or password
  MaxCommands,  \* bound: commands started
  MaxFaults,    \* bound: faults injected
  MaxReplugs    \* bound: drives pulled out or plugged in

AllCommands ==
  {"encrypt", "decrypt", "unlock", "lock", "change-password", "encrypt-pro"}

Places == [node : Nodes, container : Nat \ {0}, index : Nat \ {0}]
VolumesOf(layout) == UNION {{layout[c][i] : i \in DOMAIN layout[c]} : c \in DOMAIN layout}

ASSUME SelectionAssumption ==
  /\ Layout \in [Drives -> Seq(Seq(Volumes))]
  /\ \A d, e \in Drives : d # e => VolumesOf(Layout[d]) \cap VolumesOf(Layout[e]) = {}
  /\ \A d \in WholeDisk : d \in Drives /\ Len(Layout[d]) = 1
  /\ Removable \subseteq Drives
  /\ Commands \subseteq AllCommands \union {"status"}
  /\ Targets \subseteq Nodes \union Volumes
  /\ FaultKinds \subseteq {"refused"}
  /\ None \notin Nodes \union Drives \union Volumes \union Passwords \union AllCommands
  /\ None \notin Places
  /\ MaxCommands \in Nat /\ MaxFaults \in Nat /\ MaxReplugs \in Nat

VARIABLES
  attached,    \* the drive behind each device node
  listing,     \* the order in which diskutil lists each drive's containers
  passphrase,  \* the FileVault passphrase of each volume
  mounted,     \* the mounted volumes
  wiped,       \* the drives encrypt-pro has opened to overwrite
  pc,          \* where each process is
  job,         \* the local variables of each process
  outcome,     \* what each process's last command told its user
  issued, faults, replugs,
  told,        \* history: the passphrase each drive has, going by the messages
  swapped,     \* history: a drive took a node on which a command had chosen another
  doubt        \* history: the processes whose status may well say "not encrypted"

disks == <<passphrase, mounted, wiped>>
bounds == <<issued, faults, replugs>>
history == <<told, swapped>>
vars == <<attached, listing, disks, pc, job, outcome, bounds, history, doubt>>

NoJob == [command |-> None]
Jobs ==
  [command : AllCommands, node : Nodes, shown : Drives, device : Places \union {None},
   password : Passwords \union {None}, new : Passwords \union {None}]
StatusJobs == [command : {"status"}, node : Nodes, device : Places \union {None}]

Working == {"prompt", "first", "second"}
Checking == {"disk", "find", "volume", "raw"}

OncePlugged == \A m, n \in Nodes : attached[m] = attached[n] => m = n \/ attached[m] = None
Present == UNION {VolumesOf(Layout[d]) : d \in {attached[n] : n \in Nodes} \ {None}}

TypeOK ==
  /\ attached \in [Nodes -> Drives \union {None}]
  /\ OncePlugged
  /\ passphrase \in [Volumes -> Passwords \union {None}]
  /\ mounted \subseteq Present
  /\ wiped \subseteq Drives
  /\ pc \in [Procs -> {"idle"} \union Working \union Checking]
  /\ job \in [Procs -> Jobs \union StatusJobs \union {NoJob}]
  /\ \A p \in Procs :
       /\ job[p] = NoJob <=> pc[p] = "idle"
       /\ job[p] \in Jobs <=> pc[p] \in Working
  /\ outcome \in [Procs -> {"none", "ok", "error", "not found", "encrypted", "plain"}]
  /\ issued \in 0 .. MaxCommands /\ faults \in 0 .. MaxFaults /\ replugs \in 0 .. MaxReplugs
  /\ told \in [Drives -> Passwords \union {None}]
  /\ swapped \in BOOLEAN
  /\ doubt \subseteq {p \in Procs : pc[p] \in Checking}

Orders(n) == {s \in [1 .. n -> 1 .. n] : \A k \in 1 .. n : \E i \in 1 .. n : s[i] = k}

(* Drives plugged in anywhere, unencrypted and mounted.                    *)
Init ==
  /\ attached \in [Nodes -> Drives \union {None}]
  /\ OncePlugged
  /\ listing \in {f \in [Drives -> UNION {Orders(Len(Layout[d])) : d \in Drives}] :
                    \A d \in Drives : f[d] \in Orders(Len(Layout[d]))}
  /\ passphrase = [v \in Volumes |-> None]
  /\ mounted = Present
  /\ wiped = {}
  /\ pc = [p \in Procs |-> "idle"]
  /\ job = [p \in Procs |-> NoJob]
  /\ outcome = [p \in Procs |-> "none"]
  /\ issued = 0 /\ faults = 0 /\ replugs = 0
  /\ told = [d \in Drives |-> None]
  /\ swapped = FALSE
  /\ doubt = {}

-----------------------------------------------------------------------------
(* The containers diskutil sees on a node, and the volume at a place.      *)
Containers(node) ==
  IF attached[node] \in Drives \ wiped THEN Layout[attached[node]] ELSE <<>>

VolumeAt(place) ==
  LET containers == Containers(place.node) IN
  IF place.container \in DOMAIN containers /\ place.index \in DOMAIN containers[place.container]
  THEN containers[place.container][place.index]
  ELSE None

(* The first volume of the first container, in the order given, that has   *)
(* one.                                                                    *)
FirstVolume(node, order) ==
  LET full == {i \in DOMAIN Containers(node) : Containers(node)[order[i]] # <<>>} IN
  IF full = {}
  THEN None
  ELSE [node |-> node, container |-> order[CHOOSE i \in full : \A k \in full : i <= k],
        index |-> 1]

(* listDarwin goes through the partitions. A disk without partitions gets  *)
(* no volume here.                                                         *)
ListedVolume(node) ==
  IF attached[node] \in WholeDisk
  THEN None
  ELSE FirstVolume(node, [c \in DOMAIN Containers(node) |-> c])

(* findAPFSVolumeDevice goes through the containers as diskutil lists      *)
(* them, and takes one whose store is the disk or one of its partitions.   *)
FindVolume(node) == FirstVolume(node, listing[attached[node]])

(* resolveDarwinPath: a node is itself, a mount point its drive's node; a  *)
(* path that diskutil does not know stays what it is and is no node.       *)
ResolvePath(target) ==
  IF target \in Nodes THEN target
  ELSE IF target \in mounted
       THEN CHOOSE n \in Nodes :
              attached[n] # None /\ target \in VolumesOf(Layout[attached[n]])
       ELSE None

DriveAt(node) == IF node = None THEN None ELSE attached[node]

(* A mutant of Return: a command's variables outlive it.                   *)
ReturnKeepingJob(p, result) ==
  /\ pc' = [pc EXCEPT ![p] = "idle"]
  /\ outcome' = [outcome EXCEPT ![p] = result]
  /\ UNCHANGED job
Return(p, result) ==
  /\ pc' = [pc EXCEPT ![p] = "idle"]
  /\ job' = [job EXCEPT ![p] = NoJob]
  /\ outcome' = [outcome EXCEPT ![p] = result]

(* The handlers that ask for a removable drive.                            *)
NeedsRemovable(command) == command \in {"encrypt", "encrypt-pro"}

(* The passwords a command has asked for by the time it acts; the password *)
(* of encrypt-pro has no effect on what is modelled here.                  *)
PasswordsFor(command) ==
  CASE command = "change-password" -> Passwords \X Passwords
    [] command \in {"lock", "encrypt-pro"} -> {<<None, None>>}
    [] OTHER -> Passwords \X {None}

(* A handler resolves the path, lists the drives, and picks its own; then  *)
(* it prompts.                                                             *)
Select(p, command, target, passwords) ==
  LET node == ResolvePath(target)
      drive == DriveAt(node)
  IN
  /\ pc[p] = "idle"
  /\ command \in Commands
  /\ issued < MaxCommands
  /\ issued' = issued + 1
  /\ \/ /\ drive = None
        /\ Return(p, "not found")
     \/ /\ drive # None /\ NeedsRemovable(command) /\ drive \notin Removable
        /\ Return(p, "error")
     \/ /\ drive # None /\ (NeedsRemovable(command) => drive \in Removable)
        /\ pc' = [pc EXCEPT ![p] = "prompt"]
        /\ job' = [job EXCEPT ![p] =
             [command |-> command, node |-> node, shown |-> drive,
              device |-> ListedVolume(node),
              password |-> passwords[1], new |-> passwords[2]]]
        /\ outcome' = [outcome EXCEPT ![p] = "none"]
  /\ UNCHANGED <<attached, listing, disks, faults, replugs, history>>

(* The volume is the one the list gave, or is looked for now.              *)
ChooseVolume(p) ==
  LET device == IF job[p].device = None /\ attached[job[p].node] # None
                THEN FindVolume(job[p].node) ELSE job[p].device
  IN
  /\ pc[p] = "prompt"
  /\ job[p].command # "encrypt-pro"
  /\ \/ /\ device = None
        /\ Return(p, "error")
     \/ /\ device # None
        /\ pc' = [pc EXCEPT ![p] = "first"]
        /\ job' = [job EXCEPT ![p].device = device]
        /\ UNCHANGED outcome
  /\ UNCHANGED <<attached, listing, disks, bounds, history>>

(* encrypt-pro: IsRemovable once more, also of the list, then the open of  *)
(* d.Path, whatever is there by now.                                       *)
OpenRaw(p) ==
  LET drive == attached[job[p].node]
      opens == job[p].shown \in Removable /\ drive # None
  IN
  /\ pc[p] = "prompt"
  /\ job[p].command = "encrypt-pro"
  /\ \/ /\ ~opens
        /\ Return(p, "error")
        /\ UNCHANGED <<mounted, wiped>>
     \/ /\ opens
        /\ wiped' = wiped \union {drive}
        /\ mounted' = mounted \ VolumesOf(Layout[drive])
        /\ Return(p, "ok")
  /\ UNCHANGED <<attached, listing, passphrase, bounds, history>>

-----------------------------------------------------------------------------
(* What diskutil does to a volume.                                         *)
Permitted(j, v) ==
  CASE j.command = "encrypt" -> passphrase[v] = None
    [] j.command = "lock"    -> v \in mounted
    [] j.command = "unlock"  -> passphrase[v] = j.password /\ v \notin mounted
    [] OTHER                 -> passphrase[v] = j.password

(* The passphrase handed over as the volume's next one. The mutant passes  *)
(* the two of change-password in the wrong order.                          *)
NextPassphraseSwapped(j) == IF j.command = "decrypt" THEN None ELSE j.password
NextPassphrase(j) ==
  CASE j.command = "decrypt" -> None
    [] j.command = "change-password" -> j.new
    [] OTHER -> j.password

SetsPassphrase(j) == j.command \in {"encrypt", "decrypt", "change-password"}

Perform(j, v) ==
  /\ passphrase' = IF SetsPassphrase(j) THEN [passphrase EXCEPT ![v] = NextPassphrase(j)]
                   ELSE passphrase
  /\ mounted' = CASE j.command = "unlock" -> mounted \union {v}
                  [] j.command = "lock"   -> mounted \ {v}
                  [] OTHER                -> mounted

(* What the user now takes the drive's passphrase to be.                   *)
Tell(j) ==
  told' = IF SetsPassphrase(j)
          THEN [told EXCEPT ![j.shown] =
                  CASE j.command = "decrypt" -> None
                    [] j.command = "change-password" -> j.new
                    [] OTHER -> j.password]
          ELSE told

(* The exit after a failure. In the mutant lock ignores that unmount failed. *)
FailureIgnored(j) == IF j.command = "lock" THEN "ok" ELSE "error"
Failure(j) == "error"

(* unlockDarwin and changePasswordDarwin try again with other flags,       *)
(* whatever was wrong.                                                     *)
AfterError(p) ==
  IF pc[p] = "first" /\ job[p].command \in {"unlock", "change-password"}
  THEN pc' = [pc EXCEPT ![p] = "second"] /\ UNCHANGED <<job, outcome>>
  ELSE Return(p, Failure(job[p]))

(* diskutil exits with an error and has done nothing.                      *)
Refused ==
  /\ "refused" \in FaultKinds
  /\ faults < MaxFaults
  /\ faults' = faults + 1

RunTool(p) ==
  LET v == VolumeAt(job[p].device)
      permitted == v # None /\ Permitted(job[p], v)
  IN
  /\ pc[p] \in {"first", "second"}
  /\ \/ /\ permitted
        /\ Perform(job[p], v)
        /\ Tell(job[p])
        /\ Return(p, "ok")
        /\ UNCHANGED faults
     \/ /\ \/ ~permitted /\ UNCHANGED faults
           \/ permitted /\ Refused
        /\ AfterError(p)
        /\ UNCHANGED <<passphrase, mounted, told>>
  /\ UNCHANGED <<attached, listing, wiped, issued, replugs, swapped>>

-----------------------------------------------------------------------------
(* status: handleStatus and checkStatusDarwin, one diskutil at a time.     *)

(* Of a path that is no drive's, status says that it is not encrypted and  *)
(* adds an error: "not found" here.                                        *)
CheckStatus(p, target) ==
  LET node == ResolvePath(target) IN
  /\ pc[p] = "idle"
  /\ "status" \in Commands
  /\ issued < MaxCommands
  /\ issued' = issued + 1
  /\ \/ /\ node = None
        /\ Return(p, "not found")
     \/ /\ node # None
        /\ pc' = [pc EXCEPT ![p] = "disk"]
        /\ job' = [job EXCEPT ![p] = [command |-> "status", node |-> node, device |-> None]]
        /\ outcome' = [outcome EXCEPT ![p] = "none"]
  /\ UNCHANGED <<attached, listing, disks, faults, replugs, history>>

GoOn(p, to, device) ==
  /\ pc' = [pc EXCEPT ![p] = to]
  /\ job' = [job EXCEPT ![p].device = device]
  /\ UNCHANGED outcome

Asking == UNCHANGED <<attached, listing, disks, issued, replugs, history>>

(* getDiskInfo of the disk: its error is shown. Encryption is a matter of  *)
(* the volume.                                                             *)
AskDisk(p) ==
  /\ pc[p] = "disk"
  /\ \/ /\ attached[job[p].node] # None
        /\ GoOn(p, "find", None)
        /\ UNCHANGED faults
     \/ /\ \/ attached[job[p].node] = None /\ UNCHANGED faults
           \/ Refused
        /\ Return(p, "not found")
  /\ Asking

(* findAPFSVolumeDevice: whatever goes wrong is taken for a drive without  *)
(* APFS. In the mutant status does not look for a volume.                  *)
SkipVolume(p) ==
  /\ pc[p] = "find"
  /\ GoOn(p, "raw", None)
  /\ UNCHANGED faults
  /\ Asking
LookForVolume(p) ==
  LET node == job[p].node
      place == IF attached[node] = None THEN None ELSE FindVolume(node)
  IN
  /\ pc[p] = "find"
  /\ \/ /\ place # None
        /\ GoOn(p, "volume", place)
        /\ UNCHANGED faults
     \/ /\ \/ place = None /\ UNCHANGED faults
           \/ Refused
        /\ GoOn(p, "raw", None)
  /\ Asking

(* getDiskInfo of the volume found: an error is taken for "not encrypted". *)
AskVolume(p) ==
  LET v == VolumeAt(job[p].device)
      encrypted == v # None /\ passphrase[v] # None
  IN
  /\ pc[p] = "volume"
  /\ \/ /\ encrypted
        /\ Return(p, "encrypted")
        /\ UNCHANGED faults
     \/ /\ \/ ~encrypted /\ UNCHANGED faults
           \/ Refused
        /\ GoOn(p, "raw", None)
  /\ Asking

(* The raw header, which only root can read; no error is shown.            *)
ReadRaw(p) ==
  /\ pc[p] = "raw"
  /\ \E verdict \in {"encrypted", "plain"} :
       /\ verdict = "encrypted" => attached[job[p].node] \in wiped
       /\ Return(p, verdict)
  /\ UNCHANGED faults
  /\ Asking

Replug ==
  /\ replugs < MaxReplugs
  /\ replugs' = replugs + 1
  /\ \E n \in Nodes :
       \/ /\ attached[n] # None
          /\ attached' = [attached EXCEPT ![n] = None]
          /\ mounted' = mounted \ VolumesOf(Layout[attached[n]])
          /\ UNCHANGED swapped
       \/ /\ attached[n] = None
          /\ \E d \in Drives \ {attached[m] : m \in Nodes} :
               /\ attached' = [attached EXCEPT ![n] = d]
               /\ mounted' = mounted \union
                    {v \in VolumesOf(Layout[d]) : passphrase[v] = None /\ d \notin wiped}
               /\ swapped' = (swapped \/ \E p \in Procs :
                    pc[p] \in Working /\ job[p].node = n /\ job[p].shown # d)
  /\ UNCHANGED <<listing, passphrase, wiped, pc, job, outcome, issued, faults, told>>

Step ==
  \/ \E p \in Procs :
       \/ \E command \in Commands \ {"status"}, target \in Targets :
            \E passwords \in PasswordsFor(command) : Select(p, command, target, passwords)
       \/ \E target \in Targets : CheckStatus(p, target)
       \/ AskDisk(p) \/ LookForVolume(p) \/ AskVolume(p) \/ ReadRaw(p)
       \/ ChooseVolume(p)
       \/ OpenRaw(p)
       \/ RunTool(p)
  \/ Replug

(* While a status runs: its drive had no passphrase going by the messages, *)
(* was pulled out or plugged in, or a diskutil of its own was refused.     *)
ToldPlain(node) == attached[node] = None \/ told[attached[node]] = None

Doubts ==
  doubt' = {p \in Procs :
    /\ pc'[p] \in Checking
    /\ \/ p \in doubt
       \/ ToldPlain(job[p].node)'
       \/ attached'[job'[p].node] # attached[job'[p].node]
       \/ pc[p] # pc'[p] /\ faults # faults'}

Next == Step /\ Doubts

Spec == Init /\ [][Next]_vars

-----------------------------------------------------------------------------
(* The messages of all commands together tell the truth about each drive   *)
(* with one volume: it has the passphrase, or none, that the last success  *)
(* message implies, however often a command was tried again and whatever   *)
(* was pulled out meanwhile; unless another drive took its node while a    *)
(* command prompted. (unlockDarwin, changePasswordDarwin: the second       *)
(* attempts; main.go:159, "After this, the drive will require your         *)
(* password to mount.")                                                    *)
ToldIsTrue ==
  ~swapped => \A d \in Drives \ wiped : \A v \in VolumesOf(Layout[d]) : passphrase[v] = told[d]

(* A drive with one volume that was reported locked has nothing mounted    *)
(* (README.md:92, "It is safe to physically remove it after locking"), on  *)
(* the same condition.                                                     *)
LockUnmounts ==
  [][\A p \in Procs :
       (pc[p] # "idle" /\ job[p].command = "lock" /\ outcome'[p] = "ok" /\ ~swapped) =>
         mounted' \cap VolumesOf(Layout[job[p].shown]) = {}]_vars

(* status never says of a drive that it is not encrypted if the user had   *)
(* been told of a FileVault passphrase all the time it ran, on the same    *)
(* condition: only a drive pulled out or plugged in at its node, or a      *)
(* diskutil of its own that failed, makes it do so. (darwin.go:376, "check *)
(* if this disk has APFS volumes that might be encrypted"; the errors of   *)
(* lines 378 and 380 fall through to "not encrypted".)                     *)
StatusConfirms ==
  [][\A p \in Procs :
       (/\ pc[p] \in Checking
        /\ outcome'[p] = "plain"
        /\ ~swapped
        /\ attached[job[p].node] \notin wiped) => p \in doubt]_vars

=============================================================================
