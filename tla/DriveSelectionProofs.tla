------------------------ MODULE DriveSelectionProofs ------------------------
(***************************************************************************)
(* Proofs about DriveSelection, for any number of processes, nodes and     *)
(* drives, and any drives pulled out and plugged in.                       *)
(***************************************************************************)
EXTENDS DriveSelection, SequenceTheorems, WellFoundedInduction, TLAPS

USE SelectionAssumption

-----------------------------------------------------------------------------
(* The inductive invariant.                                                *)

Busy(p) == pc[p] \in Working
Checks(p) == pc[p] \in Checking

(* What a command holds while it prompts and works. Unless a drive took    *)
(* another's node meanwhile, the node is the one of the drive that was     *)
(* shown, or empty.                                                        *)
JobOK(p) ==
  /\ outcome[p] = "none"
  /\ job[p].device # None => job[p].device.node = job[p].node
  /\ pc[p] \in {"first", "second"} => job[p].device # None /\ job[p].command # "encrypt-pro"
  /\ ~swapped => attached[job[p].node] \in {job[p].shown, None}

(* What status holds while it runs.                                        *)
StatusOK(p) ==
  /\ outcome[p] = "none"
  /\ pc[p] = "volume" => job[p].device # None /\ job[p].device.node = job[p].node

ProcOK(p) == (Busy(p) => JobOK(p)) /\ (Checks(p) => StatusOK(p))

SelectInv ==
  /\ TypeOK
  /\ \A d \in Drives : listing[d] \in Orders(Len(Layout[d]))
  /\ \A p \in Procs : ProcOK(p)

(* A drive has at most one volume.                                         *)
OneVolume == \A d \in Drives : \A v, w \in VolumesOf(Layout[d]) : v = w

(* A passphrase was told only of a drive with a volume.                    *)
ToldOfVolumes == ~swapped => \A d \in Drives : told[d] # None => VolumesOf(Layout[d]) # {}

TruthInv == SelectInv /\ ToldIsTrue /\ ToldOfVolumes

(* A status not in doubt looks at a drive that was told to have a          *)
(* passphrase, and gets past the volume only if the drive was overwritten. *)
Doubtless(p) ==
  (Checks(p) /\ p \notin doubt /\ ~swapped) =>
    LET node == job[p].node IN
    /\ ~ToldPlain(node)
    /\ pc[p] = "volume" /\ attached[node] \notin wiped => VolumeAt(job[p].device) # None
    /\ pc[p] = "raw" => attached[node] \in wiped

StatusInv == TruthInv /\ \A p \in Procs : Doubtless(p)

-----------------------------------------------------------------------------
(* Volumes and places.                                                     *)

LEMMA Least ==
  ASSUME NEW S, S \subseteq Nat, S # {}
  PROVE  \E i \in S : \A k \in S : i <= k
<1>. DEFINE R == OpToRel(<, Nat)
<1>1. IsWellFoundedOn(R, Nat)
  BY NatLessThanWellFounded
<1>2. \A a, b \in Nat : a < b => <<a, b>> \in R
  BY DEF OpToRel
<1>. HIDE DEF R
<1>3. PICK i \in S : \A k \in S : ~(<<k, i>> \in R)
  BY <1>1, WFMin
<1>4. ASSUME NEW k \in S PROVE i <= k
  <2>1. i \in Nat /\ k \in Nat /\ ~(k < i)
    BY <1>2, <1>3
  <2>. QED BY <2>1
<1>. QED BY <1>4

LEMMA ContainersType ==
  ASSUME TypeOK, NEW node \in Nodes
  PROVE  /\ Containers(node) \in Seq(Seq(Volumes))
         /\ DOMAIN Containers(node) = 1 .. Len(Containers(node))
<1>1. Containers(node) \in Seq(Seq(Volumes))
  BY EmptySeq DEF Containers
<1>. QED BY <1>1

(* The volume at a place is one of the drive on its node.                  *)
LEMMA VolumeOfDrive ==
  ASSUME TypeOK, NEW place, place.node \in Nodes, VolumeAt(place) # None
  PROVE  /\ attached[place.node] \in Drives \ wiped
         /\ VolumeAt(place) \in VolumesOf(Layout[attached[place.node]])
         /\ VolumeAt(place) \in Volumes
<1>. DEFINE node == place.node  c == place.container  i == place.index
            containers == Containers(node)
<1>1. /\ c \in DOMAIN containers /\ i \in DOMAIN containers[c]
      /\ VolumeAt(place) = containers[c][i]
  BY DEF VolumeAt
<1>2. containers \in Seq(Seq(Volumes)) /\ DOMAIN containers = 1 .. Len(containers)
  BY ContainersType
<1>3. containers[c] \in Seq(Volumes) /\ containers[c][i] \in Volumes
  BY <1>1, <1>2
<1>4. attached[node] \in Drives \ wiped /\ containers = Layout[attached[node]]
  BY <1>1 DEF Containers
<1>. QED BY <1>1, <1>3, <1>4, SMTT(30) DEF VolumesOf

(* FirstVolume finds a volume if there is one.                             *)
LEMMA FirstVolumeFinds ==
  ASSUME TypeOK, NEW node \in Nodes,
         NEW order \in [DOMAIN Containers(node) -> DOMAIN Containers(node)]
  PROVE  /\ FirstVolume(node, order) \in Places \union {None}
         /\ FirstVolume(node, order) # None =>
              /\ FirstVolume(node, order).node = node
              /\ VolumeAt(FirstVolume(node, order)) # None
         /\ FirstVolume(node, order) = None =>
              \A i \in DOMAIN Containers(node) : Containers(node)[order[i]] = <<>>
<1>. DEFINE containers == Containers(node)
            full == {i \in DOMAIN containers : containers[order[i]] # <<>>}
            first == CHOOSE i \in full : \A k \in full : i <= k
<1>1. containers \in Seq(Seq(Volumes)) /\ DOMAIN containers = 1 .. Len(containers)
  BY ContainersType
<1>2. CASE full = {}
  <2>1. FirstVolume(node, order) = None
    BY <1>2 DEF FirstVolume
  <2>. QED BY <1>2, <2>1
<1>3. CASE full # {}
  <2>1. \E i \in full : \A k \in full : i <= k
    <3>1. full \subseteq Nat
      BY <1>1
    <3>. HIDE DEF full
    <3>. QED BY <1>3, <3>1, Least
  <2>2. first \in full
    BY <2>1
  <2>. HIDE DEF first
  <2>3. first \in DOMAIN containers /\ containers[order[first]] # <<>>
    BY <2>2
  <2>. DEFINE c == order[first]  place == [node |-> node, container |-> c, index |-> 1]
  <2>4. c \in 1 .. Len(containers) /\ containers[c] \in Seq(Volumes) /\ containers[c] # <<>>
    BY <1>1, <2>3
  <2>5. FirstVolume(node, order) = place
    BY <1>3 DEF FirstVolume, first
  <2>6. place \in Places
    BY <2>4 DEF Places
  <2>. HIDE DEF c
  <2>7. VolumeAt(place) # None
    <3>1. 1 \in DOMAIN containers[c] /\ containers[c][1] \in Volumes
      BY <2>4
    <3>2. VolumeAt(place) = containers[c][1]
      BY <1>1, <2>4, <3>1 DEF VolumeAt
    <3>. QED BY <3>1, <3>2
  <2>8. place # None
    BY <2>6
  <2>. QED BY <2>5, <2>6, <2>7, <2>8
<1>. QED BY <1>2, <1>3

LEMMA ListedVolumeOK ==
  ASSUME TypeOK, NEW node \in Nodes
  PROVE  /\ ListedVolume(node) \in Places \union {None}
         /\ ListedVolume(node) # None => ListedVolume(node).node = node
<1>. DEFINE order == [c \in DOMAIN Containers(node) |-> c]
<1>1. order \in [DOMAIN Containers(node) -> DOMAIN Containers(node)]
  OBVIOUS
<1>. HIDE DEF order
<1>2. /\ FirstVolume(node, order) \in Places \union {None}
      /\ FirstVolume(node, order) # None => FirstVolume(node, order).node = node
  BY <1>1, FirstVolumeFinds
<1>. QED BY <1>2 DEF ListedVolume, order

LEMMA FindVolumeOK ==
  ASSUME SelectInv, NEW node \in Nodes, attached[node] # None
  PROVE  /\ FindVolume(node) \in Places \union {None}
         /\ FindVolume(node) # None =>
              /\ FindVolume(node).node = node
              /\ VolumeAt(FindVolume(node)) # None
         /\ FindVolume(node) = None /\ attached[node] \notin wiped =>
              VolumesOf(Layout[attached[node]]) = {}
<1>. DEFINE d == attached[node]  order == listing[d]
<1>1. d \in Drives /\ order \in Orders(Len(Layout[d])) /\ TypeOK
  BY DEF SelectInv, TypeOK
<1>2. Layout[d] \in Seq(Seq(Volumes))
  BY <1>1
<1>3. CASE d \notin wiped
  <2>1. Containers(node) = Layout[d] /\ DOMAIN Containers(node) = 1 .. Len(Layout[d])
    BY <1>1, <1>2, <1>3 DEF Containers
  <2>2. /\ order \in [DOMAIN Containers(node) -> DOMAIN Containers(node)]
        /\ \A k \in DOMAIN Containers(node) : \E i \in DOMAIN Containers(node) : order[i] = k
    BY <1>1, <2>1 DEF Orders
  <2>. HIDE DEF order
  <2>3. /\ FirstVolume(node, order) \in Places \union {None}
        /\ FirstVolume(node, order) # None =>
             /\ FirstVolume(node, order).node = node
             /\ VolumeAt(FirstVolume(node, order)) # None
        /\ FirstVolume(node, order) = None =>
             \A i \in DOMAIN Containers(node) : Containers(node)[order[i]] = <<>>
    BY <1>1, <2>2, FirstVolumeFinds
  <2>4. ASSUME FirstVolume(node, order) = None PROVE VolumesOf(Layout[d]) = {}
    <3>1. \A k \in DOMAIN Layout[d] : Layout[d][k] = <<>>
      BY <2>1, <2>2, <2>3, <2>4
    <3>. QED BY <3>1 DEF VolumesOf
  <2>. QED BY <2>3, <2>4 DEF FindVolume, order
<1>4. CASE d \in wiped
  <2>1. Containers(node) = <<>>
    BY <1>4 DEF Containers
  <2>2. FindVolume(node) = None
    BY <2>1 DEF FindVolume, FirstVolume
  <2>. QED BY <1>4, <2>2
<1>. QED BY <1>3, <1>4

-----------------------------------------------------------------------------
(* The processes.                                                          *)

Outcomes == {"none", "ok", "error", "not found", "encrypted", "plain"}

Points == {"idle"} \union Working \union Checking
Held == Jobs \union StatusJobs \union {NoJob}

ProcsOK ==
  /\ pc \in [Procs -> Points]
  /\ job \in [Procs -> Held]
  /\ \A p \in Procs : /\ job[p] = NoJob <=> pc[p] = "idle"
                      /\ job[p] \in Jobs <=> pc[p] \in Working
  /\ outcome \in [Procs -> Outcomes]

DoubtOK == doubt \subseteq {p \in Procs : pc[p] \in Checking}

Others(p) ==
  \A q \in Procs \ {p} : pc'[q] = pc[q] /\ job'[q] = job[q] /\ outcome'[q] = outcome[q]

LEMMA JobKinds ==
  /\ NoJob \notin Jobs \union StatusJobs
  /\ \A j \in StatusJobs : j \notin Jobs
<1>1. NoJob \notin Jobs
  <2>1. NoJob.command = None
    BY DEF NoJob
  <2>2. \A j \in Jobs : j.command \in AllCommands
    BY DEF Jobs
  <2>. QED BY <2>1, <2>2
<1>2. NoJob \notin StatusJobs
  <2>1. DOMAIN NoJob = {"command"}
    BY DEF NoJob
  <2>2. \A j \in StatusJobs : "node" \in DOMAIN j
    BY DEF StatusJobs
  <2>. QED BY <2>1, <2>2
<1>3. ASSUME NEW j \in StatusJobs PROVE j \notin Jobs
  <2>1. j.command = "status"
    BY DEF StatusJobs
  <2>2. \A k \in Jobs : k.command # "status"
    BY DEF Jobs, AllCommands
  <2>. QED BY <2>1, <2>2
<1>. QED BY <1>1, <1>2, <1>3

LEMMA BusyJob ==
  ASSUME SelectInv, NEW p \in Procs, Busy(p)
  PROVE  job[p] \in Jobs /\ job[p].node \in Nodes /\ job[p].shown \in Drives /\ JobOK(p)
<1>1. job[p] \in Jobs /\ JobOK(p)
  BY DEF SelectInv, TypeOK, Busy, ProcOK
<1>. QED BY <1>1 DEF Jobs

LEMMA ChecksJob ==
  ASSUME SelectInv, NEW p \in Procs, Checks(p)
  PROVE  job[p] \in StatusJobs /\ job[p].node \in Nodes /\ StatusOK(p)
<1>1. pc[p] # "idle" /\ pc[p] \notin Working
  BY DEF Checks, Checking, Working
<1>2. job[p] \in StatusJobs /\ StatusOK(p)
  BY <1>1 DEF SelectInv, TypeOK, ProcOK
<1>. QED BY <1>2 DEF StatusJobs

LEMMA Returns ==
  ASSUME TypeOK, NEW p \in Procs, NEW result \in Outcomes, Return(p, result)
  PROVE  /\ ProcsOK' /\ Others(p) /\ ProcOK(p)'
         /\ pc'[p] = "idle" /\ outcome'[p] = result
<1>1. /\ pc' = [pc EXCEPT ![p] = "idle"]
      /\ job' = [job EXCEPT ![p] = NoJob]
      /\ outcome' = [outcome EXCEPT ![p] = result]
  BY DEF Return
<1>2. /\ pc' \in [Procs -> Points]
      /\ job' \in [Procs -> Held]
      /\ outcome' \in [Procs -> Outcomes]
  BY <1>1 DEF TypeOK, Outcomes, Points, Held
<1>3. Others(p) /\ pc'[p] = "idle" /\ job'[p] = NoJob /\ outcome'[p] = result
  BY <1>1 DEF TypeOK, Others
<1>4. "idle" \notin Working /\ "idle" \notin Checking
  BY DEF Working, Checking
<1>5. \A q \in Procs : /\ job'[q] = NoJob <=> pc'[q] = "idle"
                       /\ job'[q] \in Jobs <=> pc'[q] \in Working
  <2>1. \A q \in Procs \ {p} : pc'[q] = pc[q] /\ job'[q] = job[q]
    BY <1>3 DEF Others
  <2>2. \A q \in Procs : /\ job[q] = NoJob <=> pc[q] = "idle"
                         /\ job[q] \in Jobs <=> pc[q] \in Working
    BY DEF TypeOK
  <2>3. ASSUME NEW q \in Procs
        PROVE  /\ job'[q] = NoJob <=> pc'[q] = "idle"
               /\ job'[q] \in Jobs <=> pc'[q] \in Working
    <3>1. CASE q = p
      BY <1>3, <1>4, JobKinds, <3>1
    <3>2. CASE q # p
      BY <2>1, <2>2, <3>2
    <3>. QED BY <3>1, <3>2
  <2>. QED BY <2>3
<1>6. ProcOK(p)'
  BY <1>3, <1>4 DEF ProcOK, Busy, Checks
<1>. QED BY <1>2, <1>3, <1>5, <1>6 DEF ProcsOK

(* A process goes on with a job.                                           *)
LEMMA GoesOn ==
  ASSUME TypeOK, NEW p \in Procs, NEW to \in Working \union Checking, NEW j,
         \/ to \in Working /\ j \in Jobs
         \/ to \in Checking /\ j \in StatusJobs,
         pc' = [pc EXCEPT ![p] = to], job' = [job EXCEPT ![p] = j],
         NEW o \in Outcomes, outcome' = [outcome EXCEPT ![p] = o]
  PROVE  /\ ProcsOK' /\ Others(p)
         /\ pc'[p] = to /\ job'[p] = j /\ outcome'[p] = o
<1>1. /\ pc' \in [Procs -> Points]
      /\ job' \in [Procs -> Held]
      /\ outcome' \in [Procs -> Outcomes]
  BY DEF TypeOK, Outcomes, Points, Held
<1>2. Others(p) /\ pc'[p] = to /\ job'[p] = j /\ outcome'[p] = o
  BY DEF TypeOK, Others
<1>3. to # "idle" /\ j # NoJob /\ (j \in Jobs <=> to \in Working)
  <2>1. to # "idle" /\ ~(to \in Working /\ to \in Checking)
    BY DEF Working, Checking
  <2>. QED BY <2>1, JobKinds
<1>4. \A q \in Procs : /\ job'[q] = NoJob <=> pc'[q] = "idle"
                       /\ job'[q] \in Jobs <=> pc'[q] \in Working
  <2>1. \A q \in Procs \ {p} : pc'[q] = pc[q] /\ job'[q] = job[q]
    BY <1>2 DEF Others
  <2>2. \A q \in Procs : /\ job[q] = NoJob <=> pc[q] = "idle"
                         /\ job[q] \in Jobs <=> pc[q] \in Working
    BY DEF TypeOK
  <2>3. ASSUME NEW q \in Procs
        PROVE  /\ job'[q] = NoJob <=> pc'[q] = "idle"
               /\ job'[q] \in Jobs <=> pc'[q] \in Working
    <3>1. CASE q = p
      BY <1>2, <1>3, <3>1
    <3>2. CASE q # p
      BY <2>1, <2>2, <3>2
    <3>. QED BY <3>1, <3>2
  <2>. QED BY <2>3
<1>. QED BY <1>1, <1>2, <1>4 DEF ProcsOK

(* The other jobs stay in order if the nodes do.                           *)
LEMMA JobsStep ==
  ASSUME SelectInv, NEW p \in Procs, Others(p), UNCHANGED <<attached, swapped>>, ProcOK(p)'
  PROVE  \A q \in Procs : ProcOK(q)'
<1>. SUFFICES ASSUME NEW q \in Procs, q # p PROVE ProcOK(q)'
  OBVIOUS
<1>1. pc'[q] = pc[q] /\ job'[q] = job[q] /\ outcome'[q] = outcome[q]
  BY DEF Others
<1>2. ProcOK(q)
  BY DEF SelectInv
<1>. QED BY <1>1, <1>2 DEF ProcOK, Busy, Checks, JobOK, StatusOK

(* What is left to show of a step that moves no drive.                     *)
LEMMA StepInv ==
  ASSUME SelectInv, NEW p \in Procs, ProcsOK', Others(p), ProcOK(p)', DoubtOK',
         UNCHANGED <<attached, listing, swapped, replugs>>,
         passphrase' \in [Volumes -> Passwords \union {None}], mounted' \subseteq Present,
         wiped' \subseteq Drives, issued' \in 0 .. MaxCommands, faults' \in 0 .. MaxFaults,
         told' \in [Drives -> Passwords \union {None}]
  PROVE  SelectInv'
<1>1. TypeOK'
  <2>1. TypeOK
    BY DEF SelectInv
  <2>2. OncePlugged' /\ mounted' \subseteq Present'
    <3>1. OncePlugged'
      BY <2>1 DEF TypeOK, OncePlugged
    <3>2. Present' = Present
      BY DEF Present
    <3>. QED BY <3>1, <3>2
  <2>3. /\ attached' \in [Nodes -> Drives \union {None}]
        /\ replugs' \in 0 .. MaxReplugs /\ swapped' \in BOOLEAN
    BY <2>1 DEF TypeOK
  <2>. QED BY <2>2, <2>3 DEF TypeOK, ProcsOK, Outcomes, Points, Held, DoubtOK
<1>2. \A q \in Procs : ProcOK(q)'
  BY JobsStep
<1>3. \A d \in Drives : listing'[d] \in Orders(Len(Layout[d]))
  BY DEF SelectInv
<1>. QED BY <1>1, <1>2, <1>3 DEF SelectInv

-----------------------------------------------------------------------------
(* The steps.                                                              *)

LEMMA VolumeType ==
  ASSUME NEW d \in Drives, NEW v \in VolumesOf(Layout[d])
  PROVE  v \in Volumes
<1>1. Layout[d] \in Seq(Seq(Volumes))
  OBVIOUS
<1>2. PICK c \in DOMAIN Layout[d] : \E i \in DOMAIN Layout[d][c] : v = Layout[d][c][i]
  BY DEF VolumesOf
<1>. QED BY <1>1, <1>2

LEMMA InitSelect == Init => StatusInv
<1>. SUFFICES ASSUME Init PROVE StatusInv
  OBVIOUS
<1>1. TypeOK
  <2>1. /\ attached \in [Nodes -> Drives \union {None}] /\ OncePlugged
        /\ mounted \subseteq Present /\ wiped \subseteq Drives
        /\ swapped \in BOOLEAN /\ doubt = {}
    BY DEF Init
  <2>2. /\ passphrase \in [Volumes -> Passwords \union {None}]
        /\ told \in [Drives -> Passwords \union {None}]
        /\ issued \in 0 .. MaxCommands /\ faults \in 0 .. MaxFaults /\ replugs \in 0 .. MaxReplugs
    BY DEF Init
  <2>3. ProcsOK
    BY JobKinds DEF Init, ProcsOK, Outcomes, Points, Held, Working
  <2>. QED BY <2>1, <2>2, <2>3 DEF TypeOK, ProcsOK, Outcomes, Points, Held
<1>2. \A d \in Drives : listing[d] \in Orders(Len(Layout[d]))
  BY DEF Init
<1>3. ToldOfVolumes
  BY DEF Init, ToldOfVolumes
<1>4. ToldIsTrue
  BY VolumeType DEF Init, ToldIsTrue
<1>5. \A p \in Procs : ~Busy(p) /\ ~Checks(p)
  BY DEF Init, Busy, Checks, Working, Checking
<1>. QED BY <1>1, <1>2, <1>3, <1>4, <1>5 DEF StatusInv, TruthInv, SelectInv, ProcOK, Doubtless

LEMMA ResolvesToNode ==
  ASSUME TypeOK, NEW target \in Targets
  PROVE  ResolvePath(target) \in Nodes \union {None}
<1>1. CASE target \in Nodes
  BY <1>1 DEF ResolvePath
<1>2. CASE target \notin Nodes /\ target \in mounted
  <2>1. target \in Present
    BY <1>2 DEF TypeOK
  <2>2. \E n \in Nodes : attached[n] # None /\ target \in VolumesOf(Layout[attached[n]])
    BY <2>1 DEF Present
  <2>3. ResolvePath(target) = CHOOSE n \in Nodes :
                 attached[n] # None /\ target \in VolumesOf(Layout[attached[n]])
    BY <1>2 DEF ResolvePath
  <2>. QED BY <2>2, <2>3
<1>. QED BY <1>1, <1>2 DEF ResolvePath

LEMMA ResolveOK ==
  ASSUME TypeOK, NEW target \in Targets, DriveAt(ResolvePath(target)) # None
  PROVE  /\ ResolvePath(target) \in Nodes
         /\ DriveAt(ResolvePath(target)) = attached[ResolvePath(target)]
         /\ DriveAt(ResolvePath(target)) \in Drives
<1>. DEFINE node == ResolvePath(target)
<1>1. node # None /\ DriveAt(node) = attached[node]
  BY DEF DriveAt
<1>2. node \in Nodes
  BY <1>1, ResolvesToNode
<1>3. attached[node] \in Drives
  BY <1>1, <1>2 DEF TypeOK
<1>. QED BY <1>1, <1>2, <1>3

LEMMA SelectStep ==
  ASSUME SelectInv, NEW p \in Procs, NEW command \in Commands \ {"status"}, NEW target \in Targets,
         NEW passwords \in PasswordsFor(command), Select(p, command, target, passwords),
         DoubtOK'
  PROVE  SelectInv'
<1>. DEFINE node == ResolvePath(target)  drive == DriveAt(node)
<1>1. TypeOK /\ issued' \in 0 .. MaxCommands /\ command \in AllCommands
      /\ UNCHANGED <<attached, listing, passphrase, mounted, wiped, faults, replugs, told, swapped>>
  <2>1. TypeOK /\ command \in AllCommands /\ issued \in 0 .. MaxCommands
    BY DEF SelectInv, TypeOK
  <2>2. issued < MaxCommands /\ issued' = issued + 1
    BY DEF Select
  <2>3. UNCHANGED <<attached, listing, passphrase, mounted, wiped, faults, replugs, told, swapped>>
    BY DEF Select, disks, history
  <2>4. issued' \in 0 .. MaxCommands
    BY <2>1, <2>2
  <2>. QED BY <2>1, <2>3, <2>4
<1>2. \/ Return(p, "not found")
      \/ Return(p, "error")
      \/ /\ drive # None
         /\ pc' = [pc EXCEPT ![p] = "prompt"]
         /\ job' = [job EXCEPT ![p] =
              [command |-> command, node |-> node, shown |-> drive,
               device |-> ListedVolume(node),
               password |-> passwords[1], new |-> passwords[2]]]
         /\ outcome' = [outcome EXCEPT ![p] = "none"]
  BY DEF Select
<1>. HIDE DEF node, drive
<1>4. ASSUME ProcsOK', Others(p), ProcOK(p)' PROVE SelectInv'
  BY <1>1, <1>4, StepInv DEF TypeOK, Present
<1>5. ASSUME NEW result \in {"not found", "error"}, Return(p, result) PROVE SelectInv'
  <2>1. ProcsOK' /\ Others(p) /\ ProcOK(p)'
    BY <1>1, <1>5, Returns DEF Outcomes
  <2>. QED BY <1>4, <2>1
<1>6. ASSUME drive # None,
             pc' = [pc EXCEPT ![p] = "prompt"],
             job' = [job EXCEPT ![p] =
               [command |-> command, node |-> node, shown |-> drive,
                device |-> ListedVolume(node),
                password |-> passwords[1], new |-> passwords[2]]],
             outcome' = [outcome EXCEPT ![p] = "none"]
      PROVE  SelectInv'
  <2>. DEFINE j == [command |-> command, node |-> node, shown |-> drive,
                    device |-> ListedVolume(node),
                    password |-> passwords[1], new |-> passwords[2]]
  <2>1. node \in Nodes /\ drive = attached[node] /\ drive \in Drives
    BY <1>1, <1>6, ResolveOK DEF node, drive
  <2>2. /\ ListedVolume(node) \in Places \union {None}
        /\ ListedVolume(node) # None => ListedVolume(node).node = node
    BY <1>1, <2>1, ListedVolumeOK
  <2>3. passwords[1] \in Passwords \union {None} /\ passwords[2] \in Passwords \union {None}
    BY DEF PasswordsFor
  <2>4. j \in Jobs
    BY <1>1, <2>1, <2>2, <2>3 DEF Jobs
  <2>5. /\ j.command = command /\ j.node = node /\ j.shown = drive /\ j.device = ListedVolume(node)
    OBVIOUS
  <2>. HIDE DEF j
  <2>6. /\ ProcsOK' /\ Others(p)
        /\ pc'[p] = "prompt" /\ job'[p] = j /\ outcome'[p] = "none"
    BY <1>1, <1>6, <2>4, GoesOn DEF Outcomes, j, Working
  <2>7. JobOK(p)'
    BY <1>1, <2>1, <2>2, <2>5, <2>6 DEF JobOK
  <2>8. ProcOK(p)'
    BY <2>6, <2>7 DEF ProcOK, Checks, Checking
  <2>. QED BY <1>4, <2>6, <2>8
<1>. QED BY <1>2, <1>5, <1>6

LEMMA CheckStatusStep ==
  ASSUME SelectInv, NEW p \in Procs, NEW target \in Targets, CheckStatus(p, target), DoubtOK'
  PROVE  SelectInv'
<1>. DEFINE node == ResolvePath(target)
<1>1. /\ TypeOK /\ issued \in 0 .. MaxCommands
      /\ UNCHANGED <<attached, listing, passphrase, mounted, wiped, faults, replugs, told, swapped>>
  BY DEF SelectInv, TypeOK, CheckStatus, disks, history
<1>2. issued < MaxCommands /\ issued' = issued + 1
  BY DEF CheckStatus
<1>3. issued' \in 0 .. MaxCommands
  BY <1>1, <1>2
<1>4. ASSUME ProcsOK', Others(p), ProcOK(p)' PROVE SelectInv'
  BY <1>1, <1>3, <1>4, StepInv DEF TypeOK
<1>5. CASE Return(p, "not found")
  BY <1>1, <1>4, <1>5, Returns DEF Outcomes
<1>6. CASE /\ node # None
           /\ pc' = [pc EXCEPT ![p] = "disk"]
           /\ job' = [job EXCEPT ![p] = [command |-> "status", node |-> node, device |-> None]]
           /\ outcome' = [outcome EXCEPT ![p] = "none"]
  <2>. DEFINE j == [command |-> "status", node |-> node, device |-> None]
  <2>1. node \in Nodes
    BY <1>1, <1>6, ResolvesToNode
  <2>. HIDE DEF node
  <2>2. j \in StatusJobs
    BY <2>1 DEF StatusJobs
  <2>. HIDE DEF j
  <2>3. /\ ProcsOK' /\ Others(p)
        /\ pc'[p] = "disk" /\ job'[p] = j /\ outcome'[p] = "none"
    BY <1>1, <1>6, <2>2, GoesOn DEF Outcomes, Checking, j
  <2>4. ProcOK(p)'
    BY <2>3 DEF ProcOK, Busy, Working, StatusOK
  <2>. QED BY <1>4, <2>3, <2>4
<1>. QED BY <1>5, <1>6 DEF CheckStatus

(* A step of status that asks diskutil or reads the header.                *)
LEMMA AskingStep ==
  ASSUME SelectInv, NEW p \in Procs, Checks(p), Asking, DoubtOK',
         UNCHANGED faults \/ Refused,
         \/ \E result \in Outcomes : Return(p, result)
         \/ \E to \in Checking, device \in Places \union {None} :
              /\ GoOn(p, to, device)
              /\ to = "volume" => device # None /\ device.node = job[p].node
  PROVE  SelectInv'
<1>1. /\ TypeOK /\ faults \in 0 .. MaxFaults
      /\ UNCHANGED <<attached, listing, passphrase, mounted, wiped, issued, replugs, told, swapped>>
  BY DEF SelectInv, TypeOK, Asking, disks, history
<1>2. faults' \in 0 .. MaxFaults
  BY <1>1 DEF Refused
<1>3. ASSUME ProcsOK', Others(p), ProcOK(p)' PROVE SelectInv'
  BY <1>1, <1>2, <1>3, StepInv DEF TypeOK
<1>4. CASE \E result \in Outcomes : Return(p, result)
  BY <1>1, <1>3, <1>4, Returns
<1>5. ASSUME NEW to \in Checking, NEW device \in Places \union {None}, GoOn(p, to, device),
             to = "volume" => device # None /\ device.node = job[p].node
      PROVE  SelectInv'
  <2>. DEFINE j == [job[p] EXCEPT !.device = device]
  <2>1. job[p] \in StatusJobs /\ StatusOK(p)
    BY ChecksJob
  <2>2. j \in StatusJobs /\ j.device = device /\ j.node = job[p].node
    BY <2>1 DEF StatusJobs
  <2>3. /\ pc' = [pc EXCEPT ![p] = to] /\ job' = [job EXCEPT ![p] = j]
        /\ outcome' = [outcome EXCEPT ![p] = "none"]
    <3>1. outcome' = [outcome EXCEPT ![p] = "none"]
      BY <1>1, <1>5, <2>1, ZenonT(40) DEF GoOn, StatusOK, TypeOK
    <3>2. job' = [job EXCEPT ![p] = j]
      BY <1>5 DEF GoOn
    <3>. QED BY <1>5, <3>1, <3>2 DEF GoOn
  <2>. HIDE DEF j
  <2>4. /\ ProcsOK' /\ Others(p)
        /\ pc'[p] = to /\ job'[p] = j /\ outcome'[p] = "none"
    BY <1>1, <2>2, <2>3, GoesOn DEF Outcomes
  <2>5. to \notin Working
    BY DEF Working, Checking
  <2>6. ProcOK(p)'
    BY <1>5, <2>2, <2>4, <2>5 DEF ProcOK, Busy, StatusOK
  <2>. QED BY <1>3, <2>4, <2>6
<1>. QED BY <1>4, <1>5

LEMMA StatusSteps ==
  ASSUME SelectInv, NEW p \in Procs, DoubtOK',
         AskDisk(p) \/ LookForVolume(p) \/ AskVolume(p) \/ ReadRaw(p)
  PROVE  SelectInv'
<1>1. Checks(p) /\ Asking /\ (UNCHANGED faults \/ Refused)
  BY DEF AskDisk, LookForVolume, AskVolume, ReadRaw, Checks, Checking
<1>2. job[p].node \in Nodes
  BY <1>1, ChecksJob
<1>3. \/ \E result \in Outcomes : Return(p, result)
      \/ \E to \in Checking, device \in Places \union {None} :
           /\ GoOn(p, to, device)
           /\ to = "volume" => device # None /\ device.node = job[p].node
  <2>1. CASE AskDisk(p)
    BY <2>1 DEF AskDisk, Outcomes, Checking
  <2>2. CASE LookForVolume(p)
    <3>. DEFINE node == job[p].node
                place == IF attached[node] = None THEN None ELSE FindVolume(node)
    <3>1. \/ place # None /\ GoOn(p, "volume", place)
          \/ GoOn(p, "raw", None)
      BY <2>2 DEF LookForVolume
    <3>2. place # None => place \in Places /\ place.node = node
      BY <1>2, FindVolumeOK
    <3>. QED BY <3>1, <3>2 DEF Checking
  <2>3. CASE AskVolume(p)
    BY <2>3 DEF AskVolume, Outcomes, Checking
  <2>4. CASE ReadRaw(p)
    BY <2>4 DEF ReadRaw, Outcomes
  <2>. QED BY <2>1, <2>2, <2>3, <2>4
<1>. QED BY <1>1, <1>3, AskingStep

LEMMA ChooseVolumeStep ==
  ASSUME SelectInv, NEW p \in Procs, ChooseVolume(p), DoubtOK'
  PROVE  SelectInv'
<1>. DEFINE node == job[p].node
            device == IF job[p].device = None /\ attached[node] # None
                      THEN FindVolume(node) ELSE job[p].device
<1>1. /\ TypeOK
      /\ UNCHANGED <<attached, listing, passphrase, mounted, wiped>>
      /\ UNCHANGED <<issued, faults, replugs, told, swapped>>
  BY DEF SelectInv, ChooseVolume, disks, bounds, history
<1>3. Busy(p) /\ pc[p] = "prompt" /\ job[p].command # "encrypt-pro"
  BY DEF ChooseVolume, Busy, Working
<1>4. job[p] \in Jobs /\ node \in Nodes /\ JobOK(p)
  BY <1>3, BusyJob
<1>5. \/ Return(p, "error")
      \/ /\ device # None
         /\ pc' = [pc EXCEPT ![p] = "first"]
         /\ job' = [job EXCEPT ![p].device = device]
         /\ UNCHANGED outcome
  BY DEF ChooseVolume
<1>6. ASSUME ProcsOK', Others(p), ProcOK(p)' PROVE SelectInv'
  BY <1>1, <1>6, StepInv DEF TypeOK
<1>7. CASE Return(p, "error")
  BY <1>1, <1>6, <1>7, Returns DEF Outcomes
<1>8. ASSUME device # None,
             pc' = [pc EXCEPT ![p] = "first"],
             job' = [job EXCEPT ![p].device = device],
             UNCHANGED outcome
      PROVE  SelectInv'
  <2>1. device \in Places \union {None} /\ device.node = node
    <3>1. CASE job[p].device = None /\ attached[node] # None
      BY <1>4, <1>8, <3>1, FindVolumeOK
    <3>2. CASE ~(job[p].device = None /\ attached[node] # None)
      BY <1>4, <1>8, <3>2 DEF JobOK, Jobs
    <3>. QED BY <3>1, <3>2
  <2>. HIDE DEF device
  <2>. DEFINE j == [job[p] EXCEPT !.device = device]
  <2>2. j \in Jobs
    BY <1>4, <2>1 DEF Jobs
  <2>3. /\ j.device = device /\ j.node = node /\ j.shown = job[p].shown
        /\ j.command = job[p].command
    BY <1>4 DEF Jobs
  <2>4. job' = [job EXCEPT ![p] = j] /\ outcome' = [outcome EXCEPT ![p] = "none"]
    BY <1>1, <1>4, <1>8 DEF TypeOK, JobOK
  <2>. HIDE DEF j
  <2>5. /\ ProcsOK' /\ Others(p)
        /\ pc'[p] = "first" /\ job'[p] = j /\ outcome'[p] = "none"
    BY <1>1, <1>8, <2>2, <2>4, GoesOn DEF Outcomes, Working
  <2>6. JobOK(p)'
    BY <1>1, <1>3, <1>4, <1>8, <2>1, <2>3, <2>5 DEF JobOK
  <2>7. ProcOK(p)'
    BY <2>5, <2>6 DEF ProcOK, Checks, Checking
  <2>. QED BY <1>6, <2>5, <2>7
<1>. QED BY <1>5, <1>7, <1>8

LEMMA OpenRawStep ==
  ASSUME SelectInv, NEW p \in Procs, OpenRaw(p), DoubtOK'
  PROVE  SelectInv'
<1>. DEFINE drive == attached[job[p].node]
<1>1. /\ TypeOK
      /\ UNCHANGED <<attached, listing, passphrase, issued, faults, replugs, told, swapped>>
  BY DEF SelectInv, OpenRaw, bounds, history
<1>2. Busy(p)
  BY DEF OpenRaw, Busy, Working
<1>3. job[p].node \in Nodes
  BY <1>2, BusyJob
<1>4. drive \in Drives \union {None}
  BY <1>1, <1>3 DEF TypeOK
<1>5. \E result \in Outcomes : Return(p, result)
  BY DEF OpenRaw, Outcomes
<1>6. ProcsOK' /\ Others(p) /\ ProcOK(p)'
  BY <1>1, <1>5, Returns
<1>7. wiped' \subseteq Drives /\ mounted' \subseteq mounted
  BY <1>1, <1>4 DEF OpenRaw, TypeOK
<1>. QED BY <1>1, <1>6, <1>7, StepInv DEF TypeOK

LEMMA RunToolCases ==
  ASSUME SelectInv, NEW p \in Procs, RunTool(p)
  PROVE  /\ UNCHANGED <<attached, listing, wiped, issued, replugs, swapped>>
         /\ Busy(p) /\ job[p].device # None /\ job[p].command # "encrypt-pro"
         /\ \/ /\ VolumeAt(job[p].device) # None
               /\ Permitted(job[p], VolumeAt(job[p].device))
               /\ Perform(job[p], VolumeAt(job[p].device))
               /\ Tell(job[p])
               /\ Return(p, "ok")
               /\ UNCHANGED faults
            \/ /\ AfterError(p)
               /\ faults' \in 0 .. MaxFaults
               /\ UNCHANGED <<passphrase, mounted, told>>
<1>1. UNCHANGED <<attached, listing, wiped, issued, replugs, swapped>>
  BY DEF RunTool
<1>2. Busy(p) /\ job[p].device # None /\ job[p].command # "encrypt-pro"
  BY BusyJob DEF RunTool, Busy, JobOK, Working
<1>3. faults \in 0 .. MaxFaults
  BY DEF SelectInv, TypeOK
<1>4. \/ /\ VolumeAt(job[p].device) # None
         /\ Permitted(job[p], VolumeAt(job[p].device))
         /\ Perform(job[p], VolumeAt(job[p].device))
         /\ Tell(job[p])
         /\ Return(p, "ok")
         /\ UNCHANGED faults
      \/ /\ AfterError(p)
         /\ UNCHANGED faults \/ (faults < MaxFaults /\ faults' = faults + 1)
         /\ UNCHANGED <<passphrase, mounted, told>>
  BY DEF RunTool, Refused
<1>5. UNCHANGED faults \/ (faults < MaxFaults /\ faults' = faults + 1) => faults' \in 0 .. MaxFaults
  BY <1>3
<1>. QED BY <1>1, <1>2, <1>4, <1>5

LEMMA AfterErrorStep ==
  ASSUME SelectInv, NEW p \in Procs, AfterError(p), Busy(p), job[p].device # None,
         job[p].command # "encrypt-pro", UNCHANGED <<attached, swapped>>
  PROVE  ProcsOK' /\ Others(p) /\ ProcOK(p)' /\ outcome'[p] # "ok"
<1>1. TypeOK /\ job[p] \in Jobs /\ JobOK(p)
  BY BusyJob DEF SelectInv
<1>2. CASE pc' = [pc EXCEPT ![p] = "second"] /\ UNCHANGED <<job, outcome>>
  <2>1. job' = [job EXCEPT ![p] = job[p]] /\ outcome' = [outcome EXCEPT ![p] = "none"]
    BY <1>1, <1>2, ZenonT(40) DEF TypeOK, JobOK
  <2>2. /\ ProcsOK' /\ Others(p)
        /\ pc'[p] = "second" /\ job'[p] = job[p] /\ outcome'[p] = "none"
    BY <1>1, <1>2, <2>1, GoesOn DEF Outcomes, Working
  <2>3. JobOK(p)'
    BY <1>1, <2>2 DEF JobOK
  <2>. QED BY <2>2, <2>3 DEF ProcOK, Checks, Checking
<1>3. CASE Return(p, Failure(job[p]))
  BY <1>1, <1>3, Returns DEF Outcomes, Failure
<1>. QED BY <1>2, <1>3 DEF AfterError

LEMMA PresentVolume ==
  ASSUME NEW n \in Nodes, attached[n] \in Drives, NEW v \in VolumesOf(Layout[attached[n]])
  PROVE  v \in Present
<1>1. attached[n] \in {attached[m] : m \in Nodes} \ {None}
  OBVIOUS
<1>. QED BY <1>1 DEF Present

LEMMA RunToolStep ==
  ASSUME SelectInv, NEW p \in Procs, RunTool(p), DoubtOK'
  PROVE  SelectInv'
<1>1. /\ TypeOK /\ issued \in 0 .. MaxCommands
      /\ UNCHANGED <<attached, listing, wiped, issued, replugs, swapped>>
      /\ Busy(p) /\ job[p].device # None /\ job[p].command # "encrypt-pro"
  BY RunToolCases DEF SelectInv, TypeOK
<1>3. ASSUME ProcsOK', Others(p), ProcOK(p)', faults' \in 0 .. MaxFaults,
             passphrase' \in [Volumes -> Passwords \union {None}], mounted' \subseteq Present,
             told' \in [Drives -> Passwords \union {None}]
      PROVE  SelectInv'
  BY <1>1, <1>3, StepInv DEF TypeOK
<1>4. ASSUME AfterError(p), faults' \in 0 .. MaxFaults, UNCHANGED <<passphrase, mounted, told>>
      PROVE  SelectInv'
  <2>1. ProcsOK' /\ Others(p) /\ ProcOK(p)'
    BY <1>1, <1>4, AfterErrorStep
  <2>. QED BY <1>1, <1>3, <1>4, <2>1 DEF TypeOK
<1>5. ASSUME VolumeAt(job[p].device) # None, Perform(job[p], VolumeAt(job[p].device)),
             Tell(job[p]), Return(p, "ok"), UNCHANGED faults
      PROVE  SelectInv'
  <2>. DEFINE j == job[p]  v == VolumeAt(j.device)
  <2>1. j \in Jobs /\ j.device.node \in Nodes /\ j.password \in Passwords \union {None}
        /\ j.new \in Passwords \union {None} /\ j.shown \in Drives
    BY <1>1, BusyJob DEF JobOK, Jobs
  <2>2. v \in Volumes /\ v \in VolumesOf(Layout[attached[j.device.node]])
        /\ attached[j.device.node] \in Drives
    BY <1>1, <1>5, <2>1, VolumeOfDrive
  <2>3. v \in Present
    BY <2>1, <2>2, PresentVolume
  <2>. HIDE DEF j, v
  <2>4. ProcsOK' /\ Others(p) /\ ProcOK(p)'
    BY <1>1, <1>5, Returns DEF Outcomes
  <2>5. NextPassphrase(j) \in Passwords \union {None}
    BY <2>1 DEF NextPassphrase
  <2>6. passphrase' \in [Volumes -> Passwords \union {None}]
    BY <1>1, <1>5, <2>5 DEF Perform, TypeOK, j, v
  <2>7. mounted' \subseteq Present
    BY <1>1, <1>5, <2>3 DEF Perform, TypeOK, j, v
  <2>8. told' \in [Drives -> Passwords \union {None}]
    BY <1>1, <1>5, <2>1 DEF Tell, TypeOK, j
  <2>. QED BY <1>1, <1>3, <1>5, <2>4, <2>6, <2>7, <2>8 DEF TypeOK
<1>. QED BY <1>4, <1>5, RunToolCases

(* A drive is pulled out: its node is empty, its volumes are gone.         *)
LEMMA ReplugStep ==
  ASSUME SelectInv, Replug, DoubtOK'
  PROVE  SelectInv'
<1>1. /\ TypeOK /\ replugs \in 0 .. MaxReplugs
      /\ replugs < MaxReplugs /\ replugs' = replugs + 1
      /\ UNCHANGED <<listing, passphrase, wiped, pc, job, outcome, issued, faults, told>>
  BY DEF SelectInv, TypeOK, Replug
<1>2. PICK n \in Nodes :
        \/ /\ attached[n] # None
           /\ attached' = [attached EXCEPT ![n] = None]
           /\ mounted' = mounted \ VolumesOf(Layout[attached[n]])
           /\ UNCHANGED swapped
        \/ /\ attached[n] = None
           /\ \E d \in Drives \ {attached[m] : m \in Nodes} :
                /\ attached' = [attached EXCEPT ![n] = d]
                /\ mounted' = mounted \union
                     {v \in VolumesOf(Layout[d]) : passphrase[v] = None /\ d \notin wiped}
                /\ swapped' = (swapped \/ \E p \in Procs :
                     pc[p] \in Working /\ job[p].node = n /\ job[p].shown # d)
  BY DEF Replug
<1>3. ASSUME attached' \in [Nodes -> Drives \union {None}], OncePlugged', mounted' \subseteq Present',
             swapped' \in BOOLEAN, ~swapped' => ~swapped,
             \A p \in Procs : Busy(p) /\ ~swapped' => attached'[job[p].node] \in {job[p].shown, None}
      PROVE  SelectInv'
  <2>1. replugs' \in 0 .. MaxReplugs
    BY <1>1
  <2>2. TypeOK'
    BY <1>1, <1>3, <2>1 DEF TypeOK, DoubtOK
  <2>3. ASSUME NEW p \in Procs PROVE ProcOK(p)'
    <3>1. ProcOK(p)
      BY DEF SelectInv
    <3>2. (Busy(p) => JobOK(p))'
      BY <1>1, <1>3, <3>1 DEF ProcOK, JobOK, Busy
    <3>. QED BY <1>1, <3>1, <3>2 DEF ProcOK, Checks, StatusOK
  <2>. QED BY <1>1, <2>2, <2>3 DEF SelectInv
<1>4. ASSUME attached[n] # None, attached' = [attached EXCEPT ![n] = None],
             mounted' = mounted \ VolumesOf(Layout[attached[n]]), UNCHANGED swapped
      PROVE  SelectInv'
  <2>1. attached' \in [Nodes -> Drives \union {None}]
    BY <1>1, <1>4 DEF TypeOK
  <2>2. OncePlugged'
    BY <1>1, <1>4 DEF TypeOK, OncePlugged
  <2>3. ASSUME NEW v \in mounted' PROVE v \in Present'
    <3>1. v \in Present /\ v \notin VolumesOf(Layout[attached[n]])
      BY <1>1, <1>4, <2>3 DEF TypeOK
    <3>2. PICK m \in Nodes : attached[m] # None /\ v \in VolumesOf(Layout[attached[m]])
      BY <3>1 DEF Present
    <3>3. attached'[m] = attached[m]
      BY <1>1, <1>4, <3>1, <3>2 DEF TypeOK
    <3>4. attached'[m] \in {attached'[k] : k \in Nodes} \ {None}
      BY <3>2, <3>3
    <3>. QED BY <3>2, <3>3, <3>4 DEF Present
  <2>4. \A p \in Procs : Busy(p) /\ ~swapped' => attached'[job[p].node] \in {job[p].shown, None}
    BY <1>1, <1>4, BusyJob DEF JobOK, TypeOK
  <2>. QED BY <1>1, <1>3, <1>4, <2>1, <2>2, <2>3, <2>4 DEF TypeOK
<1>5. ASSUME attached[n] = None, NEW d \in Drives \ {attached[m] : m \in Nodes},
             attached' = [attached EXCEPT ![n] = d],
             mounted' = mounted \union
               {v \in VolumesOf(Layout[d]) : passphrase[v] = None /\ d \notin wiped},
             swapped' = (swapped \/ \E p \in Procs :
               pc[p] \in Working /\ job[p].node = n /\ job[p].shown # d)
      PROVE  SelectInv'
  <2>1. attached' \in [Nodes -> Drives \union {None}]
    BY <1>1, <1>5 DEF TypeOK
  <2>2. OncePlugged'
    BY <1>1, <1>5, ZenonT(40) DEF TypeOK, OncePlugged
  <2>3. ASSUME NEW v \in mounted' PROVE v \in Present'
    <3>1. PICK m \in Nodes : attached'[m] # None /\ v \in VolumesOf(Layout[attached'[m]])
      <4>1. CASE v \in mounted
        <5>1. v \in Present
          BY <1>1, <4>1 DEF TypeOK
        <5>2. PICK m \in Nodes : attached[m] # None /\ v \in VolumesOf(Layout[attached[m]])
          BY <5>1 DEF Present
        <5>3. attached'[m] = attached[m]
          BY <1>1, <1>5, <5>2 DEF TypeOK
        <5>. QED BY <5>2, <5>3
      <4>2. CASE v \in VolumesOf(Layout[d])
        <5>1. attached'[n] = d /\ d # None
          BY <1>1, <1>5 DEF TypeOK
        <5>. QED BY <4>2, <5>1
      <4>. QED BY <1>5, <2>3, <4>1, <4>2
    <3>2. attached'[m] \in {attached'[k] : k \in Nodes} \ {None}
      BY <3>1
    <3>. QED BY <3>1, <3>2 DEF Present
  <2>4. ASSUME NEW p \in Procs, Busy(p), ~swapped'
        PROVE  attached'[job[p].node] \in {job[p].shown, None}
    <3>1. ~swapped /\ (job[p].node = n => job[p].shown = d)
      BY <1>5, <2>4 DEF Busy
    <3>2. attached[job[p].node] \in {job[p].shown, None} /\ job[p].node \in Nodes
      BY <2>4, <3>1, BusyJob DEF JobOK
    <3>. QED BY <1>1, <1>5, <3>1, <3>2 DEF TypeOK
  <2>5. swapped' \in BOOLEAN /\ (~swapped' => ~swapped)
    BY <1>1, <1>5 DEF TypeOK
  <2>. QED BY <1>3, <2>1, <2>2, <2>3, <2>4, <2>5
<1>. QED BY <1>2, <1>4, <1>5

LEMMA DoubtsOK == Doubts => DoubtOK'
  BY DEF Doubts, DoubtOK

LEMMA SelectInvStep == SelectInv /\ [Next]_vars => SelectInv'
<1>. SUFFICES ASSUME SelectInv, [Next]_vars PROVE SelectInv'
  OBVIOUS
<1>1. CASE UNCHANGED vars
  <2>1. TypeOK'
    <3>1. Present' = Present
      BY <1>1 DEF Present, vars
    <3>2. OncePlugged'
      BY <1>1 DEF SelectInv, TypeOK, OncePlugged, vars
    <3>3. UNCHANGED <<attached, passphrase, mounted, wiped, pc, job, outcome>>
          /\ UNCHANGED <<issued, faults, replugs, told, swapped, doubt>>
      BY <1>1 DEF vars, disks, bounds, history
    <3>. QED BY <3>1, <3>2, <3>3 DEF SelectInv, TypeOK
  <2>2. ASSUME NEW p \in Procs PROVE ProcOK(p)'
    BY <1>1 DEF SelectInv, ProcOK, Busy, Checks, JobOK, StatusOK, vars, history
  <2>. QED BY <1>1, <2>1, <2>2 DEF SelectInv, vars
<1>2. CASE Step /\ Doubts
  BY <1>2, DoubtsOK, SelectStep, CheckStatusStep, StatusSteps, ChooseVolumeStep, OpenRawStep,
     RunToolStep, ReplugStep
  DEF Step
<1>. QED BY <1>1, <1>2 DEF Next

LEMMA SelectInvariant == Spec => []SelectInv
<1>1. Init => SelectInv
  BY InitSelect DEF StatusInv, TruthInv
<1>. QED BY <1>1, SelectInvStep, PTL DEF Spec

(* Every value has its type: the nodes, drives and places a command works  *)
(* with are ones that exist, whatever is pulled out and plugged in.        *)
THEOREM SelectionTypeCorrect == Spec => []TypeOK
<1>1. SelectInv => TypeOK
  BY DEF SelectInv
<1>. QED BY <1>1, SelectInvariant, PTL

-----------------------------------------------------------------------------
(* What the messages say.                                                  *)

(* diskutil works on a volume of the drive that was shown.                 *)
LEMMA WorksOnShown ==
  ASSUME SelectInv, NEW p \in Procs, Busy(p), ~swapped,
         job[p].device # None, VolumeAt(job[p].device) # None
  PROVE  /\ job[p].shown \in Drives \ wiped
         /\ VolumeAt(job[p].device) \in VolumesOf(Layout[job[p].shown])
         /\ VolumeAt(job[p].device) \in Volumes
<1>1. /\ TypeOK /\ job[p].shown \in Drives /\ job[p].node \in Nodes
      /\ job[p].device.node = job[p].node
      /\ attached[job[p].node] \in {job[p].shown, None}
  BY BusyJob DEF JobOK, SelectInv
<1>2. /\ attached[job[p].node] \in Drives \ wiped
      /\ VolumeAt(job[p].device) \in VolumesOf(Layout[attached[job[p].node]])
      /\ VolumeAt(job[p].device) \in Volumes
  BY <1>1, VolumeOfDrive
<1>. QED BY <1>1, <1>2

LEMMA PerformedTruth ==
  ASSUME OneVolume, TruthInv, NEW p \in Procs, Busy(p), job[p].device # None,
         VolumeAt(job[p].device) # None, Perform(job[p], VolumeAt(job[p].device)), Tell(job[p]),
         job[p].command # "encrypt-pro", UNCHANGED <<wiped, swapped>>
  PROVE  ToldIsTrue' /\ ToldOfVolumes'
<1>. DEFINE j == job[p]  v == VolumeAt(j.device)  shown == j.shown
<1>. SUFFICES ASSUME ~swapped
              PROVE  /\ \A d \in Drives \ wiped : \A w \in VolumesOf(Layout[d]) : passphrase'[w] = told'[d]
                     /\ \A d \in Drives : told'[d] # None => VolumesOf(Layout[d]) # {}
  BY DEF ToldIsTrue, ToldOfVolumes
<1>1. /\ SelectInv /\ TypeOK
      /\ \A d \in Drives \ wiped : \A w \in VolumesOf(Layout[d]) : passphrase[w] = told[d]
      /\ \A d \in Drives : told[d] # None => VolumesOf(Layout[d]) # {}
  BY DEF TruthInv, SelectInv, ToldIsTrue, ToldOfVolumes
<1>2. /\ shown \in Drives \ wiped /\ v \in VolumesOf(Layout[shown]) /\ v \in Volumes
      /\ j.command \in AllCommands
  BY <1>1, WorksOnShown, BusyJob DEF Jobs
<1>. HIDE DEF j, v, shown
<1>3. CASE ~SetsPassphrase(j)
  <2>1. UNCHANGED <<passphrase, told>>
    BY <1>3 DEF Perform, Tell, j
  <2>. QED BY <1>1, <2>1
<1>4. CASE SetsPassphrase(j)
  <2>1. passphrase' = [passphrase EXCEPT ![v] = NextPassphrase(j)]
    BY <1>4 DEF Perform, j, v
  <2>2. told' = [told EXCEPT ![shown] = NextPassphrase(j)]
    BY <1>4 DEF Tell, j, shown, NextPassphrase
  <2>. DEFINE next == NextPassphrase(j)
  <2>. HIDE DEF next
  <2>3. /\ told' = [told EXCEPT ![shown] = next] /\ passphrase' = [passphrase EXCEPT ![v] = next]
        /\ DOMAIN told = Drives /\ DOMAIN passphrase = Volumes
    BY <1>1, <2>1, <2>2 DEF TypeOK, next
  <2>4. ASSUME NEW d \in Drives \ wiped, NEW w \in VolumesOf(Layout[d])
        PROVE  passphrase'[w] = told'[d]
    <3>1. CASE d = shown
      <4>1. w = v
        BY <1>2, <3>1 DEF OneVolume
      <4>. QED BY <1>2, <2>3, <3>1, <4>1
    <3>2. CASE d # shown
      <4>1. w # v
        <5>1. VolumesOf(Layout[d]) \cap VolumesOf(Layout[shown]) = {}
          BY <1>2, <3>2
        <5>. QED BY <1>2, <5>1
      <4>2. passphrase'[w] = passphrase[w] /\ told'[d] = told[d]
        BY <2>3, <3>2, <4>1, VolumeType
      <4>. QED BY <1>1, <4>2
    <3>. QED BY <3>1, <3>2
  <2>5. ASSUME NEW d \in Drives, told'[d] # None PROVE VolumesOf(Layout[d]) # {}
    <3>1. CASE d = shown
      BY <1>2, <3>1
    <3>2. CASE d # shown
      BY <1>1, <2>3, <2>5, <3>2
    <3>. QED BY <3>1, <3>2
  <2>. QED BY <2>4, <2>5
<1>. QED BY <1>3, <1>4

LEMMA TruthStep ==
  ASSUME OneVolume, TruthInv, [Next]_vars
  PROVE  TruthInv'
<1>1. SelectInv /\ SelectInv'
  BY SelectInvStep DEF TruthInv
<1>2. ASSUME UNCHANGED <<passphrase, told>>, wiped \subseteq wiped', ~swapped' => ~swapped
      PROVE  TruthInv'
  BY <1>1, <1>2 DEF TruthInv, ToldIsTrue, ToldOfVolumes
<1>3. CASE UNCHANGED vars
  BY <1>2, <1>3 DEF vars, disks, history
<1>4. CASE Replug
  <2>1. UNCHANGED <<passphrase, told, wiped>>
    BY <1>4 DEF Replug
  <2>2. \E dirty \in BOOLEAN : swapped' = swapped \/ swapped' = (swapped \/ dirty)
    BY <1>4 DEF Replug
  <2>3. ~swapped' => ~swapped
    <3>1. swapped \in BOOLEAN
      BY <1>1 DEF SelectInv, TypeOK
    <3>. QED BY <2>2, <3>1
  <2>. QED BY <1>2, <2>1, <2>3
<1>5. ASSUME NEW p \in Procs, NEW command \in Commands \ {"status"}, NEW target \in Targets,
             NEW passwords \in PasswordsFor(command), Select(p, command, target, passwords)
      PROVE  TruthInv'
  BY <1>2, <1>5 DEF Select, disks, history
<1>6. ASSUME NEW p \in Procs, NEW target \in Targets, CheckStatus(p, target)
      PROVE  TruthInv'
  BY <1>2, <1>6 DEF CheckStatus, disks, history
<1>7. ASSUME NEW p \in Procs, ChooseVolume(p) PROVE TruthInv'
  BY <1>2, <1>7 DEF ChooseVolume, disks, history
<1>8. ASSUME NEW p \in Procs, OpenRaw(p) PROVE TruthInv'
  <2>1. UNCHANGED <<passphrase, told, swapped>> /\ wiped \subseteq wiped'
    BY <1>8 DEF OpenRaw, history
  <2>. QED BY <1>2, <2>1
<1>9. ASSUME NEW p \in Procs, RunTool(p) PROVE TruthInv'
  <2>1. /\ UNCHANGED <<wiped, swapped>> /\ Busy(p) /\ job[p].device # None
        /\ job[p].command # "encrypt-pro"
        /\ \/ /\ VolumeAt(job[p].device) # None
              /\ Perform(job[p], VolumeAt(job[p].device))
              /\ Tell(job[p])
           \/ UNCHANGED <<passphrase, told>>
    BY <1>1, <1>9, RunToolCases
  <2>2. CASE UNCHANGED <<passphrase, told>>
    BY <1>2, <2>1, <2>2
  <2>3. CASE /\ VolumeAt(job[p].device) # None
             /\ Perform(job[p], VolumeAt(job[p].device))
             /\ Tell(job[p])
    BY <1>1, <2>1, <2>3, PerformedTruth DEF TruthInv
  <2>. QED BY <2>1, <2>2, <2>3
<1>10. ASSUME NEW p \in Procs, AskDisk(p) \/ LookForVolume(p) \/ AskVolume(p) \/ ReadRaw(p)
       PROVE  TruthInv'
  BY <1>2, <1>10 DEF AskDisk, LookForVolume, AskVolume, ReadRaw, Asking, disks, history
<1>. QED BY <1>3, <1>4, <1>5, <1>6, <1>7, <1>8, <1>9, <1>10 DEF Next, Step

LEMMA TruthInvariant == ASSUME OneVolume PROVE Spec => []TruthInv
<1>1. Init => TruthInv
  BY InitSelect DEF StatusInv
<1>2. TruthInv /\ [Next]_vars => TruthInv'
  BY TruthStep
<1>. QED BY <1>1, <1>2, PTL DEF Spec

(* For drives with one volume, the messages of all commands together tell  *)
(* the passphrase each drive has, however many commands overlap, are       *)
(* refused or tried again, and whatever is pulled out meanwhile; unless a  *)
(* drive took another's node while a command prompted.                     *)
THEOREM MessagesAreTrue == ASSUME OneVolume PROVE Spec => []ToldIsTrue
<1>1. TruthInv => ToldIsTrue
  BY DEF TruthInv
<1>. QED BY <1>1, TruthInvariant, PTL

(* For drives with one volume, one that was reported locked has nothing    *)
(* mounted at that moment, on the same condition (lock of main.go).        *)
THEOREM LockedIsUnmounted == ASSUME OneVolume PROVE Spec => LockUnmounts
<1>. DEFINE Unmounts ==
       \A p \in Procs :
         (pc[p] # "idle" /\ job[p].command = "lock" /\ outcome'[p] = "ok" /\ ~swapped) =>
           mounted' \cap VolumesOf(Layout[job[p].shown]) = {}
<1>1. SelectInv /\ [Next]_vars => [Unmounts]_vars
  <2>. SUFFICES ASSUME SelectInv, Next, NEW p \in Procs,
                       pc[p] # "idle", job[p].command = "lock", outcome'[p] = "ok", ~swapped
                PROVE  mounted' \cap VolumesOf(Layout[job[p].shown]) = {}
    OBVIOUS
  <2>1. /\ Busy(p) /\ outcome[p] = "none" /\ TypeOK /\ job[p].shown \in Drives
    <3>1. TypeOK
      BY DEF SelectInv
    <3>2. ~Checks(p)
      <4>1. ASSUME Checks(p) PROVE FALSE
        <5>1. job[p] \in StatusJobs
          BY <4>1, ChecksJob
        <5>. QED BY <5>1 DEF StatusJobs
      <4>. QED BY <4>1
    <3>3. Busy(p)
      BY <3>1, <3>2 DEF TypeOK, Busy, Checks
    <3>. QED BY <3>1, <3>3, BusyJob DEF JobOK
  <2>2. ASSUME Replug PROVE FALSE
    BY <2>1, <2>2 DEF Replug
  <2>3. ASSUME NEW q \in Procs, NEW command \in Commands \ {"status"}, NEW target \in Targets,
               NEW passwords \in PasswordsFor(command), Select(q, command, target, passwords)
        PROVE  FALSE
    <3>1. q # p
      BY <2>1, <2>3 DEF Select, Busy, Working
    <3>. QED BY <2>1, <2>3, <3>1 DEF Select, Return, TypeOK
  <2>4. ASSUME NEW q \in Procs, NEW target \in Targets, CheckStatus(q, target) PROVE FALSE
    <3>1. q # p
      BY <2>1, <2>4 DEF CheckStatus, Busy, Working
    <3>. QED BY <2>1, <2>4, <3>1 DEF CheckStatus, Return, TypeOK
  <2>5. ASSUME NEW q \in Procs, ChooseVolume(q) PROVE FALSE
    <3>1. outcome' = [outcome EXCEPT ![q] = "error"] \/ outcome' = outcome
      BY <2>5 DEF ChooseVolume, Return
    <3>. QED BY <2>1, <3>1 DEF TypeOK
  <2>6. ASSUME NEW q \in Procs, OpenRaw(q) PROVE FALSE
    <3>1. q # p
      BY <2>6 DEF OpenRaw
    <3>. QED BY <2>1, <2>6, <3>1 DEF OpenRaw, Return, TypeOK
  <2>7. ASSUME NEW q \in Procs, RunTool(q)
        PROVE  mounted' \cap VolumesOf(Layout[job[p].shown]) = {}
    <3>1. /\ job[q].device # None
          /\ \/ /\ VolumeAt(job[q].device) # None
                /\ Perform(job[q], VolumeAt(job[q].device))
                /\ Return(q, "ok")
             \/ AfterError(q)
      BY <2>7, RunToolCases
    <3>2. q = p
      <4>1. \E o \in Outcomes : outcome' = [outcome EXCEPT ![q] = o] \/ outcome' = outcome
        BY <3>1 DEF AfterError, Return, Outcomes, Failure
      <4>. QED BY <2>1, <4>1 DEF TypeOK
    <3>3. ~AfterError(p)
      <4>1. AfterError(p) => outcome' = outcome \/ outcome' = [outcome EXCEPT ![p] = "error"]
        BY DEF AfterError, Return, Failure
      <4>. QED BY <2>1, <4>1 DEF TypeOK
    <3>4. VolumeAt(job[p].device) # None /\ mounted' = mounted \ {VolumeAt(job[p].device)}
      BY <3>1, <3>2, <3>3 DEF Perform
    <3>5. VolumeAt(job[p].device) \in VolumesOf(Layout[job[p].shown])
      BY <2>1, <3>1, <3>2, <3>4, WorksOnShown
    <3>6. \A w \in VolumesOf(Layout[job[p].shown]) : w = VolumeAt(job[p].device)
      BY <2>1, <3>5 DEF OneVolume
    <3>. QED BY <3>4, <3>6
  <2>8. ASSUME NEW q \in Procs, AskDisk(q) \/ LookForVolume(q) \/ AskVolume(q) \/ ReadRaw(q)
        PROVE  FALSE
    <3>1. q # p
      BY <2>1, <2>8 DEF AskDisk, LookForVolume, AskVolume, ReadRaw, Busy, Working
    <3>2. \E o : outcome' = [outcome EXCEPT ![q] = o] \/ outcome' = outcome
      BY <2>8 DEF AskDisk, LookForVolume, AskVolume, ReadRaw, GoOn, Return
    <3>. QED BY <2>1, <3>1, <3>2 DEF TypeOK
  <2>. QED BY <2>2, <2>3, <2>4, <2>5, <2>6, <2>7, <2>8 DEF Next, Step
<1>. QED BY <1>1, SelectInvariant, PTL DEF Spec, LockUnmounts

-----------------------------------------------------------------------------
(* What status says.                                                       *)

(* What a step is for a process that runs status.                          *)
LEMMA StepOfStatus ==
  ASSUME SelectInv, Step, NEW p \in Procs, Checks(p)'
  PROVE  /\ wiped \subseteq wiped' /\ (~swapped' => ~swapped)
         /\ \/ pc'[p] \notin {"volume", "raw"}
            \/ Checks(p) /\ pc'[p] = pc[p] /\ job'[p] = job[p]
            \/ LookForVolume(p)
            \/ AskVolume(p)
<1>1. TypeOK /\ SelectInv
  BY DEF SelectInv
<1>2. ASSUME UNCHANGED <<wiped, swapped>>, pc'[p] \notin {"volume", "raw"} \/ LookForVolume(p) \/ AskVolume(p)
             \/ (pc'[p] = pc[p] /\ job'[p] = job[p])
      PROVE  /\ wiped \subseteq wiped' /\ (~swapped' => ~swapped)
             /\ \/ pc'[p] \notin {"volume", "raw"}
                \/ Checks(p) /\ pc'[p] = pc[p] /\ job'[p] = job[p]
                \/ LookForVolume(p)
                \/ AskVolume(p)
  BY <1>2 DEF Checks
<1>3. CASE Replug
  <2>1. UNCHANGED <<wiped, pc, job>> /\ swapped \in BOOLEAN
    BY <1>1, <1>3 DEF Replug, TypeOK
  <2>2. \E other \in BOOLEAN : swapped' = swapped \/ swapped' = (swapped \/ other)
    BY <1>3 DEF Replug
  <2>. QED BY <2>1, <2>2 DEF Checks
<1>4. ASSUME NEW q \in Procs, NEW command \in Commands \ {"status"}, NEW target \in Targets,
             NEW passwords \in PasswordsFor(command), Select(q, command, target, passwords)
      PROVE  UNCHANGED <<wiped, swapped>> /\ (pc'[p] \in {"idle", "prompt"} \/ (pc'[p] = pc[p] /\ job'[p] = job[p]))
  BY <1>1, <1>4 DEF Select, Return, TypeOK, disks, history
<1>5. ASSUME NEW q \in Procs, NEW target \in Targets, CheckStatus(q, target)
      PROVE  UNCHANGED <<wiped, swapped>> /\ (pc'[p] \in {"idle", "disk"} \/ (pc'[p] = pc[p] /\ job'[p] = job[p]))
  BY <1>1, <1>5 DEF CheckStatus, Return, TypeOK, disks, history
<1>6. ASSUME NEW q \in Procs, AskDisk(q) \/ LookForVolume(q) \/ AskVolume(q) \/ ReadRaw(q)
      PROVE  /\ UNCHANGED <<wiped, swapped>>
             /\ \/ pc'[p] \in {"idle", "find"}
                \/ LookForVolume(p)
                \/ AskVolume(p)
                \/ pc'[p] = pc[p] /\ job'[p] = job[p]
  <2>1. UNCHANGED <<wiped, swapped>>
    BY <1>6 DEF AskDisk, LookForVolume, AskVolume, ReadRaw, Asking, disks, history
  <2>2. CASE q # p
    <3>1. (\E to, device : GoOn(q, to, device)) \/ (\E o : Return(q, o))
      BY <1>6 DEF AskDisk, LookForVolume, AskVolume, ReadRaw
    <3>. QED BY <1>1, <2>1, <2>2, <3>1 DEF GoOn, Return, TypeOK
  <2>3. CASE q = p
    <3>1. AskDisk(p) \/ ReadRaw(p) => pc'[p] \in {"idle", "find"}
      BY <1>1 DEF AskDisk, ReadRaw, GoOn, Return, TypeOK
    <3>. QED BY <1>6, <2>1, <2>3, <3>1
  <2>. QED BY <2>2, <2>3
<1>7. ASSUME NEW q \in Procs, ChooseVolume(q)
      PROVE  UNCHANGED <<wiped, swapped>> /\ (pc'[p] \in {"idle", "first"} \/ (pc'[p] = pc[p] /\ job'[p] = job[p]))
  BY <1>1, <1>7 DEF ChooseVolume, Return, TypeOK, disks, history
<1>8. ASSUME NEW q \in Procs, OpenRaw(q)
      PROVE  /\ wiped \subseteq wiped' /\ UNCHANGED swapped
             /\ pc'[p] = "idle" \/ (pc'[p] = pc[p] /\ job'[p] = job[p])
  BY <1>1, <1>8 DEF OpenRaw, Return, TypeOK, history
<1>9. ASSUME NEW q \in Procs, RunTool(q)
      PROVE  UNCHANGED <<wiped, swapped>> /\ (pc'[p] \in {"idle", "second"} \/ (pc'[p] = pc[p] /\ job'[p] = job[p]))
  <2>1. UNCHANGED <<wiped, swapped>> /\ (Return(q, "ok") \/ AfterError(q))
    BY <1>9, RunToolCases
  <2>2. \/ Return(q, "ok")
        \/ Return(q, Failure(job[q]))
        \/ pc' = [pc EXCEPT ![q] = "second"] /\ UNCHANGED job
    BY <2>1 DEF AfterError
  <2>3. pc'[p] \in {"idle", "second"} \/ (pc'[p] = pc[p] /\ job'[p] = job[p])
    BY <1>1, <2>2 DEF Return, TypeOK
  <2>. QED BY <2>1, <2>3
<1>. QED BY <1>2, <1>3, <1>4, <1>5, <1>6, <1>7, <1>8, <1>9 DEF Step, Checks

LEMMA DoubtlessStep ==
  ASSUME StatusInv, Step, Doubts, NEW p \in Procs
  PROVE  Doubtless(p)'
<1>. SUFFICES ASSUME Checks(p)', p \notin doubt', ~swapped', NEW node, node = job'[p].node
              PROVE  /\ ~ToldPlain(job[p].node)'
                     /\ pc'[p] = "volume" /\ attached'[node] \notin wiped' => VolumeAt(job[p].device)' # None
                     /\ pc'[p] = "raw" => attached'[node] \in wiped'
  BY DEF Doubtless
<1>1. /\ SelectInv /\ TypeOK /\ ToldIsTrue /\ ToldOfVolumes /\ Doubtless(p)
  BY DEF StatusInv, TruthInv, SelectInv
<1>2. /\ ~ToldPlain(job[p].node)'
      /\ p \notin doubt
      /\ attached'[node] = attached[node]
      /\ pc[p] # pc'[p] => faults = faults'
  BY DEF Doubts, Checks
<1>3. /\ wiped \subseteq wiped' /\ ~swapped
      /\ \/ pc'[p] \notin {"volume", "raw"}
         \/ Checks(p) /\ pc'[p] = pc[p] /\ job'[p] = job[p]
         \/ LookForVolume(p)
         \/ AskVolume(p)
  BY <1>1, StepOfStatus
<1>4. CASE Checks(p) /\ pc'[p] = pc[p] /\ job'[p] = job[p]
  <2>1. node = job[p].node
    BY <1>4
  <2>2. pc[p] = "raw" => attached'[node] \in wiped'
    BY <1>1, <1>2, <1>3, <1>4 DEF Doubtless
  <2>3. ASSUME pc[p] = "volume", attached'[node] \notin wiped' PROVE VolumeAt(job[p].device)' # None
    <3>1. VolumeAt(job[p].device) # None
      BY <1>1, <1>2, <1>3, <1>4, <2>3 DEF Doubtless
    <3>2. job[p].device.node = node
      BY <1>1, <1>4, <2>3, ChecksJob DEF StatusOK
    <3>3. Containers(node)' = Containers(node)
      BY <1>2, <1>3, <2>3 DEF Containers
    <3>. QED BY <1>4, <3>1, <3>2, <3>3 DEF VolumeAt
  <2>. QED BY <1>2, <1>4, <2>2, <2>3
<1>5. ASSUME LookForVolume(p) \/ AskVolume(p)
      PROVE  /\ Checks(p) /\ job'[p].node = job[p].node /\ node \in Nodes
             /\ ~ToldPlain(node) /\ attached[node] \in Drives
             /\ UNCHANGED <<attached, wiped, passphrase>>
  <2>1. Checks(p)
    BY <1>5 DEF LookForVolume, AskVolume, Checks, Checking
  <2>2. job[p].node \in Nodes /\ job[p] \in StatusJobs
    BY <1>1, <2>1, ChecksJob
  <2>3. (\E to, device : GoOn(p, to, device)) \/ (\E o : Return(p, o))
    BY <1>5 DEF LookForVolume, AskVolume
  <2>4. pc'[p] # "idle"
    BY DEF Checks, Checking
  <2>5. \E device : job'[p] = [job[p] EXCEPT !.device = device]
    BY <1>1, <2>3, <2>4 DEF GoOn, Return, TypeOK
  <2>6. job'[p].node = job[p].node
    BY <2>2, <2>5 DEF StatusJobs
  <2>7. ~ToldPlain(node)
    BY <1>1, <1>2, <1>3, <2>1, <2>6 DEF Doubtless
  <2>8. attached[node] \in Drives
    BY <1>1, <2>2, <2>6, <2>7 DEF ToldPlain, TypeOK
  <2>9. UNCHANGED <<attached, wiped, passphrase>>
    BY <1>5 DEF LookForVolume, AskVolume, Asking, disks
  <2>. QED BY <2>1, <2>2, <2>6, <2>7, <2>8, <2>9
<1>6. CASE LookForVolume(p)
  <2>. DEFINE place == FindVolume(node)
  <2>1. attached[node] # None /\ told[attached[node]] # None
    BY <1>5, <1>6 DEF ToldPlain
  <2>2. pc[p] = "find"
    BY <1>6 DEF LookForVolume
  <2>3. \/ place # None /\ GoOn(p, "volume", place)
        \/ place = None /\ GoOn(p, "raw", None)
        \/ Refused /\ GoOn(p, "raw", None)
    BY <1>5, <1>6, <2>1 DEF LookForVolume
  <2>4. CASE place # None /\ GoOn(p, "volume", place)
    <3>1. pc'[p] = "volume" /\ job'[p].device = place
      <4>. HIDE DEF place
      <4>1. pc'[p] = "volume" /\ job'[p] = [job[p] EXCEPT !.device = place]
        BY <1>1, <2>4 DEF GoOn, TypeOK
      <4>2. job[p] \in StatusJobs
        BY <1>1, <1>5, <1>6, ChecksJob
      <4>. QED BY <4>1, <4>2 DEF StatusJobs
    <3>2. place.node = node /\ VolumeAt(place) # None
      BY <1>1, <1>5, <1>6, <2>1, <2>4, FindVolumeOK
    <3>3. Containers(node)' = Containers(node)
      BY <1>5, <1>6 DEF Containers
    <3>. HIDE DEF place
    <3>4. VolumeAt(job[p].device)' # None
      BY <3>1, <3>2, <3>3 DEF VolumeAt
    <3>. QED BY <1>2, <3>1, <3>4
  <2>5. CASE place = None /\ GoOn(p, "raw", None)
    <3>1. pc'[p] = "raw"
      BY <1>1, <2>5 DEF GoOn, TypeOK
    <3>2. attached[node] \in wiped
      <4>1. VolumesOf(Layout[attached[node]]) # {}
        BY <1>1, <1>3, <1>5, <1>6, <2>1 DEF ToldOfVolumes
      <4>. QED BY <1>1, <1>5, <1>6, <2>1, <2>5, <4>1, FindVolumeOK
    <3>. QED BY <1>2, <1>5, <1>6, <3>1, <3>2
  <2>6. CASE Refused /\ GoOn(p, "raw", None)
    <3>1. pc'[p] = "raw"
      BY <1>1, <2>6 DEF GoOn, TypeOK
    <3>2. faults \in 0 .. MaxFaults
      BY <1>1 DEF TypeOK
    <3>3. faults' # faults
      BY <2>6, <3>2 DEF Refused
    <3>. QED BY <1>2, <2>2, <3>1, <3>3
  <2>. QED BY <2>3, <2>4, <2>5, <2>6
<1>7. CASE AskVolume(p)
  <2>. DEFINE v == VolumeAt(job[p].device)
  <2>1. told[attached[node]] # None /\ pc[p] = "volume"
    BY <1>5, <1>7 DEF ToldPlain, AskVolume
  <2>2. \/ Return(p, "encrypted")
        \/ GoOn(p, "raw", None) /\ (v = None \/ passphrase[v] = None)
        \/ GoOn(p, "raw", None) /\ Refused
    BY <1>7 DEF AskVolume
  <2>3. ~Return(p, "encrypted")
    BY <1>1 DEF Return, Checks, Checking, TypeOK
  <2>4. GoOn(p, "raw", None) => pc'[p] = "raw"
    BY <1>1 DEF GoOn, TypeOK
  <2>5. Refused => faults' # faults
    <3>1. faults \in 0 .. MaxFaults
      BY <1>1 DEF TypeOK
    <3>. QED BY <3>1 DEF Refused
  <2>6. GoOn(p, "raw", None) /\ (v = None \/ passphrase[v] = None)
    BY <1>2, <2>1, <2>2, <2>3, <2>4, <2>5
  <2>7. ASSUME attached[node] \notin wiped PROVE FALSE
    <3>1. v # None
      BY <1>1, <1>2, <1>3, <1>5, <1>7, <2>1, <2>7 DEF Doubtless
    <3>2. job[p].device.node = node
      BY <1>1, <1>5, <1>7, <2>1, ChecksJob DEF StatusOK
    <3>3. v \in VolumesOf(Layout[attached[node]])
      BY <1>1, <1>5, <1>7, <3>1, <3>2, VolumeOfDrive
    <3>. HIDE DEF v
    <3>4. passphrase[v] = told[attached[node]]
      BY <1>1, <1>3, <1>5, <1>7, <2>7, <3>3 DEF ToldIsTrue
    <3>. QED BY <2>1, <2>6, <3>1, <3>4
  <2>. QED BY <1>2, <1>5, <1>7, <2>4, <2>6, <2>7
<1>8. CASE pc'[p] \notin {"volume", "raw"}
  BY <1>2, <1>8
<1>. QED BY <1>3, <1>4, <1>6, <1>7, <1>8

LEMMA StatusInvariant == ASSUME OneVolume PROVE Spec => []StatusInv
<1>1. StatusInv /\ [Next]_vars => StatusInv'
  <2>. SUFFICES ASSUME StatusInv, [Next]_vars PROVE StatusInv'
    OBVIOUS
  <2>1. TruthInv'
    BY TruthStep DEF StatusInv
  <2>2. ASSUME NEW p \in Procs PROVE Doubtless(p)'
    <3>1. CASE UNCHANGED vars
      BY <3>1 DEF StatusInv, Doubtless, Checks, ToldPlain, VolumeAt, Containers, vars, disks, history
    <3>2. CASE Step /\ Doubts
      BY <3>2, DoubtlessStep
    <3>. QED BY <3>1, <3>2 DEF Next
  <2>. QED BY <2>1, <2>2 DEF StatusInv
<1>. QED BY InitSelect, <1>1, PTL DEF Spec

(* For drives with one volume, status calls a drive plain that was told to *)
(* have a passphrase all the time it ran only if the drive was pulled out  *)
(* or plugged in meanwhile, or one of its own diskutil calls failed; on    *)
(* the same condition (checkStatusDarwin: its errors, and the steps of     *)
(* other commands, between its calls).                                     *)
THEOREM StatusTellsTruth == ASSUME OneVolume PROVE Spec => StatusConfirms
<1>. DEFINE Confirms ==
       \A p \in Procs :
         (/\ pc[p] \in Checking
          /\ outcome'[p] = "plain"
          /\ ~swapped
          /\ attached[job[p].node] \notin wiped) => p \in doubt
<1>1. StatusInv /\ [Next]_vars => [Confirms]_vars
  <2>. SUFFICES ASSUME StatusInv, Next, NEW p \in Procs, pc[p] \in Checking,
                       outcome'[p] = "plain", ~swapped, attached[job[p].node] \notin wiped,
                       p \notin doubt
                PROVE  FALSE
    OBVIOUS
  <2>1. /\ SelectInv /\ TypeOK /\ Doubtless(p) /\ Checks(p)
    BY DEF StatusInv, TruthInv, SelectInv, Checks
  <2>2. outcome[p] = "none" /\ pc[p] \notin Working /\ pc[p] # "idle"
    BY <2>1, ChecksJob DEF StatusOK, Checks, Checking, Working
  <2>3. ReadRaw(p)
    <3>1. CASE Replug
      BY <2>2, <3>1 DEF Replug
    <3>2. ASSUME NEW q \in Procs, NEW command \in Commands \ {"status"}, NEW target \in Targets,
                 NEW passwords \in PasswordsFor(command), Select(q, command, target, passwords)
          PROVE  FALSE
      BY <2>1, <2>2, <3>2 DEF Select, Return, TypeOK
    <3>3. ASSUME NEW q \in Procs, NEW target \in Targets, CheckStatus(q, target) PROVE FALSE
      BY <2>1, <2>2, <3>3 DEF CheckStatus, Return, TypeOK
    <3>4. ASSUME NEW q \in Procs, ChooseVolume(q) PROVE FALSE
      BY <2>1, <2>2, <3>4 DEF ChooseVolume, Return, TypeOK
    <3>5. ASSUME NEW q \in Procs, OpenRaw(q) PROVE FALSE
      BY <2>1, <2>2, <3>5 DEF OpenRaw, Return, TypeOK
    <3>6. ASSUME NEW q \in Procs, RunTool(q) PROVE FALSE
      <4>1. \E o \in {"ok", "error"} : outcome' = [outcome EXCEPT ![q] = o] \/ outcome' = outcome
        BY <2>1, <3>6, RunToolCases DEF AfterError, Return, Failure
      <4>. QED BY <2>1, <2>2, <4>1 DEF TypeOK
    <3>7. ASSUME NEW q \in Procs, AskDisk(q) \/ LookForVolume(q) \/ AskVolume(q) PROVE FALSE
      <4>1. \E o \in {"not found", "encrypted"} :
              outcome' = [outcome EXCEPT ![q] = o] \/ outcome' = outcome
        BY <3>7 DEF AskDisk, LookForVolume, AskVolume, GoOn, Return
      <4>. QED BY <2>1, <2>2, <4>1 DEF TypeOK
    <3>8. ASSUME NEW q \in Procs, ReadRaw(q) PROVE q = p
      <4>1. \E o : outcome' = [outcome EXCEPT ![q] = o]
        BY <3>8 DEF ReadRaw, Return
      <4>. QED BY <2>1, <2>2, <4>1 DEF TypeOK
    <3>. QED BY <3>1, <3>2, <3>3, <3>4, <3>5, <3>6, <3>7, <3>8 DEF Next, Step
  <2>. QED BY <2>1, <2>3 DEF ReadRaw, Doubtless
<1>. QED BY <1>1, StatusInvariant, PTL DEF Spec, StatusConfirms

=============================================================================
