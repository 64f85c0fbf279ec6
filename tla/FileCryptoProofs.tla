-------------------------- MODULE FileCryptoProofs --------------------------
(***************************************************************************)
(* Proofs about FileCrypto, for any files, requests, processes and faults, *)
(* and that it implements FileStack.                                       *)
(***************************************************************************)
EXTENDS FileCryptoStack, FiniteSetTheorems, FunctionTheorems, SequenceTheorems,
        WellFoundedInduction, TLAPS

USE FileAssumption, NoPasswordAssumption

-----------------------------------------------------------------------------
(* Types, and that the files never run out: a command creates at most one. *)

Pending == {p \in Procs : pc[p] \in {"open", "header", "create"}}
InodesLeft ==
  /\ nextInode >= 1
  /\ IsFiniteSet(Pending)
  /\ nextInode + Cardinality(Pending) <= Cardinality(Files) + 1 + issued

Opened(p) ==
  /\ pc[p] \notin {"idle", "open"} => job[p].in \in Inodes
  /\ pc[p] \in {"stamp", "read", "write", "remove", "rename"} => job[p].out \in Inodes

FileTypeInv == TypeOK /\ InodesLeft /\ \A p \in Procs : Opened(p)

(* The process that moves, alone.                                          *)
Moves(p) == \A q \in Procs \ {p} : pc'[q] = pc[q] /\ job'[q] = job[q]

ProcTypes ==
  /\ pc \in [Procs -> Locations]
  /\ job \in [Procs -> Jobs \union {NoJob}]
  /\ outcome \in [Procs -> {"none", "ok", "error", "killed"}]

FsTypes ==
  /\ dir \in [Paths -> Inodes \union {NoInode}]
  /\ content \in [Inodes -> Seq(Items)]
  /\ nextInode \in Nat

CountTypes == issued \in 0 .. MaxCommands /\ nextSalt \in Nat \ {0} /\ faults \in 0 .. MaxFaults

Waits(p) == IF pc[p] \in {"open", "header", "create"} THEN 1 ELSE 0

LEMMA PendingMoves ==
  ASSUME InodesLeft, NEW p \in Procs, Moves(p)
  PROVE  /\ IsFiniteSet(Pending')
         /\ Cardinality(Pending) \in Nat
         /\ Cardinality(Pending') = Cardinality(Pending) + Waits(p)' - Waits(p)
<1>1. IsFiniteSet(Pending) /\ Cardinality(Pending) \in Nat
  BY FS_CardinalityType DEF InodesLeft
<1>2. p \in Pending <=> Waits(p) = 1
  BY DEF Pending, Waits
<1>3. CASE Waits(p)' = 1
  <2>1. Pending' = Pending \union {p}
    BY <1>3 DEF Pending, Moves, Waits
  <2>2. /\ IsFiniteSet(Pending')
        /\ Cardinality(Pending') =
             IF p \in Pending THEN Cardinality(Pending) ELSE Cardinality(Pending) + 1
    BY <1>1, <2>1, FS_AddElement
  <2>3. Waits(p) \in {0, 1}
    BY DEF Waits
  <2>. QED BY <1>1, <1>2, <1>3, <2>2, <2>3
<1>4. CASE Waits(p)' # 1
  <2>1. Pending' = Pending \ {p}
    BY <1>4 DEF Pending, Moves, Waits
  <2>2. /\ IsFiniteSet(Pending')
        /\ Cardinality(Pending') =
             IF p \in Pending THEN Cardinality(Pending) - 1 ELSE Cardinality(Pending)
    BY <1>1, <2>1, FS_RemoveElement
  <2>3. Waits(p) \in {0, 1} /\ Waits(p)' = 0
    BY <1>4 DEF Waits
  <2>. QED BY <1>1, <1>2, <2>2, <2>3
<1>. QED BY <1>3, <1>4

LEMMA FilesFinite == Cardinality(Files) \in Nat
BY FS_CardinalityType

(* The parts of the types.                                                 *)
LEMMA Types ==
  ASSUME FileTypeInv
  PROVE  ProcTypes /\ FsTypes /\ CountTypes /\ \A p \in Procs : job[p] = NoJob <=> pc[p] = "idle"
BY DEF FileTypeInv, TypeOK, ProcTypes, FsTypes, CountTypes

LEMMA JobType ==
  ASSUME FileTypeInv, NEW p \in Procs, pc[p] # "idle"
  PROVE  /\ job[p] \in Jobs
         /\ pc[p] # "open" => job[p].in \in Inodes /\ content[job[p].in] \in Seq(Items)
         /\ pc[p] \in {"stamp", "read", "write", "remove", "rename"} =>
              job[p].out \in Inodes /\ content[job[p].out] \in Seq(Items)
BY DEF FileTypeInv, TypeOK, Opened

LEMMA NoJobIsNone == NoJob \notin Jobs
BY DEF NoJob, Jobs, Ops

(* A step keeps the invariant if its own process does, and if it creates a *)
(* file only where it ends to wait for one.                                *)
LEMMA StepType ==
  ASSUME FileTypeInv, NEW p \in Procs, Moves(p), ProcTypes', FsTypes', CountTypes',
         Opened(p)', (job[p] = NoJob <=> pc[p] = "idle")',
         nextInode' + Waits(p)' + issued <= nextInode + Waits(p) + issued', nextInode' >= nextInode
  PROVE  FileTypeInv'
<1>1. TypeOK'
  BY DEF TypeOK, FileTypeInv, ProcTypes, FsTypes, CountTypes, Moves
<1>2. \A q \in Procs : Opened(q)'
  BY DEF Opened, FileTypeInv, Moves
<1>3. InodesLeft'
  <2>1. InodesLeft /\ nextInode \in Nat /\ nextInode' \in Nat /\ issued \in Nat /\ issued' \in Nat
    BY Types DEF FileTypeInv, FsTypes, CountTypes
  <2>2. /\ IsFiniteSet(Pending')
        /\ Cardinality(Pending) \in Nat
        /\ Cardinality(Pending') = Cardinality(Pending) + Waits(p)' - Waits(p)
    BY <2>1, PendingMoves
  <2>3. Waits(p) \in {0, 1} /\ Waits(p)' \in {0, 1}
    BY DEF Waits
  <2>4. nextInode + Cardinality(Pending) <= Cardinality(Files) + 1 + issued
    BY <2>1 DEF InodesLeft
  <2>5. nextInode' + Cardinality(Pending') <= Cardinality(Files) + 1 + issued'
    BY <2>1, <2>2, <2>3, <2>4, FilesFinite
  <2>6. nextInode' >= 1
    BY <2>1 DEF InodesLeft
  <2>. QED BY <2>2, <2>5, <2>6 DEF InodesLeft
<1>. QED BY <1>1, <1>2, <1>3 DEF FileTypeInv

(* The end of a command, however it ends.                                  *)
LEMMA ExitType ==
  ASSUME FileTypeInv, NEW p \in Procs, NEW result \in {"ok", "error", "killed"}, Exit(p, result),
         FsTypes', CountTypes', nextInode' = nextInode, issued' = issued
  PROVE  FileTypeInv'
<1>1. /\ pc' = [pc EXCEPT ![p] = "idle"] /\ job' = [job EXCEPT ![p] = NoJob]
      /\ outcome' = [outcome EXCEPT ![p] = result]
  BY DEF Exit, Goto
<1>2. ProcTypes
  BY Types
<1>3. ProcTypes'
  BY <1>1, <1>2 DEF ProcTypes, Locations
<1>4. Moves(p) /\ pc'[p] = "idle" /\ job'[p] = NoJob
  BY <1>1, <1>2 DEF Moves, ProcTypes
<1>5. nextInode \in Nat /\ issued \in Nat
  BY Types DEF FsTypes, CountTypes
<1>6. Opened(p)' /\ (job[p] = NoJob <=> pc[p] = "idle")'
  BY <1>4 DEF Opened
<1>7. Waits(p)' = 0 /\ Waits(p) \in {0, 1}
  BY <1>4 DEF Waits
<1>. QED BY <1>3, <1>4, <1>5, <1>6, <1>7, StepType

(* A step of a command that goes on.                                       *)
LEMMA GotoType ==
  ASSUME FileTypeInv, NEW p \in Procs, NEW to \in Locations, to # "idle", Goto(p, to),
         job' = [job EXCEPT ![p] = job'[p]], job'[p] \in Jobs,
         outcome' = [outcome EXCEPT ![p] = outcome'[p]], outcome'[p] \in {"none", outcome[p]},
         FsTypes', CountTypes', Opened(p)',
         nextInode' + Waits(p)' + issued <= nextInode + Waits(p) + issued', nextInode' >= nextInode
  PROVE  FileTypeInv'
<1>1. ProcTypes
  BY Types
<1>2. pc' = [pc EXCEPT ![p] = to]
  BY DEF Goto
<1>3. Moves(p) /\ pc'[p] = to
  BY <1>1, <1>2 DEF Moves, ProcTypes
<1>4. ProcTypes'
  BY <1>1, <1>2 DEF ProcTypes
<1>5. (job[p] = NoJob <=> pc[p] = "idle")'
  BY <1>3, NoJobIsNone
<1>. QED BY <1>3, <1>4, <1>5, StepType

-----------------------------------------------------------------------------
(* Items, and writes.                                                      *)

LEMMA ItemTypes ==
  /\ Hole \in Items
  /\ \A salt \in Nat : FileHeader(salt) \in Items
  /\ \A name \in Files, n \in Nat : Text(name, n) \in Items
BY EmptySeq DEF Hole, FileHeader, Text, Items, ZeroSalt

LEMMA ItemParts ==
  ASSUME NEW item \in Items
  PROVE  /\ item.kind \in {"text", "header", "hole"}
         /\ item.of[2] \in Nat
         /\ item.layers \in Seq(GCMLayers) /\ Len(item.layers) \in Nat
         /\ DOMAIN item = {"kind", "of", "layers"}
         /\ item = [kind |-> item.kind, of |-> item.of, layers |-> item.layers]
BY LenProperties DEF Items

LEMMA SealType ==
  ASSUME NEW item \in Items, NEW key \in Keys, NEW n \in Nat
  PROVE  /\ Seal(item, key, n) \in Items
         /\ Seal(item, key, n).kind = item.kind /\ Seal(item, key, n).of = item.of
         /\ Seal(item, key, n).layers = Append(item.layers, GCM(key, n))
<1>1. GCM(key, n) \in GCMLayers
  BY DEF GCM, GCMLayers
<1>2. Append(item.layers, GCM(key, n)) \in Seq(GCMLayers)
  BY <1>1, ItemParts, AppendProperties
<1>. QED BY <1>2, ItemParts DEF Seal, Items

LEMMA FrontIs ==
  ASSUME NEW S, NEW s \in Seq(S), s # <<>>
  PROVE  /\ Front(s) \in Seq(S) /\ Len(Front(s)) = Len(s) - 1
         /\ \A i \in 1 .. (Len(s) - 1) : Front(s)[i] = s[i]
         /\ Last(s) = s[Len(s)]
<1>1. Len(s) \in Nat \ {0} /\ \A i \in 1 .. (Len(s) - 1) : s[i] \in S
  BY EmptySeq, ElementOfSeq
<1>2. /\ SubSeq(s, 1, Len(s) - 1) \in Seq(S)
      /\ Len(SubSeq(s, 1, Len(s) - 1)) = Len(s) - 1
      /\ \A i \in 1 .. (Len(s) - 1) : SubSeq(s, 1, Len(s) - 1)[i] = s[i]
  <2>. DEFINE n == Len(s) - 1
  <2>1. n \in Nat /\ \A i \in 1 .. n : s[i] \in S
    BY <1>1
  <2>. HIDE DEF n
  <2>2. /\ SubSeq(s, 1, n) \in Seq(S)
        /\ Len(SubSeq(s, 1, n)) = IF 1 <= n THEN n - 1 + 1 ELSE 0
        /\ \A i \in 1 .. (n - 1 + 1) : SubSeq(s, 1, n)[i] = s[1 + i - 1]
    BY <2>1, SubSeqProperties
  <2>3. /\ SubSeq(s, 1, n) \in Seq(S)
        /\ Len(SubSeq(s, 1, n)) = n
        /\ \A i \in 1 .. n : SubSeq(s, 1, n)[i] = s[i]
    BY <2>1, <2>2
  <2>. QED BY <2>3 DEF n
<1>. QED BY <1>2 DEF Front, Last

LEMMA OpenType ==
  ASSUME NEW item \in Items, item.layers # <<>>
  PROVE  /\ Open(item) \in Items
         /\ Open(item).kind = item.kind /\ Open(item).of = item.of
         /\ Open(item).layers = Front(item.layers)
<1>1. Front(item.layers) \in Seq(GCMLayers)
  BY ItemParts, FrontIs
<1>. QED BY <1>1, ItemParts DEF Open, Items

LEMMA WriteAtType ==
  ASSUME NEW file \in Seq(Items), NEW pos \in Nat \ {0}, NEW item \in Items
  PROVE  WriteAt(file, pos, item) \in Seq(Items)
<1>. DEFINE n == IF pos > Len(file) THEN pos ELSE Len(file)
<1>1. n \in Nat /\ Len(file) \in Nat
  BY LenProperties
<1>2. ASSUME NEW i \in 1 .. n
      PROVE  (IF i = pos THEN item ELSE IF i <= Len(file) THEN file[i] ELSE Hole) \in Items
  BY ItemTypes, ElementOfSeq
<1>3. WriteAt(file, pos, item) \in [1 .. n -> Items]
  BY <1>2 DEF WriteAt
<1>. QED BY <1>1, <1>3, SeqDef

LEMMA JobUpdates ==
  ASSUME NEW j \in Jobs, NEW key \in Keys, NEW n \in Nat \ {0}
  PROVE  /\ [j EXCEPT !.key = key, !.inPos = n] \in Jobs
         /\ [j EXCEPT !.key = key, !.outPos = n] \in Jobs
         /\ \A m \in Nat \ {0} : [j EXCEPT !.inPos = n, !.outPos = m] \in Jobs
BY DEF Jobs

-----------------------------------------------------------------------------
(* Each action keeps the types.                                            *)

LEMMA ExitKeepsType ==
  ASSUME FileTypeInv, NEW p \in Procs, NEW result \in {"ok", "error", "killed"}, Exit(p, result),
         UNCHANGED <<fs, issued>>, CountTypes'
  PROVE  FileTypeInv'
<1>1. FsTypes'
  BY Types DEF fs, FsTypes
<1>. QED BY <1>1, ExitType DEF fs

LEMMA CountsStay ==
  ASSUME FileTypeInv, UNCHANGED <<issued, nextSalt>>,
         UNCHANGED faults \/ \E kind \in FaultKinds : Fault(kind)
  PROVE  CountTypes'
BY Types DEF CountTypes, Fault

LEMMA StartCommandType ==
  ASSUME FileTypeInv, NEW p \in Procs, NEW request \in Requests, NEW password \in Passwords,
         StartCommand(p, request, password)
  PROVE  FileTypeInv'
<1>1. /\ request.op \in Ops /\ request.input \in Names
      /\ request.output \in Names \union {InPlace}
  OBVIOUS
<1>. DEFINE j == [op |-> request.op, input |-> Path(request.input),
        output |-> IF request.output = InPlace THEN Temporary(request.op, request.input)
                   ELSE Path(request.output),
        inPlace |-> request.output = InPlace, password |-> password, key |-> ZeroKey,
        in |-> NoInode, out |-> NoInode, inPos |-> 1, outPos |-> 1,
        buf |-> Hole, given |-> <<>>]
<1>2. Path(request.input) \in Paths /\ Temporary(request.op, request.input) \in Paths
  BY <1>1 DEF Path, Temporary, Paths, TmpSuffixes
<1>3. request.output # InPlace => Path(request.output) \in Paths
  BY <1>1 DEF Path, Paths, TmpSuffixes
<1>4. ZeroKey \in Keys
  BY DEF ZeroKey, DeriveKey, Keys, ZeroSalt
<1>5. j \in Jobs
  BY <1>1, <1>2, <1>3, <1>4, ItemTypes, EmptySeq DEF Jobs, NoInode
<1>6. /\ pc[p] = "idle" /\ issued < MaxCommands /\ issued' = issued + 1
      /\ job' = [job EXCEPT ![p] = j]
      /\ outcome' = [outcome EXCEPT ![p] = "none"]
      /\ Goto(p, "open")
      /\ UNCHANGED <<fs, nextSalt, faults>>
  BY DEF StartCommand
<1>. HIDE DEF j
<1>7. ProcTypes /\ FsTypes' /\ CountTypes'
  BY <1>6, Types DEF fs, FsTypes, CountTypes
<1>8. /\ job'[p] = j /\ pc'[p] = "open" /\ outcome'[p] = "none"
      /\ nextInode' = nextInode /\ nextInode \in Nat /\ issued \in Nat
  BY <1>6, <1>7, Types DEF ProcTypes, Goto, fs, FsTypes, CountTypes
<1>9. Opened(p)' /\ Waits(p)' = 1 /\ Waits(p) = 0
  BY <1>6, <1>8 DEF Opened, Waits
<1>10. job' = [job EXCEPT ![p] = job'[p]] /\ outcome' = [outcome EXCEPT ![p] = outcome'[p]]
  BY <1>6, <1>8
<1>12. /\ nextInode' + Waits(p)' + issued <= nextInode + Waits(p) + issued'
       /\ nextInode' >= nextInode
  BY <1>6, <1>8, <1>9
<1>11. Goto(p, "open") /\ "open" \in Locations /\ job'[p] \in Jobs /\ outcome'[p] = "none"
  BY <1>5, <1>6, <1>8 DEF Locations
<1>. QED BY <1>7, <1>9, <1>10, <1>11, <1>12, GotoType

LEMMA GoesOnType ==
  ASSUME FileTypeInv, NEW p \in Procs, NEW to \in Locations, to # "idle", Goto(p, to),
         NEW j \in Jobs, job' = [job EXCEPT ![p] = j],
         UNCHANGED <<outcome, nextInode, issued>>, FsTypes', CountTypes', Opened(p)',
         to \in {"header", "create"} => pc[p] \in {"open", "header", "create"}, to # "open"
  PROVE  FileTypeInv'
<1>1. ProcTypes
  BY Types
<1>2. pc'[p] = to /\ job'[p] = j /\ outcome'[p] = outcome[p]
  BY <1>1 DEF Goto, ProcTypes
<1>3. job' = [job EXCEPT ![p] = job'[p]] /\ outcome' = [outcome EXCEPT ![p] = outcome'[p]]
  BY <1>1, <1>2 DEF ProcTypes
<1>4. nextInode \in Nat /\ issued \in Nat
  BY Types DEF FsTypes, CountTypes
<1>5. Waits(p)' = 1 => Waits(p) = 1
  BY <1>2 DEF Waits
<1>6. Waits(p) \in {0, 1} /\ Waits(p)' \in {0, 1}
  BY DEF Waits
<1>7. nextInode' + Waits(p)' + issued <= nextInode + Waits(p) + issued' /\ nextInode' >= nextInode
  BY <1>4, <1>5, <1>6
<1>. QED BY <1>2, <1>3, <1>7, GotoType

LEMMA OpenInputType ==
  ASSUME FileTypeInv, NEW p \in Procs, OpenInput(p)
  PROVE  FileTypeInv'
<1>. DEFINE inode == dir[job[p].input]
<1>1. pc[p] = "open" /\ UNCHANGED <<fs, issued, nextSalt, faults>>
  BY DEF OpenInput
<1>2. FsTypes' /\ CountTypes' /\ job[p] \in Jobs
  BY <1>1, Types, JobType DEF fs, FsTypes, CountTypes
<1>3. job[p].input \in Paths /\ job[p].op \in Ops
  BY <1>2 DEF Jobs
<1>4. inode \in Inodes \union {NoInode}
  BY <1>1, <1>3, Types DEF FsTypes
<1>5. CASE Exit(p, "error")
  BY <1>1, <1>2, <1>5, ExitKeepsType
<1>6. CASE /\ inode # NoInode
           /\ job' = [job EXCEPT ![p].in = inode, ![p].given = content[inode]]
           /\ Goto(p, IF job[p].op = "EncryptFile" THEN "create" ELSE "header")
           /\ UNCHANGED outcome
  <2>. DEFINE j == [job[p] EXCEPT !.in = inode, !.given = content[inode]]
              to == IF job[p].op = "EncryptFile" THEN "create" ELSE "header"
  <2>1. inode \in Inodes /\ content[inode] \in Seq(Items)
    BY <1>4, <1>6, Types DEF FsTypes
  <2>2. j \in Jobs /\ j.in = inode
    BY <1>2, <2>1 DEF Jobs
  <2>3. job' = [job EXCEPT ![p] = j]
    BY <1>6, Types DEF ProcTypes
  <2>4. to \in Locations /\ to \in {"create", "header"} /\ Goto(p, to)
    BY <1>6 DEF Locations
  <2>5. pc'[p] = to /\ job'[p] = j
    BY <2>3, <2>4, Types DEF Goto, ProcTypes
  <2>6. Opened(p)'
    BY <2>1, <2>2, <2>4, <2>5 DEF Opened
  <2>. HIDE DEF j, to
  <2>7. UNCHANGED <<outcome, nextInode, issued>>
    BY <1>1, <1>6 DEF fs
  <2>. QED BY <1>1, <1>2, <2>2, <2>3, <2>4, <2>6, <2>7, GoesOnType
<1>. QED BY <1>5, <1>6 DEF OpenInput

LEMMA ReadFileHeaderType ==
  ASSUME FileTypeInv, NEW p \in Procs, ReadFileHeader(p)
  PROVE  FileTypeInv'
<1>. DEFINE file == content[job[p].in]
<1>1. pc[p] = "header" /\ UNCHANGED <<fs, issued, nextSalt>>
  BY DEF ReadFileHeader
<1>2. FsTypes' /\ job[p] \in Jobs /\ job[p].in \in Inodes /\ file \in Seq(Items)
  BY <1>1, Types, JobType DEF fs, FsTypes
<1>3. CASE UNCHANGED faults \/ Fault("read")
  <2>1. CountTypes'
    BY <1>1, <1>3, CountsStay DEF Fault
  <2>2. CASE Exit(p, "error")
    BY <1>1, <2>1, <2>2, ExitKeepsType
  <2>3. CASE /\ file # <<>>
             /\ job' = [job EXCEPT ![p].key = DeriveKey(job[p].password, SaltOf(Head(file))),
                              ![p].inPos = 2]
             /\ Goto(p, "create")
             /\ UNCHANGED outcome
    <3>. DEFINE key == DeriveKey(job[p].password, SaltOf(Head(file)))
                j == [job[p] EXCEPT !.key = key, !.inPos = 2]
    <3>1. Head(file) \in Items
      BY <1>2, <2>3, HeadTailProperties
    <3>2. key \in Keys
      BY <1>2, <3>1, ItemParts DEF DeriveKey, Keys, SaltOf, Jobs
    <3>3. j \in Jobs /\ j.in = job[p].in
      <4>1. 2 \in Nat \ {0}
        OBVIOUS
      <4>2. j \in Jobs
        <5>. HIDE DEF key, file
        <5>. QED BY <1>2, <3>2, <4>1, JobUpdates
      <4>. QED BY <1>2, <4>2 DEF Jobs
    <3>4. job' = [job EXCEPT ![p] = j]
      BY <2>3, Types DEF ProcTypes
    <3>5. pc'[p] = "create" /\ job'[p] = j
      BY <2>3, <3>4, Types DEF Goto, ProcTypes
    <3>6. Opened(p)'
      BY <1>2, <3>3, <3>5 DEF Opened
    <3>. HIDE DEF j
    <3>7. UNCHANGED <<outcome, nextInode, issued>> /\ "create" \in Locations
      BY <1>1, <2>3 DEF fs, Locations
    <3>. QED BY <1>1, <1>2, <2>1, <2>3, <3>3, <3>4, <3>6, <3>7, GoesOnType
  <2>. QED BY <2>2, <2>3 DEF ReadFileHeader
<1>. QED BY <1>3 DEF ReadFileHeader

LEMMA CreateOutputType ==
  ASSUME FileTypeInv, NEW p \in Procs, CreateOutput(p)
  PROVE  FileTypeInv'
<1>. DEFINE existing == dir[job[p].output]
            inode == IF existing = NoInode THEN nextInode ELSE existing
<1>1. pc[p] = "create" /\ UNCHANGED <<issued, nextSalt>>
  BY DEF CreateOutput
<1>2. FsTypes /\ ProcTypes /\ job[p] \in Jobs /\ job[p].in \in Inodes
  BY <1>1, Types, JobType
<1>3. job[p].output \in Paths /\ existing \in Inodes \union {NoInode}
  BY <1>2 DEF Jobs, FsTypes
<1>4. CASE UNCHANGED faults \/ Fault("create")
  <2>1. CountTypes'
    BY <1>1, <1>4, CountsStay DEF Fault
  <2>2. CASE Exit(p, "error") /\ UNCHANGED fs
    BY <1>1, <2>1, <2>2, ExitKeepsType
  <2>3. CASE /\ dir' = [dir EXCEPT ![job[p].output] = inode]
             /\ content' = [content EXCEPT ![inode] = TruncatedOnCreate(@)]
             /\ nextInode' = IF existing = NoInode THEN nextInode + 1 ELSE nextInode
             /\ job' = [job EXCEPT ![p].out = inode]
             /\ Goto(p, IF job[p].op = "EncryptFile" THEN "stamp" ELSE "read")
             /\ UNCHANGED outcome
    <3>. DEFINE j == [job[p] EXCEPT !.out = inode]
                to == IF job[p].op = "EncryptFile" THEN "stamp" ELSE "read"
    <3>1. nextInode <= Cardinality(Files) + MaxCommands /\ nextInode >= 1
      <4>1. p \in Pending /\ InodesLeft
        BY <1>1 DEF Pending, FileTypeInv
      <4>2. Cardinality(Pending) >= 1 /\ Cardinality(Pending) \in Nat
        BY <4>1, FS_CardinalityType, FS_EmptySet DEF InodesLeft
      <4>3. issued \in 0 .. MaxCommands /\ nextInode \in Nat \ {0}
        BY <4>1, Types DEF CountTypes, FsTypes, InodesLeft
      <4>. QED BY <4>1, <4>2, <4>3, FilesFinite DEF InodesLeft
    <3>2. inode \in Inodes
      BY <1>2, <1>3, <3>1, FilesFinite DEF Inodes, FsTypes
    <3>3. dir' \in [Paths -> Inodes \union {NoInode}]
      BY <1>2, <1>3, <2>3, <3>2 DEF FsTypes
    <3>4. content' \in [Inodes -> Seq(Items)]
      BY <1>2, <2>3, <3>2, EmptySeq DEF FsTypes, TruncatedOnCreate
    <3>5. FsTypes' /\ nextInode' \in {nextInode, nextInode + 1}
      BY <1>2, <2>3, <3>3, <3>4 DEF FsTypes
    <3>6. j \in Jobs /\ j.in = job[p].in /\ j.out = inode
      BY <1>2, <3>2 DEF Jobs
    <3>7. job' = [job EXCEPT ![p] = j] /\ job' \in [Procs -> Jobs \union {NoJob}]
      BY <1>2, <2>3, <3>6 DEF ProcTypes
    <3>8. to \in Locations /\ to \in {"stamp", "read"} /\ pc' = [pc EXCEPT ![p] = to]
      BY <2>3 DEF Locations, Goto
    <3>. HIDE DEF j, to, inode
    <3>9. pc'[p] = to /\ job'[p] = j /\ Moves(p)
      BY <1>2, <3>7, <3>8 DEF ProcTypes, Moves
    <3>10. Opened(p)' /\ (job[p] = NoJob <=> pc[p] = "idle")'
      BY <1>2, <3>2, <3>6, <3>8, <3>9, NoJobIsNone DEF Opened
    <3>11. ProcTypes'
      BY <1>2, <2>3, <3>7, <3>8 DEF ProcTypes
    <3>12. nextInode' + Waits(p)' + issued <= nextInode + Waits(p) + issued' /\ nextInode' >= nextInode
      <4>1. Waits(p) = 1 /\ Waits(p)' = 0
        BY <1>1, <3>8, <3>9 DEF Waits
      <4>2. nextInode \in Nat /\ issued \in Nat /\ issued' = issued
        BY <1>1, <1>2, Types DEF FsTypes, CountTypes
      <4>3. nextInode' = nextInode \/ nextInode' = nextInode + 1
        BY <3>5
      <4>. HIDE DEF existing
      <4>. QED BY <4>1, <4>2, <4>3
    <3>. QED BY <2>1, <3>5, <3>9, <3>10, <3>11, <3>12, StepType
  <2>. QED BY <2>2, <2>3 DEF CreateOutput
<1>. QED BY <1>4 DEF CreateOutput

(* A write through a command's output.                                     *)
LEMMA WriteKeepsFs ==
  ASSUME FileTypeInv, NEW p \in Procs, job[p].out \in Inodes, NEW pos \in Nat \ {0},
         NEW item \in Items, content' = [content EXCEPT ![job[p].out] = WriteAt(@, pos, item)],
         UNCHANGED <<dir, nextInode>>
  PROVE  FsTypes'
<1>1. FsTypes
  BY Types
<1>2. content[job[p].out] \in Seq(Items)
  BY <1>1 DEF FsTypes
<1>3. WriteAt(content[job[p].out], pos, item) \in Seq(Items)
  BY <1>2, WriteAtType
<1>. QED BY <1>1, <1>3 DEF FsTypes

LEMMA WriteFileHeaderType ==
  ASSUME FileTypeInv, NEW p \in Procs, WriteFileHeader(p)
  PROVE  FileTypeInv'
<1>1. pc[p] = "stamp" /\ nextSalt' = nextSalt + 1 /\ UNCHANGED issued
  BY DEF WriteFileHeader
<1>2. job[p] \in Jobs /\ job[p].in \in Inodes /\ job[p].out \in Inodes
  BY <1>1, JobType
<1>3. nextSalt \in Nat /\ ProcTypes
  BY Types DEF CountTypes
<1>4. CASE UNCHANGED faults \/ Fault("write")
  <2>1. CountTypes'
    BY <1>1, <1>4, Types DEF CountTypes, Fault
  <2>2. CASE Exit(p, "error") /\ UNCHANGED fs
    BY <1>1, <2>1, <2>2, ExitKeepsType
  <2>3. CASE /\ content' = [content EXCEPT ![job[p].out] = WriteAt(@, 1, FileHeader(nextSalt))]
             /\ job' = [job EXCEPT ![p].key = DeriveKey(job[p].password, nextSalt),
                                   ![p].outPos = 2]
             /\ Goto(p, "read")
             /\ UNCHANGED <<dir, nextInode, outcome>>
    <3>. DEFINE key == DeriveKey(job[p].password, nextSalt)
                j == [job[p] EXCEPT !.key = key, !.outPos = 2]
    <3>1. key \in Keys
      BY <1>2, <1>3 DEF DeriveKey, Keys, Jobs
    <3>2. j \in Jobs /\ j.in = job[p].in /\ j.out = job[p].out
      <4>1. 2 \in Nat \ {0}
        OBVIOUS
      <4>2. j \in Jobs
        <5>. HIDE DEF key
        <5>. QED BY <1>2, <3>1, <4>1, JobUpdates
      <4>. QED BY <1>2, <4>2 DEF Jobs
    <3>3. job' = [job EXCEPT ![p] = j]
      BY <1>3, <2>3 DEF ProcTypes
    <3>. HIDE DEF j
    <3>4. pc'[p] = "read" /\ job'[p] = j
      BY <1>3, <2>3, <3>3 DEF Goto, ProcTypes
    <3>5. Opened(p)'
      BY <1>2, <3>2, <3>4 DEF Opened
    <3>6. FileHeader(nextSalt) \in Items
      BY <1>3, ItemTypes
    <3>7. FsTypes'
      <4>1. 1 \in Nat \ {0}
        OBVIOUS
      <4>. QED BY <1>2, <2>3, <3>6, <4>1, WriteKeepsFs
    <3>. QED BY <1>1, <2>1, <2>3, <3>2, <3>3, <3>5, <3>7, GoesOnType DEF Locations
  <2>. QED BY <2>2, <2>3 DEF WriteFileHeader
<1>. QED BY <1>4 DEF WriteFileHeader

LEMMA ReadChunkType ==
  ASSUME FileTypeInv, NEW p \in Procs, ReadChunk(p)
  PROVE  FileTypeInv'
<1>. DEFINE item == content[job[p].in][job[p].inPos]
            n == ChunkNum(job[p])
<1>1. pc[p] = "read" /\ UNCHANGED <<fs, issued, nextSalt>> /\ ~AtEnd(job[p])
  BY DEF ReadChunk
<1>2. /\ job[p] \in Jobs /\ job[p].in \in Inodes /\ job[p].out \in Inodes
      /\ content[job[p].in] \in Seq(Items)
  BY <1>1, JobType
<1>3. ProcTypes /\ FsTypes'
  BY <1>1, Types DEF fs, FsTypes
<1>4. job[p].inPos \in Nat \ {0} /\ job[p].key \in Keys /\ job[p].op \in Ops
  BY <1>2 DEF Jobs
<1>5. item \in Items
  BY <1>1, <1>2, <1>4, LenProperties, ElementOfSeq DEF AtEnd
<1>6. CASE UNCHANGED faults \/ Fault("read")
  <2>1. CountTypes'
    BY <1>1, <1>6, CountsStay DEF Fault
  <2>2. CASE Exit(p, "error")
    BY <1>1, <2>1, <2>2, ExitKeepsType
  <2>3. CASE /\ ~Refused(job[p], item)
             /\ job' = [job EXCEPT ![p].buf = IF job[p].op = "EncryptFile"
                          THEN Seal(item, job[p].key, n) ELSE Open(item)]
             /\ Goto(p, "write")
             /\ UNCHANGED outcome
    <3>. DEFINE buf == IF job[p].op = "EncryptFile" THEN Seal(item, job[p].key, n) ELSE Open(item)
                j == [job[p] EXCEPT !.buf = buf]
    <3>1. buf \in Items
      <4>1. CASE job[p].op = "EncryptFile"
        <5>1. n \in Nat
          BY <1>4, <4>1 DEF ChunkNum
        <5>. HIDE DEF item, n
        <5>. QED BY <1>4, <1>5, <4>1, <5>1, SealType
      <4>2. CASE job[p].op = "DecryptFile"
        <5>1. item.layers # <<>>
          BY <2>3, <4>2 DEF Refused, Authentic
        <5>. HIDE DEF item
        <5>. QED BY <1>5, <4>2, <5>1, OpenType
      <4>. QED BY <1>4, <4>1, <4>2 DEF Ops
    <3>2. j \in Jobs /\ j.in = job[p].in /\ j.out = job[p].out
      <4>. HIDE DEF buf
      <4>. QED BY <1>2, <3>1 DEF Jobs
    <3>3. job' = [job EXCEPT ![p] = j]
      BY <1>3, <2>3 DEF ProcTypes
    <3>. HIDE DEF j
    <3>4. pc'[p] = "write" /\ job'[p] = j
      BY <1>3, <2>3, <3>3 DEF Goto, ProcTypes
    <3>5. Opened(p)'
      BY <1>2, <3>2, <3>4 DEF Opened
    <3>. QED BY <1>1, <1>3, <2>1, <2>3, <3>2, <3>3, <3>5, GoesOnType DEF Locations, fs
  <2>. QED BY <2>2, <2>3 DEF ReadChunk
<1>. QED BY <1>6 DEF ReadChunk

LEMMA WriteChunkType ==
  ASSUME FileTypeInv, NEW p \in Procs, WriteChunk(p)
  PROVE  FileTypeInv'
<1>1. pc[p] = "write" /\ UNCHANGED <<issued, nextSalt>>
  BY DEF WriteChunk
<1>2. job[p] \in Jobs /\ job[p].in \in Inodes /\ job[p].out \in Inodes /\ ProcTypes
  BY <1>1, JobType, Types
<1>3. /\ job[p].inPos \in Nat \ {0} /\ job[p].outPos \in Nat \ {0}
      /\ job[p].inPos + 1 \in Nat \ {0} /\ job[p].outPos + 1 \in Nat \ {0}
      /\ job[p].buf \in Items
  BY <1>2 DEF Jobs
<1>4. CASE UNCHANGED faults \/ Fault("write")
  <2>1. CountTypes'
    BY <1>1, <1>4, CountsStay DEF Fault
  <2>2. CASE Exit(p, "error") /\ UNCHANGED fs
    BY <1>1, <2>1, <2>2, ExitKeepsType
  <2>3. CASE /\ content' = [content EXCEPT ![job[p].out] = WriteAt(@, job[p].outPos, job[p].buf)]
             /\ job' = [job EXCEPT ![p].inPos = job[p].inPos + 1, ![p].outPos = job[p].outPos + 1]
             /\ Goto(p, "read")
             /\ UNCHANGED <<dir, nextInode, outcome>>
    <3>. DEFINE j == [job[p] EXCEPT !.inPos = job[p].inPos + 1, !.outPos = job[p].outPos + 1]
    <3>1. j \in Jobs
      <4>1. job[p].key \in Keys
        BY <1>2 DEF Jobs
      <4>. QED BY <1>2, <1>3, <4>1, JobUpdates
    <3>2. j.in = job[p].in /\ j.out = job[p].out
      BY <1>2 DEF Jobs
    <3>3. job' = [job EXCEPT ![p] = j]
      BY <1>2, <2>3 DEF ProcTypes
    <3>. HIDE DEF j
    <3>4. pc'[p] = "read" /\ job'[p] = j
      BY <1>2, <2>3, <3>3 DEF Goto, ProcTypes
    <3>5. Opened(p)'
      BY <1>2, <3>2, <3>4 DEF Opened
    <3>6. FsTypes'
      BY <1>2, <1>3, <2>3, WriteKeepsFs
    <3>. QED BY <1>1, <2>1, <2>3, <3>1, <3>3, <3>5, <3>6, GoesOnType DEF Locations
  <2>. QED BY <2>2, <2>3 DEF WriteChunk
<1>. QED BY <1>4 DEF WriteChunk

LEMMA EndOfInputType ==
  ASSUME FileTypeInv, NEW p \in Procs, EndOfInput(p)
  PROVE  FileTypeInv'
<1>1. pc[p] = "read" /\ UNCHANGED <<fs, issued, nextSalt, faults>>
  BY DEF EndOfInput
<1>2. job[p] \in Jobs /\ job[p].in \in Inodes /\ job[p].out \in Inodes /\ ProcTypes
  BY <1>1, JobType, Types
<1>3. FsTypes' /\ CountTypes'
  BY <1>1, Types DEF fs, FsTypes, CountTypes
<1>4. CASE Exit(p, "ok")
  BY <1>1, <1>3, <1>4, ExitKeepsType
<1>5. CASE Goto(p, "remove") /\ UNCHANGED <<job, outcome>>
  <2>1. job' = [job EXCEPT ![p] = job[p]]
    BY <1>2, <1>5 DEF ProcTypes
  <2>2. Opened(p)'
    BY <1>2, <1>5 DEF Opened
  <2>. QED BY <1>1, <1>2, <1>3, <1>5, <2>1, <2>2, GoesOnType DEF Locations, fs
<1>. QED BY <1>4, <1>5 DEF EndOfInput

LEMMA RemoveInputType ==
  ASSUME FileTypeInv, NEW p \in Procs, RemoveInput(p)
  PROVE  FileTypeInv'
<1>1. /\ pc[p] = "remove" /\ Goto(p, "rename")
      /\ UNCHANGED <<content, nextInode, job, outcome, issued, nextSalt>>
  BY DEF RemoveInput
<1>2. job[p] \in Jobs /\ job[p].in \in Inodes /\ job[p].out \in Inodes /\ ProcTypes /\ FsTypes
  BY <1>1, JobType, Types
<1>3. FsTypes'
  BY <1>1, <1>2 DEF RemoveInput, FsTypes
<1>4. CountTypes'
  BY <1>1, CountsStay DEF RemoveInput, Fault
<1>5. job' = [job EXCEPT ![p] = job[p]]
  BY <1>1, <1>2 DEF ProcTypes
<1>6. Opened(p)'
  BY <1>1, <1>2 DEF Opened
<1>. QED BY <1>1, <1>2, <1>3, <1>4, <1>5, <1>6, GoesOnType DEF Locations

LEMMA RenameOutputType ==
  ASSUME FileTypeInv, NEW p \in Procs, RenameOutput(p)
  PROVE  FileTypeInv'
<1>1. pc[p] = "rename" /\ UNCHANGED <<content, nextInode, issued, nextSalt>>
  BY DEF RenameOutput
<1>2. PICK result \in {"ok", "error"} : Exit(p, result)
  BY DEF RenameOutput
<1>3. job[p] \in Jobs /\ FsTypes
  BY <1>1, JobType, Types
<1>4. job[p].output \in Paths
  BY <1>3 DEF Jobs
<1>5. dir[job[p].output] \in Inodes \union {NoInode}
  BY <1>3, <1>4 DEF FsTypes
<1>6. FsTypes'
  BY <1>1, <1>3, <1>5 DEF RenameOutput, FsTypes
<1>7. CountTypes'
  BY <1>1, CountsStay DEF RenameOutput, Fault
<1>. QED BY <1>1, <1>2, <1>6, <1>7, ExitType

LEMMA KillType ==
  ASSUME FileTypeInv, NEW p \in Procs, Kill(p)
  PROVE  FileTypeInv'
<1>1. Exit(p, "killed") /\ UNCHANGED <<fs, issued, nextSalt>> /\ Fault("kill")
  BY DEF Kill
<1>2. CountTypes'
  BY <1>1, CountsStay DEF Fault
<1>. QED BY <1>1, <1>2, ExitKeepsType

-----------------------------------------------------------------------------
(* The files that exist at first.                                          *)

LEMMA OrderOfFiles ==
  /\ SetToSeq(Files) \in [1 .. Cardinality(Files) -> Files]
  /\ \A i, k \in 1 .. Cardinality(Files) : SetToSeq(Files)[i] = SetToSeq(Files)[k] => i = k
  /\ \A name \in Files : \E i \in 1 .. Cardinality(Files) : SetToSeq(Files)[i] = name
<1>. DEFINE N == 1 .. Cardinality(Files)
<1>1. ExistsBijection(N, Files)
  BY FS_CardinalityType
<1>2. PICK f \in [N -> Files] : /\ \A i, k \in N : f[i] = f[k] => i = k
                                /\ \A name \in Files : \E i \in N : f[i] = name
  BY <1>1 DEF ExistsBijection, Bijection, Injection, Surjection, IsInjective
<1>3. \E g \in [N -> Files] : IsInjective(g)
  BY <1>2 DEF IsInjective
<1>4. SetToSeq(Files) \in [N -> Files] /\ IsInjective(SetToSeq(Files))
  BY <1>3 DEF SetToSeq
<1>. DEFINE order == SetToSeq(Files)
<1>5. order \in Injection(N, Files)
  BY <1>4 DEF Injection
<1>6. Cardinality(N) = Cardinality(Files)
  BY FilesFinite, FS_Interval
<1>7. order \in Surjection(N, Files)
  BY <1>5, <1>6, FS_Injection
<1>. HIDE DEF order, N
<1>8. /\ order \in [N -> Files] /\ \A i, k \in N : order[i] = order[k] => i = k
      /\ \A name \in Files : \E i \in N : order[i] = name
  BY <1>5, <1>7, Fun_InjectionProperties, Fun_SurjectionProperties
<1>. QED BY <1>8 DEF order, N

(* The path of a user file leads to a file with its text, others nowhere.  *)
LEMMA FirstFiles ==
  ASSUME Init
  PROVE  /\ dir \in [Paths -> 0 .. Cardinality(Files)]
         /\ \A name \in Files : dir[Path(name)] # NoInode
         /\ \A path \in Paths : dir[path] # NoInode =>
              \E name \in Files : path = Path(name) /\ content[dir[path]] = Original(name)
         /\ \A a, b \in Paths : dir[a] = dir[b] /\ dir[a] # NoInode => a = b
         /\ nextInode = Cardinality(Files) + 1
         /\ content \in [Inodes -> {Original(name) : name \in Files} \union {<<>>}]
<1>. DEFINE order == SetToSeq(Files)
            N == 1 .. Cardinality(Files)
            Leads(path, i) == i \in N /\ path = Path(order[i])
<1>1. /\ DOMAIN order = N
      /\ \A i \in N : order[i] \in Files
      /\ \A i, k \in N : order[i] = order[k] => i = k
      /\ \A name \in Files : \E i \in N : order[i] = name
  BY OrderOfFiles
<1>2. Len(order) = Cardinality(Files)
  BY OrderOfFiles, FilesFinite
<1>3. /\ dir = [path \in Paths |->
              IF \E i \in DOMAIN order : path = Path(order[i])
              THEN CHOOSE i \in DOMAIN order : path = Path(order[i])
              ELSE NoInode]
      /\ content = [i \in Inodes |-> IF i \in DOMAIN order THEN Original(order[i]) ELSE <<>>]
      /\ nextInode = Cardinality(Files) + 1
  BY <1>2 DEF Init
<1>. HIDE DEF order
<1>4. N \subseteq Inodes /\ N \subseteq Nat /\ ~(NoInode \in N) /\ N \subseteq 0 .. Cardinality(Files)
      /\ NoInode \in 0 .. Cardinality(Files)
  BY FilesFinite DEF Inodes, NoInode
<1>. HIDE DEF N
<1>5. ASSUME NEW path \in Paths
      PROVE  (dir[path] = NoInode /\ ~ \E i \in N : path = Path(order[i]))
               \/ (dir[path] \in N /\ path = Path(order[dir[path]]))
  BY <1>1, <1>3
<1>6. \A name \in Files : Path(name) \in Paths
  BY DEF Path, Paths, Names, TmpSuffixes
<1>7. ASSUME NEW name \in Files PROVE dir[Path(name)] # NoInode
  BY <1>1, <1>4, <1>5, <1>6, <1>7
<1>8. ASSUME NEW path \in Paths, dir[path] # NoInode
      PROVE \E name \in Files : path = Path(name) /\ content[dir[path]] = Original(name)
  <2>1. dir[path] \in N /\ path = Path(order[dir[path]]) /\ order[dir[path]] \in Files
    BY <1>1, <1>5, <1>8
  <2>2. content[dir[path]] = Original(order[dir[path]])
    BY <1>1, <1>3, <1>4, <2>1
  <2>. QED BY <2>1, <2>2
<1>9. dir \in [Paths -> 0 .. Cardinality(Files)]
  BY <1>3, <1>4, <1>5
<1>10. \A a, b \in Paths : dir[a] = dir[b] /\ dir[a] # NoInode => a = b
  BY <1>5
<1>11. content \in [Inodes -> {Original(name) : name \in Files} \union {<<>>}]
  BY <1>1, <1>3
<1>. QED BY <1>3, <1>7, <1>8, <1>9, <1>10, <1>11

LEMMA InitType == Init => FileTypeInv
<1>. SUFFICES ASSUME Init PROVE FileTypeInv
  OBVIOUS
<1>1. ASSUME NEW name \in Files PROVE Original(name) \in Seq(Items)
  <2>1. \A n \in 1 .. NumChunks : Text(name, n) \in Items
    BY <1>1, ItemTypes
  <2>2. Original(name) \in [1 .. NumChunks -> Items]
    BY <2>1 DEF Original
  <2>. QED BY <2>2, SeqDef
<1>2. content \in [Inodes -> Seq(Items)]
  <2>. DEFINE Texts == {Original(name) : name \in Files} \union {<<>>}
  <2>1. Texts \subseteq Seq(Items)
    BY <1>1, EmptySeq
  <2>2. content \in [Inodes -> Texts]
    BY FirstFiles
  <2>. HIDE DEF Texts
  <2>. QED BY <2>1, <2>2
<1>3. dir \in [Paths -> Inodes \union {NoInode}]
  BY FirstFiles, FilesFinite DEF Inodes, NoInode
<1>4. nextInode \in Nat /\ nextInode = Cardinality(Files) + 1
  BY FirstFiles, FilesFinite
<1>5. /\ pc \in [Procs -> Locations]
      /\ job \in [Procs -> Jobs \union {NoJob}]
      /\ outcome \in [Procs -> {"none", "ok", "error", "killed"}]
      /\ issued = 0 /\ nextSalt = 1 /\ faults = 0
      /\ \A p \in Procs : pc[p] = "idle" /\ job[p] = NoJob
  BY DEF Init, Locations
<1>6. TypeOK
  BY <1>2, <1>3, <1>4, <1>5 DEF TypeOK
<1>7. InodesLeft
  <2>1. Pending = {}
    BY <1>5 DEF Pending
  <2>. QED BY <1>4, <1>5, <2>1, FS_EmptySet, FilesFinite DEF InodesLeft
<1>. QED BY <1>5, <1>6, <1>7 DEF FileTypeInv, Opened

LEMMA NextType ==
  ASSUME FileTypeInv, [Next]_vars
  PROVE  FileTypeInv'
<1>1. CASE UNCHANGED vars
  BY <1>1 DEF vars, fs, FileTypeInv, TypeOK, InodesLeft, Pending, Opened
<1>2. ASSUME NEW p \in Procs, NEW request \in Requests, NEW password \in Passwords,
             StartCommand(p, request, password)
      PROVE  FileTypeInv'
  BY <1>2, StartCommandType
<1>3. ASSUME NEW p \in Procs, Proceed(p)
      PROVE  FileTypeInv'
  BY <1>3, OpenInputType, ReadFileHeaderType, CreateOutputType, WriteFileHeaderType, ReadChunkType,
     WriteChunkType, EndOfInputType, RemoveInputType, RenameOutputType DEF Proceed
<1>4. ASSUME NEW p \in Procs, Kill(p)
      PROVE  FileTypeInv'
  BY <1>4, KillType
<1>. QED BY <1>1, <1>2, <1>3, <1>4 DEF Next

LEMMA TypeInductive == Spec => []FileTypeInv
BY InitType, NextType, PTL DEF Spec

(* Every reachable state is of the declared types, for any files,          *)
(* requests, processes and faults; in particular a command never lacks a   *)
(* file to create, nor reads past the end of one. (EncryptFile,            *)
(* DecryptFile and their handlers.)                                        *)
THEOREM FileTypeCorrect == Spec => []TypeOK
<1>1. FileTypeInv => TypeOK
  BY DEF FileTypeInv
<1>. QED BY <1>1, TypeInductive, PTL

-----------------------------------------------------------------------------
(* Commands that keep off each other's names, and never read and write one *)
(* name.                                                                   *)
Orderly ==
  /\ ~Overlapping
  /\ \A r \in Requests : r.output # InPlace => r.output # r.input

Named(p) == {job[p].input[1], job[p].output[1]}

(* No two paths are one file, and a new file is under no path.             *)
Unlinked ==
  /\ \A a, b \in Paths : dir[a] = dir[b] /\ dir[a] # NoInode => a = b
  /\ \A a \in Paths : dir[a] < nextInode

Shape(p) ==
  /\ job[p].input = Path(job[p].input[1])
  /\ job[p].output # job[p].input
  /\ job[p].inPlace => job[p].output = Temporary(job[p].op, job[p].input[1])
  /\ ~job[p].inPlace => job[p].output = Path(job[p].output[1])
  /\ pc[p] \in {"remove", "rename"} => job[p].inPlace

(* The files a command has open are those under its paths, and what it     *)
(* reads is as it found it.                                                *)
Holds(p) ==
  /\ pc[p] \in {"header", "create", "stamp", "read", "write", "remove"} =>
       dir[job[p].input] = job[p].in /\ content[job[p].in] = job[p].given
  /\ pc[p] \in {"stamp", "read", "write", "remove", "rename"} => dir[job[p].output] = job[p].out
  /\ pc[p] = "rename" /\ dir[job[p].input] # NoInode =>
       dir[job[p].input] = job[p].in /\ content[job[p].in] = job[p].given

(* The encryption of a text, and the decryption of a file, so far.         *)
SealedSoFar(made, text, key, n) ==
  /\ Len(made) = n
  /\ made # <<>> /\ IsHeader(made[1])
  /\ \A i \in 2 .. n : made[i] = Seal(text[i - 1], key, i - 2)

OpenedSoFar(made, sealed, key, n) ==
  /\ Len(made) = n
  /\ \A i \in 1 .. n : Authentic(sealed[i + 1], key, i - 1) /\ made[i] = Open(sealed[i + 1])

KeyOf(file, password) == DeriveKey(password, SaltOf(file[1]))

Written(j) == content[j.out]

EncryptsAs(p) ==
  LET j == job[p] IN
  /\ pc[p] = "create" => j.inPos = 1
  /\ pc[p] = "stamp" => j.inPos = 1 /\ Written(j) = <<>>
  /\ pc[p] \in {"read", "write"} =>
       /\ j.inPos <= Len(j.given) + 1
       /\ j.outPos = j.inPos + 1
       /\ SealedSoFar(Written(j), j.given, j.key, j.inPos)
       /\ j.key = KeyOf(Written(j), j.password)
  /\ pc[p] = "write" =>
       /\ j.inPos <= Len(j.given)
       /\ j.buf = Seal(j.given[j.inPos], j.key, j.inPos - 1)

DecryptsAs(p) ==
  LET j == job[p] IN
  /\ pc[p] \in {"create", "read", "write"} =>
       /\ j.given # <<>> /\ IsHeader(j.given[1])
       /\ j.key = KeyOf(j.given, j.password)
  /\ pc[p] = "create" => j.inPos = 2 /\ j.outPos = 1
  /\ pc[p] \in {"read", "write"} =>
       /\ j.inPos \in 2 .. (Len(j.given) + 1)
       /\ j.outPos = j.inPos - 1
       /\ OpenedSoFar(Written(j), j.given, j.key, j.inPos - 2)
  /\ pc[p] = "write" =>
       /\ j.inPos <= Len(j.given)
       /\ Authentic(j.given[j.inPos], j.key, j.inPos - 2)
       /\ j.buf = Open(j.given[j.inPos])

(* What a finished command leaves.                                         *)
EncryptionOf(sealed, text, password) ==
  Decryptable(sealed, password) /\ Decrypted(sealed) = text

Faithful(j) ==
  IF j.op = "EncryptFile" THEN EncryptionOf(Written(j), j.given, j.password)
  ELSE EncryptionOf(j.given, Written(j), j.password)

Working(p) ==
  /\ Shape(p)
  /\ Holds(p)
  /\ job[p].op = "EncryptFile" => EncryptsAs(p) /\ pc[p] # "header"
  /\ job[p].op = "DecryptFile" => DecryptsAs(p) /\ pc[p] # "stamp"
  /\ pc[p] \in {"open", "header"} => job[p].inPos = 1 /\ job[p].outPos = 1
  /\ job[p].op = "EncryptFile" /\ pc[p] \in {"create", "stamp"} => job[p].outPos = 1
  /\ pc[p] \in {"remove", "rename"} => Faithful(job[p])

Apart(p, q) ==
  p # q /\ pc[p] # "idle" /\ pc[q] # "idle" => Named(p) \cap Named(q) = {}

FaithInv ==
  /\ Unlinked
  /\ \A p, q \in Procs : Apart(p, q)
  /\ \A p \in Procs : pc[p] # "idle" => Working(p)

-----------------------------------------------------------------------------
(* What the step of one command leaves alone.                              *)

Touches(q) ==
  \A a \in Paths : a[1] \notin Named(q) =>
    dir'[a] = dir[a] /\ (dir[a] # NoInode => content'[dir[a]] = content[dir[a]])

(* A step that writes, creates or truncates nothing but the output.        *)
Spares(q) ==
  \A a \in Paths : a # job[q].output =>
    dir'[a] = dir[a] /\ (dir[a] # NoInode => content'[dir[a]] = content[dir[a]])

LEMMA SameWorking ==
  ASSUME NEW p \in Procs, Working(p), pc'[p] = pc[p], job'[p] = job[p],
         dir'[job[p].input] = dir[job[p].input], dir'[job[p].output] = dir[job[p].output],
         pc[p] \in {"header", "create", "stamp", "read", "write", "remove"} =>
           content'[job[p].in] = content[job[p].in],
         pc[p] = "rename" /\ dir[job[p].input] # NoInode => content'[job[p].in] = content[job[p].in],
         pc[p] \in {"stamp", "read", "write", "remove", "rename"} =>
           content'[job[p].out] = content[job[p].out]
  PROVE  Working(p)'
<1>1. Shape(p)' /\ Holds(p)'
  BY DEF Working, Shape, Holds
<1>2. job[p].op = "EncryptFile" => EncryptsAs(p)'
  BY DEF Working, EncryptsAs, Written
<1>3. job[p].op = "DecryptFile" => DecryptsAs(p)'
  BY DEF Working, DecryptsAs, Written
<1>4. pc[p] \in {"remove", "rename"} => Faithful(job[p])'
  BY DEF Working, Faithful, Written
<1>. QED BY <1>1, <1>2, <1>3, <1>4 DEF Working

(* A command's paths, and the files it has open there.                     *)
LEMMA HeldFiles ==
  ASSUME FileTypeInv, NEW p \in Procs, pc[p] # "idle", Working(p)
  PROVE  /\ job[p] \in Jobs
         /\ job[p].input \in Paths /\ job[p].output \in Paths
         /\ job[p].input[1] \in Named(p) /\ job[p].output[1] \in Named(p)
         /\ job[p].input # job[p].output
         /\ pc[p] \in {"header", "create", "stamp", "read", "write", "remove"} =>
              dir[job[p].input] = job[p].in /\ job[p].in # NoInode /\ job[p].in \in Inodes
         /\ pc[p] \in {"stamp", "read", "write", "remove", "rename"} =>
              dir[job[p].output] = job[p].out /\ job[p].out # NoInode /\ job[p].out \in Inodes
         /\ pc[p] = "rename" /\ dir[job[p].input] # NoInode =>
              dir[job[p].input] = job[p].in /\ job[p].in \in Inodes
<1>1. job[p] \in Jobs
  BY JobType
<1>2. ~(NoInode \in Inodes)
  BY DEF NoInode, Inodes
<1>. QED BY <1>1, <1>2, JobType DEF Jobs, Working, Holds, Shape, Named

LEMMA OthersWork ==
  ASSUME FileTypeInv, FaithInv, NEW p \in Procs, NEW q \in Procs, p # q,
         pc[p] # "idle", pc[q] # "idle", Moves(q), Touches(q)
  PROVE  Working(p)'
<1>1. Working(p) /\ Named(p) \cap Named(q) = {}
  BY DEF FaithInv, Apart
<1>2. pc'[p] = pc[p] /\ job'[p] = job[p]
  BY DEF Moves
<1>3. /\ job[p].input \in Paths /\ job[p].output \in Paths
      /\ job[p].input[1] \notin Named(q) /\ job[p].output[1] \notin Named(q)
  BY <1>1, HeldFiles
<1>. QED BY <1>1, <1>2, <1>3, HeldFiles, SameWorking DEF Touches

LEMMA FaithStep ==
  ASSUME FileTypeInv, FaithInv, NEW q \in Procs, pc[q] # "idle", Moves(q), Touches(q), Unlinked',
         pc'[q] # "idle" => Named(q)' = Named(q) /\ Working(q)'
  PROVE  FaithInv'
<1>1. \A p \in Procs : pc'[p] # "idle" => Working(p)'
  BY OthersWork DEF Moves
<1>2. \A p \in Procs : pc'[p] # "idle" => Named(p)' = Named(p) /\ pc[p] # "idle"
  BY DEF Moves, Named
<1>3. \A p, r \in Procs : Apart(p, r)'
  BY <1>2 DEF FaithInv, Apart
<1>. QED BY <1>1, <1>3 DEF FaithInv

LEMMA NothingTouched ==
  ASSUME NEW q \in Procs, UNCHANGED fs
  PROVE  Touches(q) /\ Spares(q) /\ (Unlinked => Unlinked')
BY DEF Touches, Spares, fs, Unlinked

LEMMA OneMoves ==
  ASSUME FileTypeInv, NEW q \in Procs, NEW to, Goto(q, to), NEW j, job' = [job EXCEPT ![q] = j]
  PROVE  Moves(q) /\ pc'[q] = to /\ job'[q] = j
BY Types DEF Goto, Moves, ProcTypes

(* A command that ends.                                                    *)
LEMMA ExitFaith ==
  ASSUME FileTypeInv, FaithInv, NEW q \in Procs, pc[q] # "idle", NEW result, Exit(q, result),
         Touches(q), Unlinked'
  PROVE  FaithInv'
<1>1. Moves(q) /\ pc'[q] = "idle"
  BY OneMoves DEF Exit
<1>. QED BY <1>1, FaithStep

-----------------------------------------------------------------------------
(* Starting a command.                                                     *)

LEMMA PathsDiffer ==
  ASSUME NEW op \in Ops, NEW a \in Names, NEW b \in Names
  PROVE  /\ Path(a) = Path(b) <=> a = b
         /\ Path(a)[1] = a /\ Path(a) \in Paths
         /\ Temporary(op, a)[1] = a /\ Temporary(op, a) \in Paths /\ Temporary(op, a) # Path(b)
BY DEF Path, Temporary, Paths, TmpSuffixes, Ops

LEMMA Started ==
  ASSUME FileTypeInv, NEW p \in Procs, NEW request \in Requests, NEW password \in Passwords,
         StartCommand(p, request, password)
  PROVE  LET j == job'[p] IN
           /\ j.op = request.op /\ j.input = Path(request.input)
           /\ j.output = IF request.output = InPlace THEN Temporary(request.op, request.input)
                         ELSE Path(request.output)
           /\ j.inPlace = (request.output = InPlace)
           /\ j.inPos = 1 /\ j.outPos = 1
           /\ pc'[p] = "open" /\ pc[p] = "idle" /\ Moves(p) /\ UNCHANGED fs
<1>1. PICK r : job' = [job EXCEPT ![p] = r] /\
     r = [op |-> request.op, input |-> Path(request.input),
      output |-> IF request.output = InPlace THEN Temporary(request.op, request.input)
                 ELSE Path(request.output),
      inPlace |-> request.output = InPlace, password |-> password, key |-> ZeroKey,
      in |-> NoInode, out |-> NoInode, inPos |-> 1, outPos |-> 1,
      buf |-> Hole, given |-> <<>>]
  BY DEF StartCommand
<1>2. job'[p] = r /\ pc'[p] = "open" /\ Moves(p)
  <2>1. Goto(p, "open")
    BY DEF StartCommand
  <2>2. job' = [job EXCEPT ![p] = r]
    BY <1>1
  <2>. QED BY <2>1, <2>2, OneMoves
<1>3. pc[p] = "idle" /\ UNCHANGED fs
  BY DEF StartCommand
<1>. QED BY <1>1, <1>2, <1>3

LEMMA StartCommandFaith ==
  ASSUME Orderly, FileTypeInv, FaithInv, NEW p \in Procs, NEW request \in Requests,
         NEW password \in Passwords, StartCommand(p, request, password)
  PROVE  FaithInv'
<1>. DEFINE j == job'[p]
<1>1. /\ request.op \in Ops /\ request.input \in Names
      /\ request.output \in Names \union {InPlace}
  OBVIOUS
<1>2. /\ j.op = request.op /\ j.input = Path(request.input)
      /\ j.output = IF request.output = InPlace THEN Temporary(request.op, request.input)
                    ELSE Path(request.output)
      /\ j.inPlace = (request.output = InPlace)
      /\ j.inPos = 1 /\ j.outPos = 1
      /\ pc'[p] = "open" /\ pc[p] = "idle" /\ Moves(p) /\ UNCHANGED fs
  BY Started
<1>. HIDE DEF j
<1>3. Named(p)' \subseteq {request.input, request.output}
  BY <1>1, <1>2, PathsDiffer DEF Named, j
<1>4. ASSUME NEW q \in Procs, q # p, pc[q] # "idle"
      PROVE  Named(p)' \cap Named(q)' = {} /\ Working(q)'
  <2>1. job[q].input[1] \notin {request.input, request.output}
        /\ job[q].output[1] \notin {request.input, request.output}
    BY <1>4 DEF StartCommand, Orderly
  <2>2. pc'[q] = pc[q] /\ job'[q] = job[q] /\ Working(q)
    BY <1>2, <1>4 DEF Moves, FaithInv
  <2>3. Working(q)'
    BY <1>2, <2>2, SameWorking DEF fs
  <2>. QED BY <1>3, <2>1, <2>2, <2>3 DEF Named
<1>5. \A q, r \in Procs : Apart(q, r)'
  <2>1. \A q \in Procs : q # p => pc'[q] = pc[q] /\ Named(q)' = Named(q)
    BY <1>2 DEF Moves, Named
  <2>. QED BY <1>4, <2>1 DEF FaithInv, Apart
<1>6. Working(p)'
  <2>1. j.output # j.input
    BY <1>1, <1>2, PathsDiffer DEF Orderly
  <2>2. j.input = Path(j.input[1]) /\ (j.inPlace => j.output = Temporary(j.op, j.input[1]))
        /\ (~j.inPlace => j.output = Path(j.output[1]))
    <3>1. j.input[1] = request.input /\ (~j.inPlace => j.output[1] = request.output)
      BY ZenonT(30), <1>1, <1>2, PathsDiffer
    <3>. QED BY <1>2, <3>1
  <2>3. Shape(p)'
    BY <1>2, <2>1, <2>2 DEF Shape, j
  <2>. QED BY <1>2, <2>3 DEF Working, Holds, EncryptsAs, DecryptsAs, j
<1>7. Unlinked'
  BY <1>2, NothingTouched DEF FaithInv
<1>8. \A q \in Procs : pc'[q] # "idle" => Working(q)'
  BY <1>2, <1>4, <1>6 DEF Moves
<1>. QED BY <1>5, <1>7, <1>8 DEF FaithInv

-----------------------------------------------------------------------------
(* Sealing, opening and appending.                                         *)

LEMMA OpenSealed ==
  ASSUME NEW item \in Items, NEW key \in Keys, NEW n \in Nat
  PROVE  Authentic(Seal(item, key, n), key, n) /\ Open(Seal(item, key, n)) = item
<1>. DEFINE s == Seal(item, key, n)
<1>1. /\ s \in Items /\ s.kind = item.kind /\ s.of = item.of
      /\ s.layers = Append(item.layers, GCM(key, n))
  BY SealType
<1>2. item.layers \in Seq(GCMLayers) /\ GCM(key, n) \in GCMLayers
  BY ItemParts DEF GCM, GCMLayers
<1>3. /\ s.layers \in Seq(GCMLayers) /\ s.layers # <<>> /\ Len(s.layers) = Len(item.layers) + 1
      /\ \A i \in 1 .. Len(item.layers) : s.layers[i] = item.layers[i]
      /\ s.layers[Len(item.layers) + 1] = GCM(key, n)
  BY <1>1, <1>2, AppendProperties
<1>4. Len(item.layers) \in Nat
  BY ItemParts
<1>5. Front(s.layers) = item.layers
  <2>1. /\ Front(s.layers) \in Seq(GCMLayers) /\ Len(Front(s.layers)) = Len(item.layers)
        /\ \A i \in 1 .. Len(item.layers) : Front(s.layers)[i] = item.layers[i]
    BY SMTT(30), <1>3, <1>4, FrontIs
  <2>. QED BY <1>2, <2>1, SeqEqual
<1>6. Authentic(s, key, n)
  BY <1>3 DEF Authentic, Last
<1>. HIDE DEF s
<1>7. /\ Open(s) \in Items /\ Open(s).kind = item.kind /\ Open(s).of = item.of
      /\ Open(s).layers = item.layers
  BY <1>1, <1>3, <1>5, OpenType
<1>8. Open(s) = item
  BY <1>7, ItemParts
<1>. QED BY <1>6, <1>8 DEF s

LEMMA WriteAtEnd ==
  ASSUME NEW made \in Seq(Items), NEW pos \in Nat, Len(made) = pos - 1, NEW item \in Items
  PROVE  /\ WriteAt(made, pos, item) \in Seq(Items)
         /\ Len(WriteAt(made, pos, item)) = pos
         /\ \A i \in 1 .. Len(made) : WriteAt(made, pos, item)[i] = made[i]
         /\ WriteAt(made, pos, item)[pos] = item
<1>1. Len(made) \in Nat /\ pos \in Nat \ {0}
  BY LenProperties
<1>2. WriteAt(made, pos, item) \in Seq(Items)
  BY <1>1, WriteAtType
<1>3. WriteAt(made, pos, item) =
        [i \in 1 .. pos |-> IF i = pos THEN item ELSE IF i <= Len(made) THEN made[i] ELSE Hole]
  BY <1>1 DEF WriteAt
<1>4. Len(WriteAt(made, pos, item)) = pos
  BY <1>1, <1>2, <1>3, LenProperties
<1>. QED BY <1>1, <1>2, <1>3, <1>4

(* Both loops, run to the end, do what a command promises.                 *)
LEMMA SealedAll ==
  ASSUME NEW made \in Seq(Items), NEW text \in Seq(Items), NEW password, NEW key \in Keys,
         key = KeyOf(made, password), SealedSoFar(made, text, key, Len(text) + 1)
  PROVE  EncryptionOf(made, text, password)
<1>1. Len(text) \in Nat /\ Len(made) = Len(text) + 1 /\ made # <<>> /\ IsHeader(made[1])
  BY LenProperties DEF SealedSoFar
<1>2. Head(made) = made[1]
  OBVIOUS
<1>3. ASSUME NEW i \in 2 .. Len(made)
      PROVE  Authentic(made[i], key, i - 2) /\ Open(made[i]) = text[i - 1]
  <2>1. made[i] = Seal(text[i - 1], key, i - 2) /\ i - 1 \in 1 .. Len(text) /\ i - 2 \in Nat
    BY <1>1 DEF SealedSoFar
  <2>2. text[i - 1] \in Items
    BY <2>1, ElementOfSeq
  <2>. QED BY <2>1, <2>2, OpenSealed
<1>4. Decryptable(made, password)
  BY <1>1, <1>2, <1>3 DEF Decryptable, KeyOf
<1>5. Decrypted(made) = text
  <2>1. Decrypted(made) = [i \in 1 .. Len(text) |-> Open(made[i + 1])]
    BY <1>1 DEF Decrypted
  <2>2. \A i \in 1 .. Len(text) : Open(made[i + 1]) = text[i]
    BY <1>1, <1>3
  <2>3. text = [i \in 1 .. Len(text) |-> text[i]]
    BY LenProperties
  <2>. QED BY <2>1, <2>2, <2>3
<1>. QED BY <1>4, <1>5 DEF EncryptionOf

LEMMA OpenedAll ==
  ASSUME NEW made \in Seq(Items), NEW sealed \in Seq(Items), NEW password, NEW key,
         sealed # <<>>, IsHeader(sealed[1]), key = KeyOf(sealed, password),
         OpenedSoFar(made, sealed, key, Len(sealed) - 1)
  PROVE  EncryptionOf(sealed, made, password)
<1>1. Len(sealed) \in Nat \ {0} /\ Len(made) = Len(sealed) - 1
  BY EmptySeq DEF OpenedSoFar
<1>2. Head(sealed) = sealed[1]
  OBVIOUS
<1>3. \A i \in 1 .. (Len(sealed) - 1) : Authentic(sealed[i + 1], key, i - 1) /\ made[i] = Open(sealed[i + 1])
  BY DEF OpenedSoFar
<1>4. ASSUME NEW i \in 2 .. Len(sealed) PROVE Authentic(sealed[i], key, i - 2)
  <2>1. i - 1 \in 1 .. (Len(sealed) - 1) /\ (i - 1) + 1 = i /\ (i - 1) - 1 = i - 2
    BY <1>1
  <2>. QED BY <1>3, <2>1
<1>5. Decryptable(sealed, password)
  BY <1>2, <1>4 DEF Decryptable, KeyOf
<1>6. Decrypted(sealed) = made
  <2>1. Decrypted(sealed) = [i \in 1 .. Len(made) |-> Open(sealed[i + 1])]
    BY <1>1 DEF Decrypted
  <2>2. \A i \in 1 .. Len(made) : Open(sealed[i + 1]) = made[i]
    BY <1>1, <1>3
  <2>3. made = [i \in 1 .. Len(made) |-> made[i]]
    BY LenProperties
  <2>. QED BY <2>1, <2>2, <2>3
<1>. QED BY <1>5, <1>6 DEF EncryptionOf

-----------------------------------------------------------------------------
(* Each step of a command.                                                 *)

LEMMA OpenInputFaith ==
  ASSUME FileTypeInv, FaithInv, NEW p \in Procs, OpenInput(p)
  PROVE  FaithInv'
<1>. DEFINE inode == dir[job[p].input]
<1>1. pc[p] = "open" /\ UNCHANGED fs
  BY DEF OpenInput
<1>2. Touches(p) /\ Unlinked' /\ Working(p) /\ job[p] \in Jobs
  BY <1>1, NothingTouched, JobType DEF FaithInv
<1>3. CASE Exit(p, "error")
  BY <1>1, <1>2, <1>3, ExitFaith
<1>4. CASE /\ inode # NoInode
           /\ job' = [job EXCEPT ![p].in = inode, ![p].given = content[inode]]
           /\ Goto(p, IF job[p].op = "EncryptFile" THEN "create" ELSE "header")
  <2>. DEFINE j == [job[p] EXCEPT !.in = inode, !.given = content[inode]]
              to == IF job[p].op = "EncryptFile" THEN "create" ELSE "header"
  <2>1. job' = [job EXCEPT ![p] = j]
    BY <1>4, Types DEF ProcTypes
  <2>2. Moves(p) /\ pc'[p] = to /\ job'[p] = j
    BY <1>4, <2>1, Types DEF Goto, Moves, ProcTypes
  <2>3. /\ j.op = job[p].op /\ j.input = job[p].input /\ j.output = job[p].output
        /\ j.inPlace = job[p].inPlace /\ j.inPos = job[p].inPos /\ j.outPos = job[p].outPos
        /\ j.in = inode /\ j.given = content[inode] /\ job[p].op \in Ops
    BY <1>2 DEF Jobs
  <2>. HIDE DEF j
  <2>4. Working(p)'
    BY <1>1, <1>2, <2>2, <2>3 DEF Working, Shape, Holds, EncryptsAs, DecryptsAs, Ops, fs
  <2>5. Named(p)' = Named(p)
    BY <2>2, <2>3 DEF Named
  <2>. QED BY <1>1, <1>2, <2>2, <2>4, <2>5, FaithStep
<1>. QED BY <1>3, <1>4 DEF OpenInput

LEMMA ReadFileHeaderFaith ==
  ASSUME FileTypeInv, FaithInv, NEW p \in Procs, ReadFileHeader(p)
  PROVE  FaithInv'
<1>. DEFINE file == content[job[p].in]
<1>1. pc[p] = "header" /\ UNCHANGED fs
  BY DEF ReadFileHeader
<1>2. Touches(p) /\ Unlinked' /\ Working(p) /\ job[p] \in Jobs
  BY <1>1, NothingTouched, JobType DEF FaithInv
<1>3. CASE Exit(p, "error")
  BY <1>1, <1>2, <1>3, ExitFaith
<1>4. CASE /\ file # <<>> /\ IsHeader(Head(file))
           /\ job' = [job EXCEPT ![p].key = DeriveKey(job[p].password, SaltOf(Head(file))),
                                 ![p].inPos = 2]
           /\ Goto(p, "create")
  <2>. DEFINE key == DeriveKey(job[p].password, SaltOf(Head(file)))
              j == [job[p] EXCEPT !.key = key, !.inPos = 2]
  <2>1. job' = [job EXCEPT ![p] = j]
    BY <1>4, Types DEF ProcTypes
  <2>2. Moves(p) /\ pc'[p] = "create" /\ job'[p] = j
    BY <1>4, <2>1, OneMoves
  <2>3. /\ j.op = job[p].op /\ j.input = job[p].input /\ j.output = job[p].output
        /\ j.inPlace = job[p].inPlace /\ j.inPos = 2 /\ j.outPos = job[p].outPos
        /\ j.in = job[p].in /\ j.given = job[p].given /\ j.key = key
        /\ j.password = job[p].password
    BY <1>2 DEF Jobs
  <2>4. job[p].op = "DecryptFile" /\ file = job[p].given /\ Head(file) = file[1]
    BY <1>1, <1>2, <1>4 DEF Working, Holds, Jobs, Ops
  <2>. HIDE DEF j, file
  <2>5. Shape(p)' /\ Holds(p)'
    BY <1>1, <1>2, <2>2, <2>3 DEF Working, Shape, Holds, fs
  <2>6. DecryptsAs(p)'
    BY <1>1, <1>2, <1>4, <2>2, <2>3, <2>4 DEF Working, DecryptsAs, KeyOf
  <2>7. Working(p)'
    BY <1>1, <1>2, <2>2, <2>3, <2>4, <2>5, <2>6 DEF Working
  <2>8. Named(p)' = Named(p)
    BY <2>2, <2>3 DEF Named
  <2>. QED BY <1>1, <1>2, <2>2, <2>7, <2>8, FaithStep
<1>. QED BY <1>3, <1>4 DEF ReadFileHeader

LEMMA CreateOutputFaith ==
  ASSUME FileTypeInv, FaithInv, NEW p \in Procs, CreateOutput(p)
  PROVE  FaithInv' /\ Spares(p)
<1>. DEFINE existing == dir[job[p].output]
            inode == IF existing = NoInode THEN nextInode ELSE existing
<1>1. pc[p] = "create"
  BY DEF CreateOutput
<1>2. Working(p) /\ job[p] \in Jobs /\ Unlinked
  BY <1>1, JobType DEF FaithInv
<1>3. CASE Exit(p, "error") /\ UNCHANGED fs
  BY <1>1, <1>3, NothingTouched, ExitFaith DEF FaithInv
<1>4. CASE /\ dir' = [dir EXCEPT ![job[p].output] = inode]
           /\ content' = [content EXCEPT ![inode] = TruncatedOnCreate(@)]
           /\ nextInode' = IF existing = NoInode THEN nextInode + 1 ELSE nextInode
           /\ job' = [job EXCEPT ![p].out = inode]
           /\ Goto(p, IF job[p].op = "EncryptFile" THEN "stamp" ELSE "read")
  <2>. DEFINE j == [job[p] EXCEPT !.out = inode]
              to == IF job[p].op = "EncryptFile" THEN "stamp" ELSE "read"
  <2>1. FileTypeInv'
    BY <1>1, CreateOutputType
  <2>2. FsTypes /\ FsTypes' /\ nextInode \in Nat /\ nextInode >= 1
    BY <2>1 DEF FsTypes, FileTypeInv, TypeOK, InodesLeft
  <2>3. job' = [job EXCEPT ![p] = j]
    BY <1>4, Types DEF ProcTypes
  <2>4. Moves(p) /\ pc'[p] = to /\ job'[p] = j
    BY <1>4, <2>3, Types DEF Goto, Moves, ProcTypes
  <2>5. /\ j.op = job[p].op /\ j.input = job[p].input /\ j.output = job[p].output
        /\ j.inPlace = job[p].inPlace /\ j.inPos = job[p].inPos /\ j.outPos = job[p].outPos
        /\ j.in = job[p].in /\ j.given = job[p].given /\ j.key = job[p].key
        /\ j.password = job[p].password /\ j.out = inode /\ job[p].op \in Ops
        /\ job[p].given \in Seq(Items)
    BY <1>2 DEF Jobs
  <2>6. /\ job[p].input \in Paths /\ job[p].output \in Paths /\ job[p].input # job[p].output
        /\ job[p].output[1] \in Named(p)
        /\ dir[job[p].input] = job[p].in /\ job[p].in # NoInode
    BY <1>1, <1>2, HeldFiles
  <2>7. \A a \in Paths : dir[a] \in Nat /\ dir[a] < nextInode
    BY <1>2, <2>2 DEF Unlinked, FsTypes, Inodes, NoInode
  <2>8. inode \in Nat /\ inode # NoInode
        /\ \A a \in Paths : a # job[p].output /\ dir[a] # NoInode => dir[a] # inode
    BY <1>2, <2>2, <2>6, <2>7 DEF Unlinked, NoInode
  <2>9. inode \in Inodes /\ nextInode' \in Nat /\ inode < nextInode' /\ nextInode <= nextInode'
    <3>1. pc'[p] \in {"stamp", "read"} /\ pc'[p] # "idle"
      BY <2>4
    <3>2. inode \in Inodes
      <4>1. job'[p].out \in Inodes
        BY <2>1, <3>1 DEF FileTypeInv, Opened
      <4>. HIDE DEF j, inode
      <4>. QED BY <2>4, <2>5, <4>1
    <3>. QED BY <1>4, <2>2, <2>6, <2>7, <3>2
  <2>. HIDE DEF j, to, inode
  <2>10. /\ dir'[job[p].output] = inode /\ content'[inode] = <<>>
         /\ \A a \in Paths : a # job[p].output => dir'[a] = dir[a]
         /\ \A i \in Inodes : i # inode => content'[i] = content[i]
    BY <1>4, <2>2, <2>6, <2>9 DEF FsTypes, TruncatedOnCreate
  <2>11. \A a \in Paths : a # job[p].output /\ dir[a] # NoInode => content'[dir[a]] = content[dir[a]]
    BY <2>2, <2>8, <2>10 DEF FsTypes
  <2>12. Touches(p)
    BY <2>6, <2>10, <2>11 DEF Touches
  <2>13. Unlinked'
    <3>1. ASSUME NEW a \in Paths, NEW b \in Paths, dir'[a] = dir'[b], dir'[a] # NoInode PROVE a = b
      BY <1>2, <2>8, <2>10, <3>1 DEF Unlinked
    <3>2. ASSUME NEW a \in Paths PROVE dir'[a] < nextInode'
      <4>1. CASE a = job[p].output
        BY <2>9, <2>10, <4>1
      <4>2. CASE a # job[p].output
        BY <2>2, <2>7, <2>9, <2>10, <4>2
      <4>. QED BY <4>1, <4>2
    <3>. QED BY <3>1, <3>2 DEF Unlinked
  <2>14. Shape(p)'
    BY <1>1, <1>2, <2>4, <2>5 DEF Working, Shape, to
  <2>15. Holds(p)'
    BY <1>1, <1>2, <2>4, <2>5, <2>6, <2>10, <2>11 DEF Working, Holds, to
  <2>16. job[p].op = "EncryptFile" => EncryptsAs(p)'
    BY <1>1, <1>2, <2>4, <2>5, <2>10 DEF Working, EncryptsAs, to, Written
  <2>17. job[p].op = "DecryptFile" => DecryptsAs(p)'
    <3>. SUFFICES ASSUME job[p].op = "DecryptFile" PROVE DecryptsAs(p)'
      OBVIOUS
    <3>1. /\ job[p].given # <<>> /\ IsHeader(job[p].given[1])
          /\ job[p].key = KeyOf(job[p].given, job[p].password)
          /\ job[p].inPos = 2 /\ job[p].outPos = 1
      BY <1>1, <1>2 DEF Working, DecryptsAs
    <3>2. Len(job[p].given) \in Nat \ {0}
      BY <2>5, <3>1, EmptySeq
    <3>3. OpenedSoFar(<<>>, job[p].given, job[p].key, 0)
      BY DEF OpenedSoFar
    <3>4. pc'[p] = "read" /\ Written(job[p])' = <<>>
      BY <2>4, <2>5, <2>10 DEF to, Written
    <3>. QED BY <2>4, <2>5, <3>1, <3>2, <3>3, <3>4 DEF DecryptsAs, KeyOf
  <2>18. Working(p)'
    BY <1>1, <1>2, <2>4, <2>5, <2>14, <2>15, <2>16, <2>17 DEF Working, Ops, to
  <2>19. Named(p)' = Named(p)
    BY <2>4, <2>5 DEF Named
  <2>20. Spares(p)
    BY <2>10, <2>11 DEF Spares
  <2>. QED BY <1>1, <2>4, <2>12, <2>13, <2>18, <2>19, <2>20, FaithStep
<1>. QED BY <1>3, <1>4 DEF CreateOutput

(* A write reaches the command's output and nothing else.                  *)
LEMMA OutputWritten ==
  ASSUME FileTypeInv, FaithInv, NEW p \in Procs, pc[p] \in {"stamp", "write"},
         NEW new, content' = [content EXCEPT ![job[p].out] = new], UNCHANGED <<dir, nextInode>>
  PROVE  /\ Touches(p) /\ Spares(p) /\ Unlinked'
         /\ content'[job[p].out] = new /\ content'[job[p].in] = content[job[p].in]
<1>1. Working(p) /\ Unlinked
  BY DEF FaithInv
<1>2. /\ job[p].input \in Paths /\ job[p].output \in Paths /\ job[p].input # job[p].output
      /\ job[p].output[1] \in Named(p)
      /\ dir[job[p].input] = job[p].in /\ job[p].in # NoInode /\ job[p].in \in Inodes
      /\ dir[job[p].output] = job[p].out /\ job[p].out # NoInode /\ job[p].out \in Inodes
  BY <1>1, HeldFiles
<1>3. \A a \in Paths : a # job[p].output /\ dir[a] # NoInode => dir[a] # job[p].out
  BY <1>1, <1>2 DEF Unlinked
<1>4. /\ content'[job[p].out] = new
      /\ \A i \in Inodes : i # job[p].out => content'[i] = content[i]
  BY <1>2, Types DEF FsTypes
<1>5. \A a \in Paths : a # job[p].output /\ dir[a] # NoInode => content'[dir[a]] = content[dir[a]]
  BY <1>3, <1>4, Types DEF FsTypes
<1>6. Touches(p) /\ Spares(p)
  BY <1>2, <1>5 DEF Touches, Spares
<1>7. Unlinked'
  BY <1>1 DEF Unlinked
<1>8. content'[job[p].in] = content[job[p].in]
  BY <1>2, <1>3, <1>4
<1>. QED BY <1>4, <1>6, <1>7, <1>8

LEMMA WriteFileHeaderFaith ==
  ASSUME FileTypeInv, FaithInv, NEW p \in Procs, WriteFileHeader(p)
  PROVE  FaithInv' /\ Spares(p)
<1>1. pc[p] = "stamp"
  BY DEF WriteFileHeader
<1>2. Working(p) /\ job[p] \in Jobs
  BY <1>1, JobType DEF FaithInv
<1>3. CASE Exit(p, "error") /\ UNCHANGED fs
  BY <1>1, <1>3, NothingTouched, ExitFaith DEF FaithInv
<1>4. CASE /\ content' = [content EXCEPT ![job[p].out] = WriteAt(@, 1, FileHeader(nextSalt))]
           /\ job' = [job EXCEPT ![p].key = DeriveKey(job[p].password, nextSalt),
                                 ![p].outPos = 2]
           /\ Goto(p, "read")
           /\ UNCHANGED <<dir, nextInode>>
  <2>. DEFINE key == DeriveKey(job[p].password, nextSalt)
              j == [job[p] EXCEPT !.key = key, !.outPos = 2]
              new == WriteAt(content[job[p].out], 1, FileHeader(nextSalt))
  <2>1. job' = [job EXCEPT ![p] = j]
    BY <1>4, Types DEF ProcTypes
  <2>2. Moves(p) /\ pc'[p] = "read" /\ job'[p] = j
    BY <1>4, <2>1, OneMoves
  <2>3. /\ j.op = job[p].op /\ j.input = job[p].input /\ j.output = job[p].output
        /\ j.inPlace = job[p].inPlace /\ j.inPos = job[p].inPos /\ j.outPos = 2
        /\ j.in = job[p].in /\ j.out = job[p].out /\ j.given = job[p].given /\ j.key = key
        /\ j.password = job[p].password /\ job[p].given \in Seq(Items)
    BY <1>2 DEF Jobs
  <2>4. job[p].op = "EncryptFile" /\ job[p].inPos = 1 /\ content[job[p].out] = <<>>
    BY <1>1, <1>2 DEF Working, EncryptsAs, Jobs, Ops, Written
  <2>5. FileHeader(nextSalt) \in Items /\ nextSalt \in Nat
    BY Types, ItemTypes DEF CountTypes
  <2>6. new \in Seq(Items) /\ Len(new) = 1 /\ new[1] = FileHeader(nextSalt)
    <3>. DEFINE old == content[job[p].out]
                item == FileHeader(nextSalt)
                first == 1
    <3>1. old \in Seq(Items) /\ Len(old) = first - 1 /\ first \in Nat
      BY <2>4, EmptySeq
    <3>2. new = WriteAt(old, first, item) /\ item \in Items
      BY <2>5
    <3>3. new \in Seq(Items) /\ Len(new) = first /\ new[first] = item
      <4>. HIDE DEF new, old, item, first
      <4>. QED BY <3>1, <3>2, WriteAtEnd
    <3>. QED BY <3>3
  <2>7. content' = [content EXCEPT ![job[p].out] = new]
    BY <1>4
  <2>. HIDE DEF j, new
  <2>8. /\ Touches(p) /\ Spares(p) /\ Unlinked'
        /\ content'[job[p].out] = new /\ content'[job[p].in] = content[job[p].in]
    BY <1>1, <1>4, <2>7, OutputWritten
  <2>9. new # <<>> /\ IsHeader(new[1]) /\ key = KeyOf(new, job[p].password)
    <3>1. new # <<>>
      BY <2>6, EmptySeq
    <3>. QED BY <2>6, <3>1 DEF IsHeader, FileHeader, KeyOf, SaltOf
  <2>10. SealedSoFar(new, job[p].given, key, 1)
    BY <2>6, <2>9 DEF SealedSoFar
  <2>11. Len(job[p].given) \in Nat
    BY <2>3, LenProperties
  <2>12. Shape(p)'
    BY <1>1, <1>2, <2>2, <2>3 DEF Working, Shape
  <2>13. Holds(p)'
    BY <1>1, <1>2, <1>4, <2>2, <2>3, <2>8 DEF Working, Holds
  <2>14. EncryptsAs(p)'
    <3>1. Written(job[p])' = new
      BY <2>2, <2>3, <2>8 DEF Written
    <3>. QED BY <2>2, <2>3, <2>4, <2>9, <2>10, <2>11, <3>1 DEF EncryptsAs, KeyOf
  <2>15. Working(p)'
    BY <2>2, <2>3, <2>4, <2>12, <2>13, <2>14 DEF Working
  <2>16. Named(p)' = Named(p)
    BY <2>2, <2>3 DEF Named
  <2>. QED BY <1>1, <2>2, <2>8, <2>15, <2>16, FaithStep
<1>. QED BY <1>3, <1>4 DEF WriteFileHeader

LEMMA ReadChunkFaith ==
  ASSUME FileTypeInv, FaithInv, NEW p \in Procs, ReadChunk(p)
  PROVE  FaithInv'
<1>. DEFINE item == content[job[p].in][job[p].inPos]
            n == ChunkNum(job[p])
<1>1. pc[p] = "read" /\ UNCHANGED fs /\ ~AtEnd(job[p])
  BY DEF ReadChunk
<1>2. Touches(p) /\ Unlinked' /\ Working(p) /\ job[p] \in Jobs
  BY <1>1, NothingTouched, JobType DEF FaithInv
<1>3. CASE Exit(p, "error")
  BY <1>1, <1>2, <1>3, ExitFaith
<1>4. CASE /\ ~Refused(job[p], item)
           /\ job' = [job EXCEPT ![p].buf = IF job[p].op = "EncryptFile"
                        THEN Seal(item, job[p].key, n) ELSE Open(item)]
           /\ Goto(p, "write")
  <2>. DEFINE buf == IF job[p].op = "EncryptFile" THEN Seal(item, job[p].key, n) ELSE Open(item)
              j == [job[p] EXCEPT !.buf = buf]
  <2>1. job' = [job EXCEPT ![p] = j]
    BY <1>4, Types DEF ProcTypes
  <2>2. Moves(p) /\ pc'[p] = "write" /\ job'[p] = j
    BY ZenonT(30), <1>4, <2>1, OneMoves
  <2>3. /\ j.op = job[p].op /\ j.input = job[p].input /\ j.output = job[p].output
        /\ j.inPlace = job[p].inPlace /\ j.inPos = job[p].inPos /\ j.outPos = job[p].outPos
        /\ j.in = job[p].in /\ j.out = job[p].out /\ j.given = job[p].given /\ j.key = job[p].key
        /\ j.password = job[p].password /\ j.buf = buf /\ job[p].given \in Seq(Items)
        /\ job[p].inPos \in Nat \ {0} /\ job[p].op \in Ops
    <3>. HIDE DEF buf
    <3>. QED BY <1>2 DEF Jobs
  <2>4. content[job[p].in] = job[p].given /\ item = job[p].given[job[p].inPos]
    BY <1>1, <1>2 DEF Working, Holds
  <2>5. job[p].inPos <= Len(job[p].given)
    BY <1>1, <2>3, <2>4, LenProperties DEF AtEnd
  <2>6. Written(job[p])' = Written(job[p])
    BY <1>1, <2>2, <2>3 DEF Written, fs
  <2>. HIDE DEF j
  <2>7. Shape(p)' /\ Holds(p)'
    BY <1>1, <1>2, <2>2, <2>3 DEF Working, Shape, Holds, fs
  <2>8. ASSUME job[p].op = "EncryptFile" PROVE Working(p)'
    <3>1. buf = Seal(job[p].given[job[p].inPos], job[p].key, job[p].inPos - 1)
      BY <2>4, <2>8 DEF ChunkNum
    <3>2. EncryptsAs(p)'
      BY <1>1, <1>2, <2>2, <2>3, <2>5, <2>6, <2>8, <3>1 DEF Working, EncryptsAs
    <3>. QED BY <2>2, <2>3, <2>7, <2>8, <3>2 DEF Working
  <2>9. ASSUME job[p].op = "DecryptFile" PROVE Working(p)'
    <3>1. /\ buf = Open(job[p].given[job[p].inPos])
          /\ Authentic(job[p].given[job[p].inPos], job[p].key, job[p].inPos - 2)
      BY <1>4, <2>4, <2>9 DEF ChunkNum, Refused
    <3>2. DecryptsAs(p)'
      BY <1>1, <1>2, <2>2, <2>3, <2>5, <2>6, <2>9, <3>1 DEF Working, DecryptsAs
    <3>. QED BY <2>2, <2>3, <2>7, <2>9, <3>2 DEF Working
  <2>10. Named(p)' = Named(p)
    BY <2>2, <2>3 DEF Named
  <2>. QED BY <1>1, <1>2, <2>2, <2>3, <2>8, <2>9, <2>10, FaithStep DEF Ops
<1>. QED BY <1>3, <1>4 DEF ReadChunk

LEMMA WriteChunkFaith ==
  ASSUME FileTypeInv, FaithInv, NEW p \in Procs, WriteChunk(p)
  PROVE  FaithInv' /\ Spares(p)
<1>1. pc[p] = "write"
  BY DEF WriteChunk
<1>2. Working(p) /\ job[p] \in Jobs /\ content[job[p].out] \in Seq(Items)
  BY <1>1, JobType DEF FaithInv
<1>3. CASE Exit(p, "error") /\ UNCHANGED fs
  BY <1>1, <1>3, NothingTouched, ExitFaith DEF FaithInv
<1>4. CASE /\ content' = [content EXCEPT ![job[p].out] = WriteAt(@, job[p].outPos, job[p].buf)]
           /\ job' = [job EXCEPT ![p].inPos = job[p].inPos + 1, ![p].outPos = job[p].outPos + 1]
           /\ Goto(p, "read")
           /\ UNCHANGED <<dir, nextInode>>
  <2>. DEFINE j == [job[p] EXCEPT !.inPos = job[p].inPos + 1, !.outPos = job[p].outPos + 1]
              old == content[job[p].out]
              new == WriteAt(content[job[p].out], job[p].outPos, job[p].buf)
  <2>1. job' = [job EXCEPT ![p] = j]
    BY <1>4, Types DEF ProcTypes
  <2>2. Moves(p) /\ pc'[p] = "read" /\ job'[p] = j
    BY <1>4, <2>1, OneMoves
  <2>3. /\ j.op = job[p].op /\ j.input = job[p].input /\ j.output = job[p].output
        /\ j.inPlace = job[p].inPlace /\ j.inPos = job[p].inPos + 1 /\ j.outPos = job[p].outPos + 1
        /\ j.in = job[p].in /\ j.out = job[p].out /\ j.given = job[p].given /\ j.key = job[p].key
        /\ j.password = job[p].password /\ job[p].given \in Seq(Items)
        /\ job[p].inPos \in Nat \ {0} /\ job[p].outPos \in Nat \ {0} /\ job[p].op \in Ops
        /\ job[p].buf \in Items
    BY <1>2 DEF Jobs
  <2>4. content' = [content EXCEPT ![job[p].out] = new]
    BY <1>4
  <2>5. Len(job[p].given) \in Nat /\ Len(old) \in Nat /\ old \in Seq(Items)
    BY <1>2, <2>3, LenProperties
  <2>6. Len(old) + 1 = job[p].outPos
    <3>1. CASE job[p].op = "EncryptFile"
      BY <1>1, <1>2, <2>3, <2>5, <3>1 DEF Working, EncryptsAs, SealedSoFar, Written
    <3>2. CASE job[p].op = "DecryptFile"
      <4>1. /\ job[p].inPos \in 2 .. (Len(job[p].given) + 1) /\ job[p].outPos = job[p].inPos - 1
            /\ Len(old) = job[p].inPos - 2
        BY <1>1, <1>2, <3>2 DEF Working, DecryptsAs, OpenedSoFar, Written
      <4>. HIDE DEF old
      <4>. QED BY <2>5, <4>1
    <3>. QED BY <2>3, <3>1, <3>2 DEF Ops
  <2>7. /\ new \in Seq(Items) /\ Len(new) = job[p].outPos
        /\ \A i \in 1 .. Len(old) : new[i] = old[i]
        /\ new[job[p].outPos] = job[p].buf
    <3>1. old \in Seq(Items) /\ job[p].outPos \in Nat /\ Len(old) = job[p].outPos - 1 /\ job[p].buf \in Items
      BY <2>3, <2>5, <2>6
    <3>2. new = WriteAt(old, job[p].outPos, job[p].buf)
      OBVIOUS
    <3>. HIDE DEF new, old
    <3>. QED BY <3>1, <3>2, WriteAtEnd
  <2>. HIDE DEF j, new, old
  <2>8. /\ Touches(p) /\ Spares(p) /\ Unlinked'
        /\ content'[job[p].out] = new /\ content'[job[p].in] = content[job[p].in]
    BY <1>1, <1>4, <2>4, OutputWritten
  <2>9. Shape(p)'
    BY <1>1, <1>2, <2>2, <2>3 DEF Working, Shape
  <2>10. Holds(p)'
    BY <1>1, <1>2, <1>4, <2>2, <2>3, <2>8 DEF Working, Holds
  <2>11. Written(job[p])' = new /\ Written(job[p]) = old
    BY <2>2, <2>3, <2>8 DEF Written, old
  <2>12. ASSUME job[p].op = "EncryptFile" PROVE Working(p)'
    <3>1. /\ job[p].inPos <= Len(job[p].given) /\ job[p].outPos = job[p].inPos + 1
          /\ SealedSoFar(old, job[p].given, job[p].key, job[p].inPos)
          /\ job[p].key = KeyOf(old, job[p].password)
          /\ job[p].buf = Seal(job[p].given[job[p].inPos], job[p].key, job[p].inPos - 1)
      BY <1>1, <1>2, <2>11, <2>12 DEF Working, EncryptsAs
    <3>2. new[1] = old[1] /\ new # <<>> /\ IsHeader(new[1])
      <4>1. 1 \in 1 .. Len(old)
        <5>1. job[p].inPos \in Nat \ {0} /\ Len(old) \in Nat /\ Len(old) + 1 = job[p].inPos + 1
          BY <2>3, <2>5, <2>6, <3>1
        <5>. QED BY <5>1
      <4>2. Len(new) # 0
        BY <2>3, <2>7
      <4>. QED BY <2>7, <3>1, <4>1, <4>2, EmptySeq DEF SealedSoFar
    <3>3. SealedSoFar(new, job[p].given, job[p].key, job[p].inPos + 1)
      <4>1. ASSUME NEW i \in 2 .. (job[p].inPos + 1)
            PROVE  new[i] = Seal(job[p].given[i - 1], job[p].key, i - 2)
        <5>1. CASE i <= job[p].inPos
          BY <2>3, <2>5, <2>6, <2>7, <3>1, <5>1 DEF SealedSoFar
        <5>2. CASE i = job[p].inPos + 1
          <6>1. i - 1 = job[p].inPos /\ i - 2 = job[p].inPos - 1 /\ i = job[p].outPos
            BY <2>3, <3>1, <5>2
          <6>. QED BY <2>7, <3>1, <6>1
        <5>. QED BY <2>3, <5>1, <5>2
      <4>. QED BY <2>7, <3>1, <3>2, <4>1 DEF SealedSoFar
    <3>4. job[p].key = KeyOf(new, job[p].password)
      BY <3>1, <3>2 DEF KeyOf
    <3>5. EncryptsAs(p)'
      BY <2>2, <2>3, <2>5, <2>11, <3>1, <3>3, <3>4 DEF EncryptsAs, KeyOf
    <3>. QED BY <2>2, <2>3, <2>9, <2>10, <2>12, <3>5 DEF Working
  <2>13. ASSUME job[p].op = "DecryptFile" PROVE Working(p)'
    <3>1. /\ job[p].given # <<>> /\ IsHeader(job[p].given[1])
          /\ job[p].key = KeyOf(job[p].given, job[p].password)
          /\ job[p].inPos >= 2 /\ job[p].inPos <= Len(job[p].given)
          /\ job[p].outPos = job[p].inPos - 1
          /\ OpenedSoFar(old, job[p].given, job[p].key, job[p].inPos - 2)
          /\ Authentic(job[p].given[job[p].inPos], job[p].key, job[p].inPos - 2)
          /\ job[p].buf = Open(job[p].given[job[p].inPos])
      BY <1>1, <1>2, <2>3, <2>5, <2>11, <2>13 DEF Working, DecryptsAs
    <3>2. OpenedSoFar(new, job[p].given, job[p].key, job[p].inPos - 1)
      <4>1. ASSUME NEW i \in 1 .. (job[p].inPos - 1)
            PROVE  Authentic(job[p].given[i + 1], job[p].key, i - 1) /\ new[i] = Open(job[p].given[i + 1])
        <5>1. CASE i <= job[p].inPos - 2
          BY <2>3, <2>5, <2>6, <2>7, <3>1, <5>1 DEF OpenedSoFar
        <5>2. CASE i = job[p].inPos - 1
          <6>1. i + 1 = job[p].inPos /\ i - 1 = job[p].inPos - 2 /\ i = job[p].outPos
            BY <2>3, <3>1, <5>2
          <6>. QED BY <2>7, <3>1, <6>1
        <5>. QED BY <2>3, <3>1, <5>1, <5>2
      <4>. QED BY <2>7, <3>1, <4>1 DEF OpenedSoFar
    <3>3. /\ (job[p].inPos + 1) - 2 = job[p].inPos - 1 /\ job[p].outPos + 1 = (job[p].inPos + 1) - 1
          /\ job[p].inPos + 1 \in 2 .. (Len(job[p].given) + 1)
      <4>1. /\ job[p].inPos \in Nat /\ Len(job[p].given) \in Nat
            /\ job[p].inPos >= 2 /\ job[p].inPos <= Len(job[p].given)
            /\ job[p].outPos = job[p].inPos - 1
        BY <2>3, <2>5, <3>1
      <4>. QED BY SMTT(30), <4>1
    <3>4. DecryptsAs(p)'
      BY <2>2, <2>3, <2>11, <3>1, <3>2, <3>3 DEF DecryptsAs, KeyOf
    <3>. QED BY <2>2, <2>3, <2>9, <2>10, <2>13, <3>4 DEF Working
  <2>14. Named(p)' = Named(p)
    BY <2>2, <2>3 DEF Named
  <2>. QED BY <1>1, <2>2, <2>3, <2>8, <2>12, <2>13, <2>14, FaithStep DEF Ops
<1>. QED BY <1>3, <1>4 DEF WriteChunk

LEMMA EndOfInputFaith ==
  ASSUME FileTypeInv, FaithInv, NEW p \in Procs, EndOfInput(p)
  PROVE  /\ FaithInv'
         /\ Faithful(job[p]) /\ dir[job[p].output] = job[p].out /\ UNCHANGED fs
<1>1. pc[p] = "read" /\ UNCHANGED fs /\ AtEnd(job[p])
  BY DEF EndOfInput
<1>2. /\ Touches(p) /\ Unlinked' /\ Working(p) /\ job[p] \in Jobs
      /\ content[job[p].out] \in Seq(Items) /\ content[job[p].in] = job[p].given
      /\ dir[job[p].output] = job[p].out
  BY <1>1, NothingTouched, JobType DEF FaithInv, Working, Holds
<1>3. /\ job[p].given \in Seq(Items) /\ Len(job[p].given) \in Nat /\ job[p].inPos \in Nat
      /\ job[p].op \in Ops /\ job[p].key \in Keys
  BY <1>2, LenProperties DEF Jobs
<1>4. job[p].inPos > Len(job[p].given)
  BY <1>1, <1>2 DEF AtEnd
<1>5. ASSUME job[p].op = "EncryptFile" PROVE Faithful(job[p])
  <2>1. job[p].inPos = Len(job[p].given) + 1
    BY <1>1, <1>2, <1>3, <1>4, <1>5 DEF Working, EncryptsAs
  <2>2. /\ SealedSoFar(Written(job[p]), job[p].given, job[p].key, Len(job[p].given) + 1)
        /\ job[p].key = KeyOf(Written(job[p]), job[p].password)
    BY <1>1, <1>2, <1>5, <2>1 DEF Working, EncryptsAs
  <2>. QED BY <1>2, <1>3, <1>5, <2>2, SealedAll DEF Faithful, Written
<1>6. ASSUME job[p].op = "DecryptFile" PROVE Faithful(job[p])
  <2>1. /\ job[p].inPos <= Len(job[p].given) + 1
        /\ OpenedSoFar(Written(job[p]), job[p].given, job[p].key, job[p].inPos - 2)
        /\ job[p].given # <<>> /\ IsHeader(job[p].given[1])
        /\ job[p].key = KeyOf(job[p].given, job[p].password)
    BY <1>1, <1>2, <1>3, <1>6 DEF Working, DecryptsAs
  <2>2. job[p].inPos - 2 = Len(job[p].given) - 1
    BY <1>3, <1>4, <2>1
  <2>. QED BY <1>2, <1>3, <1>6, <2>1, <2>2, OpenedAll DEF Faithful, Written, Ops
<1>7. Faithful(job[p])
  BY <1>3, <1>5, <1>6 DEF Ops
<1>8. CASE Exit(p, "ok")
  BY <1>1, <1>2, <1>7, <1>8, ExitFaith
<1>9. CASE job[p].inPlace /\ Goto(p, "remove") /\ UNCHANGED job
  <2>1. Moves(p) /\ pc'[p] = "remove" /\ job'[p] = job[p]
    BY <1>9, Types DEF Goto, Moves, ProcTypes
  <2>2. Shape(p)' /\ Holds(p)'
    BY <1>1, <1>2, <1>9, <2>1 DEF Working, Shape, Holds, fs
  <2>3. Faithful(job[p])'
    BY <1>1, <1>7, <2>1 DEF Faithful, Written, fs
  <2>4. Working(p)'
    BY <2>1, <2>2, <2>3 DEF Working, EncryptsAs, DecryptsAs
  <2>5. Named(p)' = Named(p)
    BY <2>1 DEF Named
  <2>. QED BY <1>1, <1>2, <1>7, <2>1, <2>4, <2>5, FaithStep
<1>. QED BY <1>8, <1>9 DEF EndOfInput

LEMMA RemoveInputFaith ==
  ASSUME FileTypeInv, FaithInv, NEW p \in Procs, RemoveInput(p)
  PROVE  FaithInv'
<1>1. pc[p] = "remove" /\ Goto(p, "rename") /\ UNCHANGED <<content, nextInode, job>>
  BY DEF RemoveInput
<1>2. Working(p) /\ Unlinked
  BY <1>1 DEF FaithInv
<1>3. /\ job[p].input \in Paths /\ job[p].output \in Paths /\ job[p].input # job[p].output
      /\ job[p].input[1] \in Named(p)
  BY <1>1, <1>2, HeldFiles
<1>4. /\ dir'[job[p].input] \in {dir[job[p].input], NoInode}
      /\ \A a \in Paths : a # job[p].input => dir'[a] = dir[a]
  BY <1>3, Types DEF RemoveInput, FsTypes
<1>5. Touches(p)
  BY <1>1, <1>3, <1>4 DEF Touches
<1>6. Unlinked'
  <2>1. nextInode \in Nat /\ nextInode >= 1
    BY Types DEF FsTypes, FileTypeInv, InodesLeft
  <2>2. \A a \in Paths : dir'[a] \in {dir[a], NoInode}
    BY <1>4
  <2>3. ASSUME NEW a \in Paths, NEW b \in Paths, dir'[a] = dir'[b], dir'[a] # NoInode PROVE a = b
    BY <1>2, <2>2, <2>3 DEF Unlinked
  <2>4. ASSUME NEW a \in Paths PROVE dir'[a] < nextInode'
    <3>1. dir[a] < nextInode /\ NoInode < nextInode
      BY <1>2, <2>1 DEF Unlinked, NoInode
    <3>. QED BY <1>1, <2>2, <3>1
  <2>. QED BY <2>3, <2>4 DEF Unlinked
<1>7. Moves(p) /\ pc'[p] = "rename" /\ job'[p] = job[p]
  BY <1>1, Types DEF Goto, Moves, ProcTypes
<1>8. Shape(p)' /\ Holds(p)'
  BY <1>1, <1>2, <1>3, <1>4, <1>7 DEF Working, Shape, Holds
<1>9. Faithful(job[p])'
  BY <1>1, <1>2, <1>7 DEF Working, Faithful, Written
<1>10. Working(p)'
  BY <1>1, <1>2, <1>7, <1>8, <1>9 DEF Working, EncryptsAs, DecryptsAs
<1>11. Named(p)' = Named(p)
  BY <1>7 DEF Named
<1>. QED BY <1>1, <1>5, <1>6, <1>7, <1>10, <1>11, FaithStep

(* What a rename does to the directory.                                    *)
LEMMA Renamed ==
  ASSUME FileTypeInv, FaithInv, NEW p \in Procs, pc[p] = "rename",
         dir' = [dir EXCEPT ![job[p].input] = dir[job[p].output], ![job[p].output] = NoInode]
  PROVE  /\ job[p].input \in Paths /\ job[p].output \in Paths /\ job[p].input # job[p].output
         /\ dir[job[p].output] = job[p].out /\ job[p].out # NoInode
         /\ dir'[job[p].input] = job[p].out /\ dir'[job[p].output] = NoInode
         /\ \A a \in Paths : a # job[p].input /\ a # job[p].output => dir'[a] = dir[a]
<1>1. Working(p)
  BY DEF FaithInv
<1>2. /\ job[p].input \in Paths /\ job[p].output \in Paths /\ job[p].input # job[p].output
      /\ dir[job[p].output] = job[p].out /\ job[p].out # NoInode
  BY <1>1, HeldFiles
<1>. QED BY <1>2, Types DEF FsTypes

LEMMA RenameOutputFaith ==
  ASSUME FileTypeInv, FaithInv, NEW p \in Procs, RenameOutput(p)
  PROVE  FaithInv'
<1>1. pc[p] = "rename" /\ UNCHANGED <<content, nextInode>>
  BY DEF RenameOutput
<1>2. Working(p) /\ Unlinked
  BY <1>1 DEF FaithInv
<1>3. CASE Exit(p, "error") /\ UNCHANGED dir
  BY <1>1, <1>3, NothingTouched, ExitFaith DEF FaithInv, fs
<1>4. CASE /\ dir' = [dir EXCEPT ![job[p].input] = dir[job[p].output], ![job[p].output] = NoInode]
           /\ Exit(p, "ok")
  <2>1. /\ job[p].input \in Paths /\ job[p].output \in Paths /\ job[p].input # job[p].output
        /\ dir[job[p].output] = job[p].out /\ job[p].out # NoInode
        /\ dir'[job[p].input] = job[p].out /\ dir'[job[p].output] = NoInode
        /\ \A a \in Paths : a # job[p].input /\ a # job[p].output => dir'[a] = dir[a]
    BY <1>1, <1>4, Renamed
  <2>2. Touches(p)
    BY <1>1, <2>1 DEF Touches, Named
  <2>3. Unlinked'
    <3>1. nextInode \in Nat /\ nextInode >= 1
      BY Types DEF FsTypes, FileTypeInv, InodesLeft
    <3>2. ASSUME NEW a \in Paths, NEW b \in Paths, dir'[a] = dir'[b], dir'[a] # NoInode PROVE a = b
      BY <1>2, <2>1, <3>2 DEF Unlinked
    <3>3. ASSUME NEW a \in Paths PROVE dir'[a] < nextInode'
      <4>1. dir[a] < nextInode /\ NoInode < nextInode /\ job[p].out < nextInode
        BY <1>2, <2>1, <3>1 DEF Unlinked, NoInode
      <4>2. dir'[a] \in {dir[a], NoInode, job[p].out}
        BY <2>1
      <4>. QED BY <1>1, <4>1, <4>2
    <3>. QED BY <3>2, <3>3 DEF Unlinked
  <2>. QED BY <1>1, <1>4, <2>2, <2>3, ExitFaith
<1>. QED BY <1>3, <1>4 DEF RenameOutput

LEMMA KillFaith ==
  ASSUME FileTypeInv, FaithInv, NEW p \in Procs, Kill(p)
  PROVE  FaithInv'
BY NothingTouched, ExitFaith DEF Kill, FaithInv

LEMMA InitFaith == Init => FaithInv
<1>. SUFFICES ASSUME Init PROVE FaithInv
  OBVIOUS
<1>1. \A p \in Procs : pc[p] = "idle"
  BY DEF Init
<1>2. Unlinked
  <2>1. \A a \in Paths : dir[a] \in 0 .. Cardinality(Files)
    BY FirstFiles
  <2>2. nextInode = Cardinality(Files) + 1
    BY FirstFiles
  <2>3. \A a \in Paths : dir[a] < nextInode
    BY <2>1, <2>2, FilesFinite
  <2>. QED BY <2>3, FirstFiles DEF Unlinked
<1>. QED BY <1>1, <1>2 DEF FaithInv, Apart

LEMMA NextFaith ==
  ASSUME Orderly, FileTypeInv, FaithInv, [Next]_vars
  PROVE  FaithInv'
<1>1. CASE UNCHANGED vars
  <2>1. Unlinked' /\ \A p, q \in Procs : Apart(p, q)'
    BY <1>1 DEF vars, fs, FaithInv, Unlinked, Apart, Named
  <2>2. ASSUME NEW p \in Procs, pc'[p] # "idle" PROVE Working(p)'
    BY <1>1, <2>2, SameWorking DEF vars, fs, FaithInv
  <2>. QED BY <2>1, <2>2 DEF FaithInv
<1>2. ASSUME NEW p \in Procs, NEW request \in Requests, NEW password \in Passwords,
             StartCommand(p, request, password)
      PROVE  FaithInv'
  BY <1>2, StartCommandFaith
<1>3. ASSUME NEW p \in Procs, Proceed(p)
      PROVE  FaithInv'
  BY <1>3, OpenInputFaith, ReadFileHeaderFaith, CreateOutputFaith, WriteFileHeaderFaith,
     ReadChunkFaith, WriteChunkFaith, EndOfInputFaith, RemoveInputFaith, RenameOutputFaith DEF Proceed
<1>4. ASSUME NEW p \in Procs, Kill(p)
      PROVE  FaithInv'
  BY <1>4, KillFaith
<1>. QED BY <1>1, <1>2, <1>3, <1>4 DEF Next

LEMMA FaithInductive == Orderly => (Spec => []FaithInv)
<1>. SUFFICES ASSUME Orderly PROVE Spec => []FaithInv
  OBVIOUS
<1>1. Init => FaithInv
  BY InitFaith
<1>2. FileTypeInv /\ FaithInv /\ [Next]_vars => FaithInv'
  BY NextFaith
<1>. QED BY <1>1, <1>2, TypeInductive, PTL DEF Spec

-----------------------------------------------------------------------------
(* What a successful command has left.                                     *)

Succeeds(p) == pc[p] # "idle" /\ pc'[p] = "idle" /\ outcome'[p] = "ok"

LEMMA SuccessSteps ==
  ASSUME FileTypeInv, FaithInv, [Next]_vars, NEW p \in Procs, Succeeds(p)
  PROVE  (EndOfInput(p) /\ ~job[p].inPlace) \/ (RenameOutput(p) /\ dir[job[p].output] # NoInode
           /\ dir' = [dir EXCEPT ![job[p].input] = dir[job[p].output], ![job[p].output] = NoInode])
<1>1. PICK q \in Procs :
        \/ \E request \in Requests, password \in Passwords : StartCommand(q, request, password)
        \/ Proceed(q)
        \/ Kill(q)
  BY DEF Next, vars, Succeeds
<1>2. /\ pc \in [Procs -> Locations] /\ outcome \in [Procs -> {"none", "ok", "error", "killed"}]
  BY Types DEF ProcTypes
<1>3. q = p
  BY <1>1, <1>2 DEF Succeeds, StartCommand, Proceed, Kill, OpenInput, ReadFileHeader, CreateOutput,
     WriteFileHeader, ReadChunk, WriteChunk, EndOfInput, RemoveInput, RenameOutput, Exit, Goto
<1>4. \A result : Exit(p, result) => result = "ok"
  BY <1>2 DEF Succeeds, Exit
<1>5. \A to : Goto(p, to) => to = "idle"
  BY <1>2 DEF Succeeds, Goto
<1>. QED BY <1>1, <1>3, <1>4, <1>5 DEF StartCommand, Proceed, Kill, OpenInput, ReadFileHeader,
     CreateOutput, WriteFileHeader, ReadChunk, WriteChunk, EndOfInput, RemoveInput, RenameOutput

(* If no two running commands name one file, and no request reads and      *)
(* writes one name, a command reports success only when its output is what *)
(* it promises, whatever is killed or fails and however long the files     *)
(* are. (EncryptFile, DecryptFile: the header, the chunk counter and the   *)
(* two loops; the handlers' remove and rename.)                            *)
THEOREM SuccessAlwaysFaithful == Orderly => (Spec => SuccessIsFaithful)
<1>. SUFFICES ASSUME Orderly PROVE Spec => SuccessIsFaithful
  OBVIOUS
<1>. DEFINE made(p) == content'[dir'[IF job[p].inPlace THEN job[p].input ELSE job[p].output]]
<1>1. ASSUME FileTypeInv, FaithInv, [Next]_vars, NEW p \in Procs, Succeeds(p)
      PROVE  Faithful(job[p]) /\ made(p) = Written(job[p])
  <2>1. CASE EndOfInput(p) /\ ~job[p].inPlace
    BY <1>1, <2>1, EndOfInputFaith DEF Written, fs
  <2>2. CASE /\ RenameOutput(p)
             /\ dir' = [dir EXCEPT ![job[p].input] = dir[job[p].output], ![job[p].output] = NoInode]
    <3>1. pc[p] = "rename" /\ UNCHANGED content
      BY <2>2 DEF RenameOutput
    <3>2. Faithful(job[p]) /\ job[p].inPlace
      BY <1>1, <3>1 DEF FaithInv, Working, Shape
    <3>3. dir'[job[p].input] = job[p].out
      BY <1>1, <2>2, <3>1, Renamed
    <3>. QED BY <3>1, <3>2, <3>3 DEF Written
  <2>. QED BY <1>1, <2>1, <2>2, SuccessSteps
<1>2. FileTypeInv /\ FaithInv /\ [Next]_vars =>
        [\A p \in Procs :
           (pc[p] # "idle" /\ pc'[p] = "idle" /\ outcome'[p] = "ok") =>
             LET j == job[p]
                 m == content'[dir'[IF j.inPlace THEN j.input ELSE j.output]]
                 sealed == IF j.op = "EncryptFile" THEN m ELSE j.given
                 text   == IF j.op = "EncryptFile" THEN j.given ELSE m
             IN  Decryptable(sealed, j.password) /\ Decrypted(sealed) = text]_vars
  BY <1>1 DEF Succeeds, Faithful, EncryptionOf
<1>. QED BY <1>2, TypeInductive, FaithInductive, PTL DEF Spec, SuccessIsFaithful

-----------------------------------------------------------------------------
(* A user's file, and what encrypting and decrypting it makes of it.       *)

Heads(passwords, i) == IF i <= Len(passwords) THEN i - 1 ELSE Len(passwords)

WholeItem(name, file, passwords, i) ==
  /\ IF i <= Len(passwords) THEN file[i].kind = "header"
     ELSE file[i].kind = "text" /\ file[i].of = <<name, i - Len(passwords)>>
  /\ Len(file[i].layers) = Heads(passwords, i)
  /\ \A h \in 1 .. Heads(passwords, i) :
       file[i].layers[Heads(passwords, i) - h + 1] =
         GCM(DeriveKey(passwords[Len(passwords) - h + 1], SaltOf(file[h])), i - h - 1)

LEMMA WholeItems ==
  ASSUME NEW name, NEW file \in Seq(Items), NEW passwords
  PROVE  Whole(name, file, passwords) <=>
           /\ Len(file) = Len(passwords) + NumChunks
           /\ \A i \in 1 .. Len(file) : WholeItem(name, file, passwords, i)
<1>1. DOMAIN file = 1 .. Len(file)
  BY LenProperties
<1>. QED BY <1>1 DEF Whole, WholeItem, Heads

(* An item of a text, and that item encrypted.                             *)
Wraps(outer, inner, key, n) ==
  /\ outer.kind = inner.kind /\ outer.of = inner.of
  /\ Len(outer.layers) = Len(inner.layers) + 1
  /\ \A k \in 1 .. Len(inner.layers) : outer.layers[k] = inner.layers[k]
  /\ outer.layers[Len(outer.layers)] = GCM(key, n)

LEMMA EncryptionWraps ==
  ASSUME NEW sealed \in Seq(Items), NEW text, NEW password, EncryptionOf(sealed, text, password)
  PROVE  /\ text \in Seq(Items) /\ Len(text) \in Nat /\ Len(sealed) = Len(text) + 1
         /\ sealed[1].kind = "header" /\ Len(sealed[1].layers) = 0
         /\ \A i \in 1 .. Len(text) : Wraps(sealed[i + 1], text[i], KeyOf(sealed, password), i - 1)
<1>1. /\ sealed # <<>> /\ Len(sealed) \in Nat \ {0} /\ Head(sealed) = sealed[1]
      /\ IsHeader(sealed[1])
  BY EmptySeq DEF EncryptionOf, Decryptable
<1>2. text = [i \in 1 .. (Len(sealed) - 1) |-> Open(sealed[i + 1])]
  BY DEF EncryptionOf, Decrypted
<1>3. ASSUME NEW i \in 1 .. (Len(sealed) - 1)
      PROVE  text[i] \in Items /\ Wraps(sealed[i + 1], text[i], KeyOf(sealed, password), i - 1)
  <2>. DEFINE item == sealed[i + 1]
  <2>1. i + 1 \in 1 .. Len(sealed) /\ i + 1 \in 2 .. Len(sealed) /\ (i + 1) - 2 = i - 1
    BY <1>1
  <2>2. item \in Items /\ Authentic(item, KeyOf(sealed, password), i - 1)
    <3>1. Authentic(sealed[i + 1], DeriveKey(password, SaltOf(Head(sealed))), (i + 1) - 2)
      BY <2>1 DEF EncryptionOf, Decryptable
    <3>. QED BY <1>1, <2>1, <3>1, ElementOfSeq DEF KeyOf
  <2>3. text[i] = Open(item)
    BY <1>2
  <2>. HIDE DEF item
  <2>4. /\ item.layers \in Seq(GCMLayers) /\ item.layers # <<>>
        /\ Last(item.layers) = GCM(KeyOf(sealed, password), i - 1)
    BY <2>2, ItemParts DEF Authentic
  <2>5. /\ text[i] \in Items /\ text[i].kind = item.kind /\ text[i].of = item.of
        /\ text[i].layers = Front(item.layers)
    BY <2>2, <2>3, <2>4, OpenType
  <2>6. /\ Len(Front(item.layers)) = Len(item.layers) - 1
        /\ \A k \in 1 .. (Len(item.layers) - 1) : Front(item.layers)[k] = item.layers[k]
        /\ Last(item.layers) = item.layers[Len(item.layers)]
    BY <2>4, FrontIs
  <2>7. Len(item.layers) \in Nat
    BY <2>2, ItemParts
  <2>8. Wraps(item, text[i], KeyOf(sealed, password), i - 1)
    BY <2>4, <2>5, <2>6, <2>7 DEF Wraps
  <2>. QED BY <2>5, <2>8 DEF item
<1>4. text \in Seq(Items) /\ Len(text) = Len(sealed) - 1
  BY <1>1, <1>2, <1>3, IsASeq, LenProperties
<1>5. Len(sealed) = Len(text) + 1 /\ Len(text) \in Nat
  BY <1>1, <1>4
<1>6. sealed[1].kind = "header" /\ Len(sealed[1].layers) = 0
  BY <1>1, EmptySeq DEF IsHeader
<1>7. \A i \in 1 .. Len(text) : Wraps(sealed[i + 1], text[i], KeyOf(sealed, password), i - 1)
  BY <1>3, <1>4
<1>. QED BY <1>4, <1>5, <1>6, <1>7

(* Seen from outside: a file that is whole gets one header and one layer   *)
(* more, and without its first header and its last layer it is whole too.  *)
LEMMA WrappedItem ==
  ASSUME NEW name, NEW passwords \in Seq(Passwords), NEW password \in Passwords,
         NEW sealed \in Seq(Items), NEW text \in Seq(Items),
         \A i \in 1 .. Len(text) : \E key : Wraps(sealed[i + 1], text[i], key, i - 1),
         NEW n \in 1 .. Len(text)
  PROVE  /\ WholeItem(name, sealed, Append(passwords, password), n + 1) => WholeItem(name, text, passwords, n)
         /\ /\ WholeItem(name, text, passwords, n)
            /\ Wraps(sealed[n + 1], text[n], KeyOf(sealed, password), n - 1)
            => WholeItem(name, sealed, Append(passwords, password), n + 1)
<1>. DEFINE longer == Append(passwords, password)
            depth == Len(passwords)
            heads == Heads(passwords, n)
            inner == text[n]
            outer == sealed[n + 1]
<1>1. /\ depth \in Nat /\ n \in Nat \ {0} /\ Len(text) \in Nat /\ n <= Len(text)
      /\ longer \in Seq(Passwords) /\ Len(longer) = depth + 1 /\ longer[depth + 1] = password
      /\ \A i \in 1 .. depth : longer[i] = passwords[i]
  BY LenProperties, AppendProperties
<1>2. heads \in Nat /\ heads <= depth /\ heads <= n - 1 /\ Heads(longer, n + 1) = heads + 1
  <2>. HIDE DEF longer
  <2>. QED BY <1>1 DEF Heads
<1>3. PICK key : Wraps(outer, inner, key, n - 1)
  OBVIOUS
<1>4. /\ outer.kind = inner.kind /\ outer.of = inner.of
      /\ Len(outer.layers) = Len(inner.layers) + 1
      /\ \A k \in 1 .. Len(inner.layers) : outer.layers[k] = inner.layers[k]
  BY <1>3 DEF Wraps
<1>5. Len(inner.layers) \in Nat
  BY ElementOfSeq, ItemParts
<1>6. n + 1 <= Len(longer) <=> n <= depth
  BY <1>1
<1>7. (n + 1) - Len(longer) = n - depth
  BY <1>1
(* The header that layer h was made for, and its place among the layers.   *)
<1>8. ASSUME NEW h \in 1 .. heads, Len(inner.layers) = heads
      PROVE  /\ outer.layers[Heads(longer, n + 1) - (h + 1) + 1] = inner.layers[heads - h + 1]
             /\ GCM(DeriveKey(longer[Len(longer) - (h + 1) + 1], SaltOf(sealed[h + 1])),
                    (n + 1) - (h + 1) - 1)
                = GCM(DeriveKey(passwords[depth - h + 1], SaltOf(text[h])), n - h - 1)
  <2>1. /\ heads - h + 1 \in 1 .. heads /\ Heads(longer, n + 1) - (h + 1) + 1 = heads - h + 1
        /\ depth - h + 1 \in 1 .. depth /\ Len(longer) - (h + 1) + 1 = depth - h + 1
        /\ (n + 1) - (h + 1) - 1 = n - h - 1
        /\ h \in 1 .. Len(text)
    <3>1. /\ h \in Nat /\ h >= 1 /\ h <= heads /\ heads <= depth /\ heads <= n - 1
          /\ heads \in Nat /\ depth \in Nat /\ n \in Nat /\ n <= Len(text) /\ Len(text) \in Nat
      BY <1>1, <1>2
    <3>2. Len(longer) = depth + 1 /\ Heads(longer, n + 1) = heads + 1
      BY <1>1, <1>2
    <3>. HIDE DEF longer, heads, depth
    <3>. QED BY <3>1, <3>2
  <2>2. sealed[h + 1].of = text[h].of
    BY <2>1 DEF Wraps
  <2>3. outer.layers[heads - h + 1] = inner.layers[heads - h + 1]
    BY <1>4, <1>8, <2>1
  <2>4. longer[depth - h + 1] = passwords[depth - h + 1]
    BY <1>1, <2>1
  <2>. HIDE DEF longer, heads, depth, outer, inner
  <2>. QED BY <2>1, <2>2, <2>3, <2>4 DEF SaltOf
<1>9. ASSUME WholeItem(name, sealed, longer, n + 1)
      PROVE  WholeItem(name, text, passwords, n)
  <2>1. /\ IF n <= depth THEN inner.kind = "header" ELSE inner.kind = "text" /\ inner.of = <<name, n - depth>>
        /\ Len(outer.layers) = heads + 1
        /\ \A h \in 1 .. (heads + 1) : outer.layers[Heads(longer, n + 1) - h + 1] =
             GCM(DeriveKey(longer[Len(longer) - h + 1], SaltOf(sealed[h])), (n + 1) - h - 1)
    <3>. HIDE DEF longer, heads, depth
    <3>. QED BY <1>2, <1>4, <1>6, <1>7, <1>9 DEF WholeItem
  <2>2. Len(inner.layers) = heads
    <3>1. Len(outer.layers) = heads + 1 /\ Len(outer.layers) = Len(inner.layers) + 1
      BY <1>4, <2>1
    <3>. HIDE DEF heads, inner, outer
    <3>. QED BY <1>2, <1>5, <3>1
  <2>3. ASSUME NEW h \in 1 .. heads
        PROVE  inner.layers[heads - h + 1] =
                 GCM(DeriveKey(passwords[depth - h + 1], SaltOf(text[h])), n - h - 1)
    <3>1. h + 1 \in 1 .. (heads + 1)
      BY <1>2
    <3>2. outer.layers[Heads(longer, n + 1) - (h + 1) + 1] =
             GCM(DeriveKey(longer[Len(longer) - (h + 1) + 1], SaltOf(sealed[h + 1])), (n + 1) - (h + 1) - 1)
      BY <2>1, <3>1
    <3>. HIDE DEF longer, heads, depth, outer, inner
    <3>. QED BY <1>8, <2>2, <2>3, <3>2
  <2>. QED BY <2>1, <2>2, <2>3 DEF WholeItem
<1>10. ASSUME WholeItem(name, text, passwords, n), Wraps(outer, inner, KeyOf(sealed, password), n - 1)
       PROVE  WholeItem(name, sealed, longer, n + 1)
  <2>1. /\ IF n <= depth THEN inner.kind = "header" ELSE inner.kind = "text" /\ inner.of = <<name, n - depth>>
        /\ Len(inner.layers) = heads
        /\ \A h \in 1 .. heads : inner.layers[heads - h + 1] =
             GCM(DeriveKey(passwords[depth - h + 1], SaltOf(text[h])), n - h - 1)
    BY <1>10 DEF WholeItem
  <2>2. Len(outer.layers) = heads + 1
    BY <1>4, <2>1
  <2>3. ASSUME NEW h \in 1 .. (heads + 1)
        PROVE  outer.layers[(heads + 1) - h + 1] =
                 GCM(DeriveKey(longer[Len(longer) - h + 1], SaltOf(sealed[h])), (n + 1) - h - 1)
    <3>1. CASE h = 1
      <4>1. outer.layers[heads + 1] = GCM(KeyOf(sealed, password), n - 1)
        BY <1>10, <2>2 DEF Wraps
      <4>2. (heads + 1) - h + 1 = heads + 1 /\ (n + 1) - h - 1 = n - 1 /\ Len(longer) - h + 1 = depth + 1
        <5>. HIDE DEF longer, heads, depth
        <5>. QED BY <1>1, <1>2, <3>1
      <4>. HIDE DEF longer, heads, depth, outer, inner
      <4>. QED BY <1>1, <3>1, <4>1, <4>2 DEF KeyOf
    <3>2. CASE h # 1
      <4>1. h - 1 \in 1 .. heads /\ (h - 1) + 1 = h
        <5>. HIDE DEF heads
        <5>. QED BY <1>2, <3>2
      <4>. HIDE DEF longer, heads, depth, outer, inner
      <4>2. /\ outer.layers[Heads(longer, n + 1) - ((h - 1) + 1) + 1] = inner.layers[heads - (h - 1) + 1]
            /\ GCM(DeriveKey(longer[Len(longer) - ((h - 1) + 1) + 1], SaltOf(sealed[(h - 1) + 1])),
                   (n + 1) - ((h - 1) + 1) - 1)
               = GCM(DeriveKey(passwords[depth - (h - 1) + 1], SaltOf(text[h - 1])), n - (h - 1) - 1)
        BY <1>8, <2>1, <4>1
      <4>. QED BY <1>2, <2>1, <4>1, <4>2
    <3>. QED BY <3>1, <3>2
  <2>. HIDE DEF longer, heads, depth
  <2>. QED BY <1>2, <1>4, <1>6, <1>7, <2>1, <2>2, <2>3 DEF WholeItem
<1>. QED BY <1>9, <1>10

LEMMA LastIs ==
  ASSUME NEW passwords \in Seq(Passwords), passwords # <<>>
  PROVE  /\ Len(passwords) \in Nat /\ Len(passwords) >= 1
         /\ Front(passwords) \in Seq(Passwords) /\ Len(Front(passwords)) = Len(passwords) - 1
         /\ \A i \in 1 .. (Len(passwords) - 1) : Front(passwords)[i] = passwords[i]
         /\ Last(passwords) = passwords[Len(passwords)] /\ Last(passwords) \in Passwords
<1>1. Len(passwords) \in Nat /\ Len(passwords) >= 1
  BY EmptySeq, LenProperties
<1>2. passwords[Len(passwords)] \in Passwords
  BY <1>1, ElementOfSeq
<1>. QED BY <1>1, <1>2, FrontIs

LEMMA EncryptedWhole ==
  ASSUME NEW name, NEW passwords \in Seq(Passwords), NEW password \in Passwords,
         NEW sealed \in Seq(Items), NEW text, EncryptionOf(sealed, text, password),
         Whole(name, text, passwords)
  PROVE  Whole(name, sealed, Append(passwords, password))
<1>. DEFINE longer == Append(passwords, password)
<1>1. /\ text \in Seq(Items) /\ Len(text) \in Nat /\ Len(sealed) = Len(text) + 1
      /\ sealed[1].kind = "header" /\ Len(sealed[1].layers) = 0
      /\ \A i \in 1 .. Len(text) : Wraps(sealed[i + 1], text[i], KeyOf(sealed, password), i - 1)
  BY EncryptionWraps
<1>2. Len(longer) = Len(passwords) + 1 /\ Len(passwords) \in Nat
  BY AppendProperties, LenProperties
<1>3. /\ Len(text) = Len(passwords) + NumChunks
      /\ \A i \in 1 .. Len(text) : WholeItem(name, text, passwords, i)
  BY <1>1, WholeItems
<1>4. ASSUME NEW i \in 1 .. Len(sealed) PROVE WholeItem(name, sealed, longer, i)
  <2>1. CASE i = 1
    <3>. HIDE DEF longer
    <3>1. Heads(longer, i) = 0
      BY <1>2, <2>1 DEF Heads
    <3>. QED BY <1>1, <1>2, <2>1, <3>1 DEF WholeItem
  <2>2. CASE i # 1
    <3>. DEFINE n == i - 1
    <3>1. n \in 1 .. Len(text) /\ n + 1 = i
      BY <1>1, <2>2
    <3>. HIDE DEF n
    <3>2. WholeItem(name, sealed, longer, n + 1)
      BY <1>1, <1>3, <3>1, WrappedItem
    <3>. QED BY <3>1, <3>2
  <2>. QED BY <2>1, <2>2
<1>5. Len(sealed) = Len(longer) + NumChunks
  BY <1>1, <1>2, <1>3
<1>. HIDE DEF longer
<1>6. Whole(name, sealed, longer)
  BY <1>4, <1>5, WholeItems
<1>. QED BY <1>6 DEF longer

LEMMA DecryptedWhole ==
  ASSUME NEW name, NEW passwords \in Seq(Passwords), NEW password,
         NEW sealed \in Seq(Items), NEW text, EncryptionOf(sealed, text, password),
         Whole(name, sealed, passwords)
  PROVE  /\ passwords # <<>> /\ text \in Seq(Items) /\ Whole(name, text, Front(passwords))
         /\ NumChunks > 0 => Last(passwords) = password
<1>. DEFINE shorter == Front(passwords)
            last == Last(passwords)
<1>1. /\ text \in Seq(Items) /\ Len(text) \in Nat /\ Len(sealed) = Len(text) + 1
      /\ sealed[1].kind = "header"
      /\ \A i \in 1 .. Len(text) : Wraps(sealed[i + 1], text[i], KeyOf(sealed, password), i - 1)
  BY EncryptionWraps
<1>2. /\ Len(sealed) = Len(passwords) + NumChunks /\ Len(passwords) \in Nat
      /\ \A i \in 1 .. Len(sealed) : WholeItem(name, sealed, passwords, i)
  BY WholeItems, LenProperties
<1>3. passwords # <<>> /\ Len(passwords) >= 1
  <2>1. 1 \in 1 .. Len(sealed)
    BY <1>1
  <2>2. WholeItem(name, sealed, passwords, 1)
    BY <1>2, <2>1
  <2>3. 1 <= Len(passwords)
    BY <1>1, <2>2 DEF WholeItem
  <2>. QED BY <1>2, <2>3, EmptySeq
<1>4. /\ shorter \in Seq(Passwords) /\ Len(shorter) = Len(passwords) - 1
      /\ \A i \in 1 .. (Len(passwords) - 1) : shorter[i] = passwords[i]
      /\ last = passwords[Len(passwords)] /\ last \in Passwords
  BY <1>3, LastIs
<1>5. passwords = Append(shorter, last)
  <2>. HIDE DEF shorter, last
  <2>1. /\ Append(shorter, last) \in Seq(Passwords) /\ Len(Append(shorter, last)) = Len(passwords)
        /\ \A i \in 1 .. Len(shorter) : Append(shorter, last)[i] = shorter[i]
        /\ Append(shorter, last)[Len(shorter) + 1] = last
    BY <1>2, <1>4, AppendProperties
  <2>2. \A i \in 1 .. Len(passwords) : Append(shorter, last)[i] = passwords[i]
    BY <1>2, <1>4, <2>1
  <2>. QED BY <2>1, <2>2, SeqEqual
<1>. HIDE DEF shorter, last
<1>6. ASSUME NEW n \in 1 .. Len(text) PROVE WholeItem(name, text, shorter, n)
  <2>1. WholeItem(name, sealed, Append(shorter, last), n + 1)
    BY <1>1, <1>2, <1>5
  <2>. QED BY ZenonT(30), <1>1, <1>4, <2>1, WrappedItem
<1>7. Whole(name, text, shorter)
  <2>1. Len(text) = Len(shorter) + NumChunks
    <3>1. /\ Len(text) \in Nat /\ Len(sealed) = Len(text) + 1 /\ Len(passwords) \in Nat
          /\ Len(sealed) = Len(passwords) + NumChunks /\ Len(shorter) = Len(passwords) - 1
      BY <1>1, <1>2, <1>4
    <3>. QED BY <3>1
  <2>. QED BY <1>1, <1>6, <2>1, WholeItems
<1>8. ASSUME NumChunks > 0 PROVE last = password
  <2>. DEFINE second == 2
              depth == Len(passwords)
  <2>1. second \in 1 .. Len(sealed) /\ second - 1 \in 1 .. Len(text) /\ second = (second - 1) + 1
    BY <1>1, <1>2, <1>3, <1>8
  <2>2. WholeItem(name, sealed, passwords, second)
    BY <1>2, <2>1
  <2>3. Heads(passwords, second) = 1
    <3>1. Heads(passwords, second) = IF second <= depth THEN second - 1 ELSE depth
      BY DEF Heads
    <3>2. depth \in Nat /\ depth >= 1
      BY <1>2, <1>3
    <3>. HIDE DEF depth
    <3>. QED BY <3>1, <3>2
  <2>4. /\ Len(sealed[second].layers) = 1
        /\ sealed[second].layers[1] = GCM(DeriveKey(passwords[depth], SaltOf(sealed[1])), 0)
    <3>1. \A h \in 1 .. 1 : sealed[second].layers[1 - h + 1] =
             GCM(DeriveKey(passwords[depth - h + 1], SaltOf(sealed[h])), second - h - 1)
      BY <2>2, <2>3 DEF WholeItem
    <3>2. 1 - 1 + 1 = 1 /\ depth - 1 + 1 = depth /\ second - 1 - 1 = 0 /\ 1 \in 1 .. 1
      BY <1>2
    <3>. QED BY <2>2, <2>3, <3>1, <3>2 DEF WholeItem
  <2>5. Wraps(sealed[second], text[second - 1], KeyOf(sealed, password), 0)
    <3>1. Wraps(sealed[(second - 1) + 1], text[second - 1], KeyOf(sealed, password), (second - 1) - 1)
      BY <1>1, <2>1
    <3>. QED BY <3>1
  <2>6. DeriveKey(passwords[depth], SaltOf(sealed[1])) = DeriveKey(password, SaltOf(sealed[1]))
    BY <2>4, <2>5 DEF Wraps, GCM, KeyOf
  <2>. QED BY <1>4, <2>6 DEF DeriveKey
<1>. QED BY <1>1, <1>3, <1>7, <1>8 DEF shorter, last

(* A whole file can be decrypted, by its last password; without passwords  *)
(* it is the user's text.                                                  *)
LEMMA WholeDecryptable ==
  ASSUME NEW name, NEW file \in Seq(Items), NEW passwords \in Seq(Passwords), passwords # <<>>,
         Whole(name, file, passwords)
  PROVE  EncryptionOf(file, Decrypted(file), Last(passwords)) /\ Last(passwords) \in Passwords
<1>. DEFINE depth == Len(passwords)
            key == DeriveKey(passwords[depth], SaltOf(file[1]))
<1>1. /\ depth \in Nat /\ depth >= 1
      /\ Last(passwords) = passwords[depth] /\ passwords[depth] \in Passwords
  BY LastIs
<1>2. /\ Len(file) = depth + NumChunks /\ Len(file) \in Nat /\ Len(file) >= 1
      /\ \A i \in 1 .. Len(file) : WholeItem(name, file, passwords, i)
  <2>1. Len(file) = depth + NumChunks /\ \A i \in 1 .. Len(file) : WholeItem(name, file, passwords, i)
    BY WholeItems
  <2>2. depth + NumChunks \in Nat /\ depth + NumChunks >= 1
    <3>. HIDE DEF depth
    <3>. QED BY <1>1
  <2>. HIDE DEF depth
  <2>. QED BY <2>1, <2>2
<1>. HIDE DEF key, depth
<1>3. file # <<>> /\ Head(file) = file[1] /\ IsHeader(file[1])
  <2>1. 1 \in 1 .. Len(file) /\ file[1] \in Items
    BY <1>2, ElementOfSeq
  <2>2. WholeItem(name, file, passwords, 1)
    BY <1>2, <2>1
  <2>3. Heads(passwords, 1) = 0
    BY <1>1 DEF Heads, depth
  <2>4. file[1].kind = "header" /\ Len(file[1].layers) = 0
    BY <1>1, <2>2, <2>3 DEF WholeItem, depth
  <2>5. file[1].layers = <<>>
    BY <2>1, <2>4, ItemParts, EmptySeq
  <2>6. file # <<>>
    BY <1>2, EmptySeq
  <2>. QED BY <2>4, <2>5, <2>6 DEF IsHeader
<1>4. ASSUME NEW i \in 2 .. Len(file) PROVE Authentic(file[i], key, i - 2)
  <2>. DEFINE heads == Heads(passwords, i)
  <2>1. WholeItem(name, file, passwords, i) /\ file[i] \in Items
    BY <1>2, ElementOfSeq
  <2>2. heads \in Nat /\ heads >= 1
    BY <1>1, <1>2 DEF Heads, depth
  <2>3. /\ Len(file[i].layers) = heads
        /\ \A h \in 1 .. heads : file[i].layers[heads - h + 1] =
             GCM(DeriveKey(passwords[depth - h + 1], SaltOf(file[h])), i - h - 1)
    BY <2>1 DEF WholeItem, depth
  <2>. HIDE DEF heads
  <2>4. file[i].layers[heads] = GCM(key, i - 2)
    <3>1. 1 \in 1 .. heads /\ heads - 1 + 1 = heads /\ depth - 1 + 1 = depth /\ i - 1 - 1 = i - 2
      BY <1>1, <1>2, <2>2
    <3>2. file[i].layers[heads - 1 + 1] = GCM(DeriveKey(passwords[depth - 1 + 1], SaltOf(file[1])), i - 1 - 1)
      BY <2>3, <3>1
    <3>. QED BY <3>1, <3>2 DEF key
  <2>5. file[i].layers \in Seq(GCMLayers) /\ file[i].layers # <<>>
    BY <2>1, <2>2, <2>3, ItemParts, EmptySeq
  <2>6. Last(file[i].layers) = file[i].layers[heads]
    BY <2>3, <2>5, FrontIs
  <2>. QED BY <2>4, <2>5, <2>6 DEF Authentic
<1>5. Decryptable(file, Last(passwords))
  BY <1>1, <1>3, <1>4 DEF Decryptable, key
<1>. QED BY <1>1, <1>5 DEF EncryptionOf

LEMMA WholeText ==
  ASSUME NEW name, NEW file \in Seq(Items)
  PROVE  Whole(name, file, <<>>) <=> file = Original(name)
<1>. DEFINE none == <<>>
<1>1. Len(none) = 0
  OBVIOUS
<1>. HIDE DEF none
<1>2. Whole(name, file, none) <=>
        Len(file) = NumChunks /\ \A i \in 1 .. Len(file) : WholeItem(name, file, none, i)
  BY <1>1, WholeItems
<1>3. ASSUME NEW i \in 1 .. Len(file) PROVE WholeItem(name, file, none, i) <=> file[i] = Text(name, i)
  <2>1. Heads(none, i) = 0 /\ i - Len(none) = i /\ ~(i <= Len(none))
    BY <1>1 DEF Heads
  <2>2. WholeItem(name, file, none, i) <=>
          file[i].kind = "text" /\ file[i].of = <<name, i>> /\ Len(file[i].layers) = 0
    BY <2>1 DEF WholeItem
  <2>3. file[i] \in Items
    BY ElementOfSeq
  <2>4. Len(file[i].layers) = 0 <=> file[i].layers = <<>>
    BY <2>3, ItemParts, EmptySeq
  <2>. QED BY <2>2, <2>3, <2>4, ItemParts DEF Text
<1>4. file = Original(name) <=> Len(file) = NumChunks /\ \A i \in 1 .. Len(file) : file[i] = Text(name, i)
  <2>1. Len(Original(name)) = NumChunks
    BY LenProperties DEF Original
  <2>2. file = [i \in 1 .. Len(file) |-> file[i]]
    BY LenProperties
  <2>. QED BY <2>1, <2>2 DEF Original
<1>. QED BY <1>2, <1>3, <1>4 DEF none

-----------------------------------------------------------------------------
(* What decrypting finds. Versions is defined by recursion on a number;    *)
(* that the recursion has a value, and what it holds, both follow from the *)
(* least number for which they would not.                                  *)

LEMMA Least ==
  ASSUME NEW S, S \subseteq Nat, S # {}
  PROVE  \E i \in S : \A k \in S : i <= k
<1>. DEFINE R == OpToRel(<, Nat)
<1>1. IsWellFoundedOn(R, Nat)
  BY NatLessThanWellFounded
<1>2. \A a, b \in Nat : a < b => <<a, b>> \in R
  BY DEF OpToRel
<1>. HIDE DEF R
<1>3. PICK i \in S : \A k \in S : ~(<<k, i>> \in R)
  BY <1>1, WFMin
<1>4. ASSUME NEW k \in S PROVE i <= k
  <2>1. i \in Nat /\ k \in Nat /\ ~(k < i)
    BY <1>2, <1>3
  <2>. QED BY <2>1
<1>. QED BY <1>4

Peelable(files) == {u \in files : \E password \in Passwords : Decryptable(u, password)}
Peeled(files) == files \union {Decrypted(v) : v \in Peelable(files)}

IsPeel(peel, file, m) ==
  peel = [n \in 0 .. m |-> IF n = 0 THEN {file} ELSE Peeled(peel[n - 1])]

LEMMA PeelExists ==
  ASSUME NEW file, NEW m \in Nat
  PROVE  \E peel : IsPeel(peel, file, m)
<1>. DEFINE Bad == {k \in Nat : ~ \E peel : IsPeel(peel, file, k)}
<1>1. SUFFICES ASSUME Bad # {} PROVE FALSE
  OBVIOUS
<1>2. PICK k \in Bad : \A i \in Bad : k <= i
  <2>1. Bad \subseteq Nat
    OBVIOUS
  <2>. HIDE DEF Bad
  <2>. QED BY <1>1, <2>1, Least
<1>3. k # 0
  <2>1. ASSUME k = 0 PROVE FALSE
    <3>. DEFINE peel == [n \in 0 .. 0 |-> {file}]
    <3>1. peel = [n \in 0 .. 0 |-> IF n = 0 THEN {file} ELSE Peeled(peel[n - 1])]
      OBVIOUS
    <3>2. IsPeel(peel, file, 0)
      BY <3>1 DEF IsPeel
    <3>. HIDE DEF peel
    <3>. QED BY <2>1, <3>2
  <2>. QED BY <2>1
<1>4. k - 1 \in Nat /\ k - 1 \notin Bad
  BY <1>2, <1>3
<1>5. PICK shorter : IsPeel(shorter, file, k - 1)
  BY <1>4
<1>. DEFINE peel == [n \in 0 .. k |-> IF n = k THEN Peeled(shorter[k - 1]) ELSE shorter[n]]
<1>6. ASSUME NEW n \in 0 .. k
      PROVE  peel[n] = IF n = 0 THEN {file} ELSE Peeled(peel[n - 1])
  <2>1. shorter = [i \in 0 .. (k - 1) |-> IF i = 0 THEN {file} ELSE Peeled(shorter[i - 1])]
    BY <1>5 DEF IsPeel
  <2>2. CASE n = k
    <3>1. peel[n] = Peeled(shorter[k - 1]) /\ k - 1 \in 0 .. k /\ k - 1 # k
      BY <1>4, <2>2
    <3>2. peel[k - 1] = shorter[k - 1]
      BY <3>1
    <3>. HIDE DEF peel
    <3>. QED BY <1>3, <2>2, <3>1, <3>2
  <2>3. CASE n # k
    <3>1. n \in 0 .. (k - 1) /\ peel[n] = shorter[n]
      BY <1>4, <2>3
    <3>2. n # 0 => n - 1 \in 0 .. k /\ n - 1 # k
      BY <1>4, <2>3
    <3>3. n # 0 => peel[n - 1] = shorter[n - 1]
      BY <3>2
    <3>. HIDE DEF peel
    <3>. QED BY <2>1, <3>1, <3>3
  <2>. QED BY <2>2, <2>3
<1>7. peel = [n \in 0 .. k |-> IF n = 0 THEN {file} ELSE Peeled(peel[n - 1])]
  <2>1. peel = [n \in 0 .. k |-> peel[n]]
    OBVIOUS
  <2>. HIDE DEF peel
  <2>. QED BY <1>6, <2>1
<1>8. IsPeel(peel, file, k)
  BY <1>7 DEF IsPeel
<1>. HIDE DEF peel
<1>. QED BY <1>2, <1>8

LEMMA VersionsPeel ==
  ASSUME NEW file
  PROVE  \E peel : IsPeel(peel, file, MaxCommands) /\ Versions(file) = peel[MaxCommands]
<1>. DEFINE peel == CHOOSE f : IsPeel(f, file, MaxCommands)
<1>1. IsPeel(peel, file, MaxCommands)
  BY PeelExists
<1>2. Versions(file) = peel[MaxCommands]
  BY DEF Versions, IsPeel, Peeled, Peelable
<1>. QED BY <1>1, <1>2

(* As many decryptions as the file has passwords give the text.            *)
LEMMA WholeRecovered ==
  ASSUME NEW name, NEW file \in Seq(Items), NEW passwords \in Seq(Passwords),
         Whole(name, file, passwords), Len(passwords) <= MaxCommands
  PROVE  Original(name) \in Versions(file)
<1>. DEFINE Rest(k) == IF k <= Len(passwords) THEN Len(passwords) - k ELSE 0
            Good(k, v, ps) == /\ v \in Seq(Items) /\ ps \in Seq(Passwords) /\ Len(ps) = Rest(k)
                              /\ Whole(name, v, ps)
<1>1. PICK peel : IsPeel(peel, file, MaxCommands) /\ Versions(file) = peel[MaxCommands]
  BY VersionsPeel
<1>2. /\ MaxCommands \in Nat /\ peel[0] = {file}
      /\ \A k \in 1 .. MaxCommands : peel[k] = Peeled(peel[k - 1])
  <2>. HIDE DEF Good, Rest
  <2>1. peel = [n \in 0 .. MaxCommands |-> IF n = 0 THEN {file} ELSE Peeled(peel[n - 1])]
    BY <1>1 DEF IsPeel
  <2>2. ASSUME NEW k \in 0 .. MaxCommands
        PROVE  peel[k] = IF k = 0 THEN {file} ELSE Peeled(peel[k - 1])
    BY <2>1
  <2>3. 0 \in 0 .. MaxCommands
    OBVIOUS
  <2>4. \A k \in 1 .. MaxCommands : k \in 0 .. MaxCommands /\ k # 0
    OBVIOUS
  <2>. QED BY <2>2, <2>3, <2>4
<1>3. Len(passwords) \in Nat
  BY LenProperties
<1>. DEFINE Bad == {k \in 0 .. MaxCommands : ~ \E v \in peel[k] : \E ps : Good(k, v, ps)}
<1>4. Bad = {}
  <2>1. SUFFICES ASSUME Bad # {} PROVE FALSE
    OBVIOUS
  <2>2. PICK k \in Bad : \A i \in Bad : k <= i
    <3>1. Bad \subseteq Nat
      BY <1>2
    <3>. HIDE DEF Bad
    <3>. QED BY <2>1, <3>1, Least
  <2>3. k \in 0 .. MaxCommands /\ ~ \E v \in peel[k] : \E ps : Good(k, v, ps)
    OBVIOUS
  <2>4. k # 0
    <3>1. ASSUME k = 0 PROVE FALSE
      <4>1. Good(k, file, passwords) /\ file \in peel[k]
        BY <1>2, <1>3, <3>1
      <4>. HIDE DEF Good
      <4>. QED BY <2>3, <4>1
    <3>. QED BY <3>1
  <2>5. k - 1 \in 0 .. MaxCommands /\ k \in 1 .. MaxCommands /\ k - 1 \notin Bad
    <3>1. k \in Nat /\ k <= MaxCommands
      BY <2>3
    <3>. HIDE DEF Bad, Good
    <3>2. k - 1 \in 0 .. MaxCommands /\ k \in 1 .. MaxCommands /\ ~(k <= k - 1)
      BY <1>2, <2>4, <3>1
    <3>. QED BY <2>2, <3>2
  <2>6. PICK v, ps : v \in peel[k - 1] /\ Good(k - 1, v, ps)
    <3>. HIDE DEF Good
    <3>. QED BY <2>5
  <2>7. v \in peel[k]
    BY <1>2, <2>5, <2>6 DEF Peeled
  <2>8. Len(ps) \in Nat /\ Len(ps) = Rest(k - 1)
    BY <2>6, LenProperties
  <2>9. CASE Len(ps) = 0
    <3>1. Rest(k) = 0
      BY <1>3, <2>3, <2>8, <2>9
    <3>2. Good(k, v, ps)
      BY <2>6, <2>9, <3>1
    <3>. HIDE DEF Good
    <3>. QED BY <2>3, <2>7, <3>2
  <2>10. CASE Len(ps) # 0
    <3>1. ps # <<>>
      BY <2>6, <2>10, EmptySeq
    <3>2. EncryptionOf(v, Decrypted(v), Last(ps)) /\ Last(ps) \in Passwords
      BY <2>6, <3>1, WholeDecryptable
    <3>3. Decrypted(v) \in Seq(Items) /\ Whole(name, Decrypted(v), Front(ps))
      BY <2>6, <3>2, DecryptedWhole
    <3>4. Front(ps) \in Seq(Passwords) /\ Len(Front(ps)) = Rest(k)
      <4>1. Front(ps) \in Seq(Passwords) /\ Len(Front(ps)) = Len(ps) - 1
        BY <2>6, <3>1, LastIs
      <4>2. Rest(k) = Rest(k - 1) - 1
        BY <1>3, <2>3, <2>5, <2>8, <2>10
      <4>. HIDE DEF Rest
      <4>. QED BY <2>8, <4>1, <4>2
    <3>5. Good(k, Decrypted(v), Front(ps))
      BY <3>3, <3>4
    <3>6. Decrypted(v) \in peel[k]
      <4>1. v \in Peelable(peel[k - 1])
        BY <2>6, <3>2 DEF EncryptionOf, Peelable
      <4>. QED BY <1>2, <2>5, <4>1 DEF Peeled
    <3>. HIDE DEF Good
    <3>. QED BY <2>3, <3>5, <3>6
  <2>. QED BY <2>9, <2>10
<1>5. PICK v, ps : v \in peel[MaxCommands] /\ Good(MaxCommands, v, ps)
  <2>1. MaxCommands \in 0 .. MaxCommands /\ MaxCommands \notin Bad
    BY SMTT(30), <1>2, <1>4
  <2>. HIDE DEF Good
  <2>. QED BY <2>1
<1>6. ps = <<>>
  <2>1. Rest(MaxCommands) = 0
    BY <1>2, <1>3
  <2>. QED BY <1>5, <2>1, EmptySeq
<1>7. v = Original(name)
  BY <1>5, <1>6, WholeText
<1>. QED BY <1>1, <1>5, <1>7

-----------------------------------------------------------------------------
(* Where the user's file is: under its name, or, from os.Remove on, under  *)
(* the temporary's; and requests that write no file of the user's but by   *)
(* replacing it.                                                           *)
ToCopies == \A r \in Requests : r.output \notin Files

Worked(name, p) == pc[p] # "idle" /\ job[p].input = Path(name)

Kept(name, path) ==
  /\ path \in Paths /\ path[1] = name /\ dir[path] # NoInode
  /\ \E passwords \in Seq(Passwords) :
       /\ Whole(name, content[dir[path]], passwords)
       /\ Len(passwords) <= issued
       /\ path = Path(name) /\ (\E p \in Procs : Worked(name, p)) => Len(passwords) < issued
  /\ path # Path(name) =>
       /\ dir[Path(name)] = NoInode
       /\ \A p \in Procs : Worked(name, p) =>
            pc[p] = "open" \/ (pc[p] = "rename" /\ job[p].output = path)

CopiesOnly == \A p \in Procs : pc[p] # "idle" /\ ~job[p].inPlace => job[p].output[1] \notin Files

KeptInv == CopiesOnly /\ \A name \in Files : \E path \in Paths : Kept(name, path)

(* The three kinds of steps of a running command.                          *)
Removes(p) ==
  /\ pc[p] = "remove" /\ pc'[p] = "rename" /\ job'[p] = job[p]
  /\ dir' = [dir EXCEPT ![job[p].input] = NoInode]

Renames(p) ==
  /\ pc[p] = "rename" /\ pc'[p] = "idle"
  /\ dir' = [dir EXCEPT ![job[p].input] = dir[job[p].output], ![job[p].output] = NoInode]

Prepares(p) ==
  /\ Spares(p)
  /\ pc[p] \in {"open", "rename"} => UNCHANGED <<dir, content>>
  /\ pc[p] = "rename" \/ (pc[p] = "open" /\ dir[job[p].input] = NoInode) => pc'[p] = "idle"
  /\ pc'[p] # "idle" =>
       /\ pc'[p] # "open" /\ job'[p].input = job[p].input
       /\ job'[p].output = job[p].output /\ job'[p].inPlace = job[p].inPlace
  /\ UNCHANGED <<dir, content>> \/ pc[p] \in {"create", "stamp", "write"}

LEMMA ExitPrepares ==
  ASSUME FileTypeInv, NEW p \in Procs, NEW result, Exit(p, result), UNCHANGED fs
  PROVE  Moves(p) /\ pc'[p] = "idle" /\ Prepares(p)
<1>1. Moves(p) /\ pc'[p] = "idle"
  BY OneMoves DEF Exit
<1>. QED BY <1>1, NothingTouched DEF Prepares, fs

LEMMA GoesOnPrepares ==
  ASSUME FileTypeInv, NEW p \in Procs, NEW to, Goto(p, to), NEW j, job' = [job EXCEPT ![p] = j],
         j.input = job[p].input, j.output = job[p].output, j.inPlace = job[p].inPlace,
         Spares(p), UNCHANGED <<dir, content>> \/ pc[p] \in {"create", "stamp", "write"},
         to # "open", pc[p] # "rename", pc[p] = "open" => dir[job[p].input] # NoInode
  PROVE  Moves(p) /\ Prepares(p)
<1>1. Moves(p) /\ pc'[p] = to /\ job'[p] = j
  BY OneMoves
<1>. QED BY <1>1 DEF Prepares

LEMMA StepKinds ==
  ASSUME FileTypeInv, FaithInv, NEW p \in Procs, Proceed(p) \/ Kill(p)
  PROVE  /\ pc[p] # "idle" /\ Moves(p) /\ UNCHANGED issued
         /\ Prepares(p) \/ ((Removes(p) \/ Renames(p)) /\ UNCHANGED content)
<1>1. pc[p] # "idle" /\ UNCHANGED issued
  BY DEF Proceed, Kill, OpenInput, ReadFileHeader, CreateOutput, WriteFileHeader, ReadChunk,
     WriteChunk, EndOfInput, RemoveInput, RenameOutput
<1>2. job[p] \in Jobs
  BY <1>1, JobType
<1>3. SUFFICES Moves(p) /\ (Prepares(p) \/ ((Removes(p) \/ Renames(p)) /\ UNCHANGED content))
  BY <1>1
<1>4. ASSUME NEW result, Exit(p, result), UNCHANGED fs PROVE Moves(p) /\ Prepares(p)
  BY <1>4, ExitPrepares
<1>5. CASE OpenInput(p)
  <2>. DEFINE inode == dir[job[p].input]
              r == [job[p] EXCEPT !.in = inode, !.given = content[inode]]
  <2>1. pc[p] = "open" /\ UNCHANGED fs
    BY <1>5 DEF OpenInput
  <2>2. CASE Exit(p, "error")
    BY <1>4, <2>1, <2>2
  <2>3. CASE /\ inode # NoInode /\ job' = [job EXCEPT ![p].in = inode, ![p].given = content[inode]]
             /\ Goto(p, IF job[p].op = "EncryptFile" THEN "create" ELSE "header")
    <3>1. job' = [job EXCEPT ![p] = r]
      BY <2>3, Types DEF ProcTypes
    <3>2. r.input = job[p].input /\ r.output = job[p].output /\ r.inPlace = job[p].inPlace
      BY <1>2 DEF Jobs
    <3>. DEFINE to == IF job[p].op = "EncryptFile" THEN "create" ELSE "header"
    <3>3. Goto(p, to) /\ to # "open" /\ Spares(p) /\ UNCHANGED <<dir, content>>
      BY <2>1, <2>3, NothingTouched DEF fs
    <3>. HIDE DEF r, to
    <3>. QED BY <1>1, <2>1, <2>3, <3>1, <3>2, <3>3, GoesOnPrepares
  <2>. QED BY <1>1, <1>5, <2>2, <2>3 DEF OpenInput
<1>6. CASE ReadFileHeader(p)
  <2>. DEFINE key == DeriveKey(job[p].password, SaltOf(Head(content[job[p].in])))
              r == [job[p] EXCEPT !.key = key, !.inPos = 2]
              to == "create"
  <2>1. pc[p] = "header" /\ UNCHANGED fs
    BY <1>6 DEF ReadFileHeader
  <2>2. CASE Exit(p, "error")
    BY <1>4, <2>1, <2>2
  <2>3. CASE job' = [job EXCEPT ![p].key = key, ![p].inPos = 2] /\ Goto(p, "create")
    <3>1. job' = [job EXCEPT ![p] = r]
      BY <2>3, Types DEF ProcTypes
    <3>2. r.input = job[p].input /\ r.output = job[p].output /\ r.inPlace = job[p].inPlace
      BY <1>2 DEF Jobs
    <3>3. Goto(p, to) /\ to # "open" /\ Spares(p) /\ UNCHANGED <<dir, content>>
      BY <2>1, <2>3, NothingTouched DEF fs
    <3>. HIDE DEF r, to, key
    <3>. QED BY <2>1, <3>1, <3>2, <3>3, GoesOnPrepares
  <2>. QED BY <1>1, <1>6, <2>2, <2>3 DEF ReadFileHeader
<1>7. CASE CreateOutput(p)
  <2>. DEFINE inode == IF dir[job[p].output] = NoInode THEN nextInode ELSE dir[job[p].output]
              r == [job[p] EXCEPT !.out = inode]
              to == IF job[p].op = "EncryptFile" THEN "stamp" ELSE "read"
  <2>1. pc[p] = "create" /\ Spares(p)
    BY <1>7, CreateOutputFaith DEF CreateOutput
  <2>2. CASE Exit(p, "error") /\ UNCHANGED fs
    BY <1>4, <2>2
  <2>3. CASE job' = [job EXCEPT ![p].out = inode] /\ Goto(p, to)
    <3>1. job' = [job EXCEPT ![p] = r]
      BY <2>3, Types DEF ProcTypes
    <3>2. r.input = job[p].input /\ r.output = job[p].output /\ r.inPlace = job[p].inPlace
      BY <1>2 DEF Jobs
    <3>3. Goto(p, to) /\ to # "open"
      BY <2>3
    <3>. HIDE DEF r, to, inode
    <3>. QED BY <2>1, <3>1, <3>2, <3>3, GoesOnPrepares
  <2>. QED BY <1>1, <1>7, <2>2, <2>3 DEF CreateOutput
<1>8. CASE WriteFileHeader(p)
  <2>. DEFINE key == DeriveKey(job[p].password, nextSalt)
              r == [job[p] EXCEPT !.key = key, !.outPos = 2]
              to == "read"
  <2>1. pc[p] = "stamp" /\ Spares(p)
    BY <1>8, WriteFileHeaderFaith DEF WriteFileHeader
  <2>2. CASE Exit(p, "error") /\ UNCHANGED fs
    BY <1>4, <2>2
  <2>3. CASE job' = [job EXCEPT ![p].key = key, ![p].outPos = 2] /\ Goto(p, "read")
    <3>1. job' = [job EXCEPT ![p] = r]
      BY <2>3, Types DEF ProcTypes
    <3>2. r.input = job[p].input /\ r.output = job[p].output /\ r.inPlace = job[p].inPlace
      BY <1>2 DEF Jobs
    <3>3. Goto(p, to) /\ to # "open"
      BY <2>3
    <3>. HIDE DEF r, to, key
    <3>. QED BY <2>1, <3>1, <3>2, <3>3, GoesOnPrepares
  <2>. QED BY <1>1, <1>8, <2>2, <2>3 DEF WriteFileHeader
<1>9. CASE ReadChunk(p)
  <2>. DEFINE item == content[job[p].in][job[p].inPos]
              buf == IF job[p].op = "EncryptFile"
                     THEN Seal(item, job[p].key, ChunkNum(job[p])) ELSE Open(item)
              r == [job[p] EXCEPT !.buf = buf]
              to == "write"
  <2>1. pc[p] = "read" /\ UNCHANGED fs
    BY <1>9 DEF ReadChunk
  <2>2. CASE Exit(p, "error")
    BY <1>4, <2>1, <2>2
  <2>3. CASE job' = [job EXCEPT ![p].buf = buf] /\ Goto(p, "write")
    <3>1. job' = [job EXCEPT ![p] = r]
      BY <2>3, Types DEF ProcTypes
    <3>2. r.input = job[p].input /\ r.output = job[p].output /\ r.inPlace = job[p].inPlace
      <4>. HIDE DEF buf
      <4>. QED BY <1>2 DEF Jobs
    <3>3. Goto(p, to) /\ to # "open" /\ Spares(p) /\ UNCHANGED <<dir, content>>
      BY <2>1, <2>3, NothingTouched DEF fs
    <3>. HIDE DEF r, to, buf
    <3>. QED BY <2>1, <3>1, <3>2, <3>3, GoesOnPrepares
  <2>. QED BY <1>1, <1>9, <2>2, <2>3 DEF ReadChunk
<1>10. CASE WriteChunk(p)
  <2>. DEFINE r == [job[p] EXCEPT !.inPos = job[p].inPos + 1, !.outPos = job[p].outPos + 1]
              to == "read"
  <2>1. pc[p] = "write" /\ Spares(p)
    BY <1>10, WriteChunkFaith DEF WriteChunk
  <2>2. CASE Exit(p, "error") /\ UNCHANGED fs
    BY <1>4, <2>2
  <2>3. CASE /\ job' = [job EXCEPT ![p].inPos = job[p].inPos + 1, ![p].outPos = job[p].outPos + 1]
             /\ Goto(p, "read")
    <3>1. job' = [job EXCEPT ![p] = r]
      BY <2>3, Types DEF ProcTypes
    <3>2. r.input = job[p].input /\ r.output = job[p].output /\ r.inPlace = job[p].inPlace
      BY <1>2 DEF Jobs
    <3>3. Goto(p, to) /\ to # "open"
      BY <2>3
    <3>. HIDE DEF r, to
    <3>. QED BY <2>1, <3>1, <3>2, <3>3, GoesOnPrepares
  <2>. QED BY <1>1, <1>10, <2>2, <2>3 DEF WriteChunk
<1>11. CASE EndOfInput(p)
  <2>. DEFINE to == "remove"
              r == job[p]
  <2>1. pc[p] = "read" /\ UNCHANGED fs
    BY <1>11 DEF EndOfInput
  <2>2. CASE Exit(p, "ok")
    BY <1>4, <2>1, <2>2
  <2>3. CASE Goto(p, "remove") /\ UNCHANGED job
    <3>1. job' = [job EXCEPT ![p] = r]
      BY <2>3, Types DEF ProcTypes
    <3>2. r.input = job[p].input /\ r.output = job[p].output /\ r.inPlace = job[p].inPlace
      OBVIOUS
    <3>3. Goto(p, to) /\ to # "open" /\ Spares(p) /\ UNCHANGED <<dir, content>>
      BY <2>1, <2>3, NothingTouched DEF fs
    <3>. HIDE DEF r, to
    <3>. QED BY <2>1, <3>1, <3>2, <3>3, GoesOnPrepares
  <2>. QED BY <1>1, <1>11, <2>2, <2>3 DEF EndOfInput
<1>12. CASE RemoveInput(p)
  <2>1. /\ pc[p] = "remove" /\ Goto(p, "rename") /\ UNCHANGED <<content, nextInode, job>>
        /\ dir' = [dir EXCEPT ![job[p].input] = NoInode] \/ UNCHANGED dir
    BY <1>12 DEF RemoveInput
  <2>2. Moves(p) /\ pc'[p] = "rename" /\ job'[p] = job[p]
    BY <2>1, Types DEF Goto, Moves, ProcTypes
  <2>3. CASE UNCHANGED dir
    <3>1. UNCHANGED fs
      BY <2>1, <2>3 DEF fs
    <3>. QED BY <1>1, <2>1, <2>2, <3>1, NothingTouched DEF Prepares, fs
  <2>. QED BY <1>1, <2>1, <2>2, <2>3 DEF Removes
<1>13. CASE RenameOutput(p)
  <2>1. pc[p] = "rename" /\ UNCHANGED <<content, nextInode>>
    BY <1>13 DEF RenameOutput
  <2>2. CASE Exit(p, "error") /\ UNCHANGED dir
    BY <1>1, <1>4, <2>1, <2>2 DEF fs
  <2>3. CASE /\ dir' = [dir EXCEPT ![job[p].input] = dir[job[p].output], ![job[p].output] = NoInode]
             /\ Exit(p, "ok")
    <3>1. Moves(p) /\ pc'[p] = "idle"
      BY <2>3, OneMoves DEF Exit
    <3>. QED BY <1>1, <2>1, <2>3, <3>1 DEF Renames
  <2>. QED BY <1>13, <2>2, <2>3 DEF RenameOutput
<1>14. CASE Kill(p)
  BY <1>1, <1>4, <1>14 DEF Kill
<1>. QED BY <1>5, <1>6, <1>7, <1>8, <1>9, <1>10, <1>11, <1>12, <1>13, <1>14 DEF Proceed

(* A running command that names a user's file works on it, alone.          *)
LEMMA Owns ==
  ASSUME FileTypeInv, FaithInv, CopiesOnly, NEW p \in Procs, pc[p] # "idle",
         NEW name \in Files, name \in Named(p)
  PROVE  Worked(name, p) /\ \A q \in Procs : Worked(name, q) => q = p
<1>1. Working(p) /\ job[p] \in Jobs
  BY JobType DEF FaithInv
<1>2. /\ job[p].input = Path(job[p].input[1]) /\ job[p].input[1] \in Names /\ job[p].op \in Ops
      /\ job[p].inPlace => job[p].output = Temporary(job[p].op, job[p].input[1])
  BY <1>1 DEF Working, Shape, Jobs, Paths
<1>3. job[p].inPlace => job[p].output[1] = job[p].input[1]
  BY <1>2, PathsDiffer
<1>4. job[p].input[1] = name
  BY <1>3 DEF Named, CopiesOnly
<1>5. ASSUME NEW q \in Procs, Worked(name, q) PROVE q = p
  <2>1. job[q].input[1] = name
    <3>1. Path(name)[1] = name
      BY DEF Path
    <3>2. job[q].input = Path(name)
      BY <1>5 DEF Worked
    <3>. QED BY <3>1, <3>2
  <2>. QED BY <1>5, <2>1 DEF FaithInv, Apart, Named, Worked
<1>. QED BY <1>2, <1>4, <1>5 DEF Worked

(* How the inode of a user's file goes from old to new in a step, and what *)
(* becomes of the content.                                                 *)
Follows(name, old, new) ==
  /\ \A q \in Procs : Commits(q, name) => new = dir[job[q].output]
  /\ (\A q \in Procs : ~Commits(q, name)) => new = old

Became(name, old, new) ==
  \/ new = old /\ content'[new] = content[old]
  \/ \E p \in Procs :
       /\ Worked(name, p) /\ pc'[p] # pc[p] /\ job[p].password \in Passwords
       /\ IF job[p].op = "EncryptFile" THEN EncryptionOf(content'[new], content[old], job[p].password)
          ELSE EncryptionOf(content[old], content'[new], job[p].password)

LEMMA KeptStays ==
  ASSUME NEW name \in Files, NEW path, Kept(name, path), UNCHANGED issued,
         dir'[path] = dir[path], content'[dir[path]] = content[dir[path]],
         dir'[Path(name)] = dir[Path(name)],
         \A q \in Procs : Worked(name, q)' =>
           Worked(name, q) /\ (path # Path(name) => pc'[q] = pc[q] /\ job'[q].output = job[q].output)
  PROVE  Kept(name, path)' /\ Follows(name, dir[path], dir'[path]) /\ Became(name, dir[path], dir'[path])
<1>1. PICK passwords \in Seq(Passwords) :
       /\ Whole(name, content[dir[path]], passwords)
       /\ Len(passwords) <= issued
       /\ path = Path(name) /\ (\E p \in Procs : Worked(name, p)) => Len(passwords) < issued
  BY DEF Kept
<1>2. Whole(name, content'[dir'[path]], passwords)
  BY <1>1
<1>3. path = Path(name) /\ (\E p \in Procs : Worked(name, p)') => Len(passwords) < issued'
  BY <1>1
<1>4. path # Path(name) =>
        /\ dir'[Path(name)] = NoInode
        /\ \A p \in Procs : Worked(name, p)' =>
             pc'[p] = "open" \/ (pc'[p] = "rename" /\ job'[p].output = path)
  BY DEF Kept
<1>5. path \in Paths /\ path[1] = name /\ dir'[path] # NoInode /\ Len(passwords) <= issued'
  BY <1>1 DEF Kept
<1>6. Kept(name, path)'
  BY <1>1, <1>2, <1>3, <1>4, <1>5 DEF Kept
<1>. QED BY <1>6 DEF Follows, Became, Commits

(* The output of a finished command is as whole as its input was.          *)
LEMMA Replacement ==
  ASSUME FileTypeInv, FaithInv, NEW p \in Procs, pc[p] \in {"remove", "rename"}, NEW name,
         NEW passwords \in Seq(Passwords), Whole(name, job[p].given, passwords), Len(passwords) < issued
  PROVE  /\ \E longer \in Seq(Passwords) :
              Whole(name, content[job[p].out], longer) /\ Len(longer) <= issued
         /\ job[p].password \in Passwords
         /\ IF job[p].op = "EncryptFile" THEN EncryptionOf(content[job[p].out], job[p].given, job[p].password)
            ELSE EncryptionOf(job[p].given, content[job[p].out], job[p].password)
<1>1. /\ Working(p) /\ job[p] \in Jobs /\ content[job[p].out] \in Seq(Items)
      /\ job[p].given \in Seq(Items) /\ job[p].password \in Passwords
  BY JobType DEF FaithInv, Jobs
<1>2. IF job[p].op = "EncryptFile" THEN EncryptionOf(content[job[p].out], job[p].given, job[p].password)
      ELSE EncryptionOf(job[p].given, content[job[p].out], job[p].password)
  BY <1>1 DEF Working, Faithful, Written
<1>3. issued \in Nat /\ Len(passwords) \in Nat
  BY Types, LenProperties DEF CountTypes
<1>4. CASE job[p].op = "EncryptFile"
  <2>. DEFINE longer == Append(passwords, job[p].password)
  <2>1. longer \in Seq(Passwords) /\ Len(longer) = Len(passwords) + 1
    BY <1>1, AppendProperties
  <2>2. Whole(name, content[job[p].out], longer)
    BY <1>1, <1>2, <1>4, EncryptedWhole
  <2>. HIDE DEF longer
  <2>3. Len(longer) <= issued
    BY <1>3, <2>1
  <2>. QED BY <1>1, <1>2, <2>1, <2>2, <2>3
<1>5. CASE job[p].op # "EncryptFile"
  <2>. DEFINE shorter == Front(passwords)
  <2>1. passwords # <<>> /\ Whole(name, content[job[p].out], shorter)
    BY <1>1, <1>2, <1>5, DecryptedWhole
  <2>2. shorter \in Seq(Passwords) /\ Len(shorter) = Len(passwords) - 1
    BY <2>1, LastIs
  <2>. HIDE DEF shorter
  <2>3. Len(shorter) <= issued
    BY <1>3, <2>2
  <2>. QED BY <1>1, <1>2, <2>1, <2>2, <2>3
<1>. QED BY <1>4, <1>5

(* Every step leaves each user's file whole, where it was or where the     *)
(* step that commits a command put it.                                     *)
LEMMA StepKeeps ==
  ASSUME FileTypeInv, FaithInv, CopiesOnly, NEW p \in Procs, Proceed(p) \/ Kill(p),
         NEW name \in Files, NEW path, Kept(name, path)
  PROVE  \E new \in Paths :
           Kept(name, new)' /\ Follows(name, dir[path], dir'[new]) /\ Became(name, dir[path], dir'[new])
<1>1. /\ pc[p] # "idle" /\ Moves(p) /\ UNCHANGED issued
      /\ Prepares(p) \/ ((Removes(p) \/ Renames(p)) /\ UNCHANGED content)
  BY StepKinds
<1>2. /\ path \in Paths /\ path[1] = name /\ dir[path] # NoInode
      /\ Path(name) \in Paths /\ Path(name)[1] = name
  BY DEF Kept, Path, Paths, Names, TmpSuffixes
<1>3. /\ job[p].input \in Paths /\ job[p].output \in Paths /\ job[p].input # job[p].output
      /\ job[p].input[1] \in Named(p) /\ job[p].output[1] \in Named(p)
      /\ Working(p) /\ Unlinked
  BY <1>1, HeldFiles DEF FaithInv
<1>4. \A q \in Procs : q # p /\ Worked(name, q)' => Worked(name, q) /\ pc'[q] = pc[q] /\ job'[q] = job[q]
  BY <1>1 DEF Moves, Worked
<1>5. CASE name \notin Named(p)
  <2>1. ASSUME NEW a \in Paths, a[1] = name
        PROVE  dir'[a] = dir[a] /\ (dir[a] # NoInode => content'[dir[a]] = content[dir[a]])
    <3>1. a # job[p].input /\ a # job[p].output
      BY <1>3, <1>5, <2>1
    <3>2. CASE Prepares(p)
      BY <3>1, <3>2 DEF Prepares, Spares
    <3>3. CASE (Removes(p) \/ Renames(p)) /\ UNCHANGED content
      BY <1>3, <3>1, <3>3, Types DEF Removes, Renames, FsTypes
    <3>. QED BY <1>1, <3>2, <3>3
  <2>2. ~Worked(name, p)'
    <3>1. pc'[p] # "idle" => job'[p].input = job[p].input
      BY <1>1 DEF Prepares, Removes, Renames
    <3>. QED BY <1>2, <1>3, <1>5, <3>1 DEF Worked
  <2>. QED BY <1>1, <1>2, <1>4, <2>1, <2>2, KeptStays
<1>6. CASE name \in Named(p)
  <2>1. Worked(name, p) /\ \A q \in Procs : Worked(name, q) => q = p
    BY <1>1, <1>6, Owns
  <2>2. job[p].input = Path(name)
    BY <2>1 DEF Worked
  <2>3. path # Path(name) =>
          dir[Path(name)] = NoInode /\ (pc[p] = "open" \/ (pc[p] = "rename" /\ job[p].output = path))
    BY <2>1 DEF Kept
  <2>4. PICK passwords \in Seq(Passwords) :
          /\ Whole(name, content[dir[path]], passwords)
          /\ Len(passwords) <= issued
          /\ path = Path(name) => Len(passwords) < issued
    BY <2>1 DEF Kept
  <2>5. \A q \in Procs : Worked(name, q)' => q = p
    BY <1>4, <2>1
  <2>6. \A q \in Procs : Commits(q, name) => q = p
    BY <2>1 DEF Commits, Worked
  <2>7. CASE Prepares(p)
    <3>1. /\ dir'[path] = dir[path] /\ content'[dir[path]] = content[dir[path]]
          /\ dir'[Path(name)] = dir[Path(name)]
      <4>1. CASE path = Path(name)
        BY <1>2, <1>3, <2>2, <2>7, <4>1 DEF Prepares, Spares
      <4>2. CASE path # Path(name)
        BY <2>3, <2>7, <4>2 DEF Prepares
      <4>. QED BY <4>1, <4>2
    <3>2. \A q \in Procs : Worked(name, q)' => Worked(name, q) /\ path = Path(name)
      BY <2>1, <2>2, <2>3, <2>5, <2>7 DEF Prepares, Worked
    <3>. QED BY <1>1, <1>2, <3>1, <3>2, KeptStays
  <2>8. CASE Removes(p) /\ UNCHANGED content
    <3>0. PICK new \in Paths : new = job[p].output
      BY <1>3
    <3>1. pc[p] = "remove" /\ pc'[p] = "rename" /\ job'[p] = job[p] /\ path = Path(name)
      BY <2>3, <2>8 DEF Removes
    <3>2. /\ dir[path] = job[p].in /\ content[job[p].in] = job[p].given
          /\ dir[new] = job[p].out /\ job[p].out # NoInode
      BY <3>0, <1>1, <1>3, <2>2, <3>1, HeldFiles DEF Working, Holds
    <3>3. dir'[Path(name)] = NoInode /\ dir'[new] = dir[new]
      BY <3>0, <1>3, <2>2, <2>8, Types DEF Removes, FsTypes
    <3>4. /\ \E longer \in Seq(Passwords) :
               Whole(name, content[job[p].out], longer) /\ Len(longer) <= issued
          /\ job[p].password \in Passwords
          /\ IF job[p].op = "EncryptFile" THEN EncryptionOf(content[job[p].out], job[p].given, job[p].password)
             ELSE EncryptionOf(job[p].given, content[job[p].out], job[p].password)
      BY <2>4, <3>1, <3>2, Replacement
    <3>5. new # Path(name) /\ new[1] = name
      <4>1. job[p].inPlace /\ job[p].op \in Ops /\ job[p].input[1] \in Names
        BY <1>1, <1>3, <3>1, JobType DEF Working, Shape, Jobs, Paths
      <4>2. new = Temporary(job[p].op, name)
        BY <3>0, <1>2, <1>3, <2>2, <4>1 DEF Working, Shape
      <4>. QED BY <3>0, <1>2, <1>3, <2>2, <4>1, <4>2, PathsDiffer
    <3>6. Kept(name, new)'
      <4>1. PICK longer \in Seq(Passwords) : Whole(name, content[job[p].out], longer) /\ Len(longer) <= issued
        BY <3>4
      <4>2. Whole(name, content'[dir'[new]], longer) /\ Len(longer) <= issued'
        BY <1>1, <2>8, <3>2, <3>3, <4>1
      <4>3. \A q \in Procs : Worked(name, q)' => pc'[q] = "rename" /\ job'[q].output = new
        BY <3>0, <2>5, <3>1
      <4>4. new \in Paths /\ dir'[new] # NoInode
        BY <3>0, <1>3, <3>2, <3>3
      <4>5. \E passwordsLeft \in Seq(Passwords) :
              /\ Whole(name, content'[dir'[new]], passwordsLeft)
              /\ Len(passwordsLeft) <= issued'
              /\ new = Path(name) /\ (\E q \in Procs : Worked(name, q)') => Len(passwordsLeft) < issued'
        BY <3>5, <4>1, <4>2
      <4>6. new # Path(name) =>
              /\ dir'[Path(name)] = NoInode
              /\ \A q \in Procs : Worked(name, q)' =>
                   pc'[q] = "open" \/ (pc'[q] = "rename" /\ job'[q].output = new)
        BY <3>3, <4>3
      <4>. QED BY <3>5, <4>4, <4>5, <4>6 DEF Kept
    <3>7. Commits(p, name)
      BY <1>2, <2>2, <3>1, <3>3 DEF Commits
    <3>8. Follows(name, dir[path], dir'[new])
      BY <3>0, <2>6, <3>3, <3>7 DEF Follows
    <3>9. Became(name, dir[path], dir'[new])
      <4>1. content'[dir'[new]] = content[job[p].out] /\ content[dir[path]] = job[p].given
        BY <2>8, <3>2, <3>3
      <4>. QED BY <2>1, <3>1, <3>4, <4>1 DEF Became
    <3>. QED BY <3>6, <3>8, <3>9
  <2>9. CASE Renames(p) /\ UNCHANGED content
    <3>. DEFINE new == Path(name)
    <3>1. pc[p] = "rename" /\ pc'[p] = "idle"
      BY <2>9 DEF Renames
    <3>2. /\ dir[job[p].output] = job[p].out /\ job[p].out # NoInode /\ dir'[new] = job[p].out
      BY <2>2, <2>9, <3>1, Renamed DEF Renames
    <3>3. path = new =>
            dir[path] = job[p].in /\ content[job[p].in] = job[p].given
      BY <1>2, <1>3, <2>2, <3>1 DEF Working, Holds
    <3>4. path # new => dir[path] = job[p].out /\ dir[new] = NoInode
      BY <2>3, <3>1, <3>2
    <3>5. path = new =>
             /\ \E longer \in Seq(Passwords) :
                  Whole(name, content[job[p].out], longer) /\ Len(longer) <= issued
             /\ job[p].password \in Passwords
             /\ IF job[p].op = "EncryptFile" THEN EncryptionOf(content[job[p].out], job[p].given, job[p].password)
                ELSE EncryptionOf(job[p].given, content[job[p].out], job[p].password)
      BY <2>4, <3>1, <3>3, Replacement
    <3>6. PICK longer \in Seq(Passwords) : Whole(name, content[job[p].out], longer) /\ Len(longer) <= issued
      BY <2>4, <3>4, <3>5
    <3>7. \A q \in Procs : ~Worked(name, q)'
      BY <2>5, <3>1 DEF Worked
    <3>8. dir'[new] # dir[new]
      BY <1>2, <1>3, <2>2, <3>2, <3>4 DEF Unlinked
    <3>9. Commits(p, name)
      BY <2>2, <3>1, <3>8 DEF Commits
    <3>. HIDE DEF new
    <3>10. Kept(name, new)'
      <4>1. Whole(name, content'[dir'[new]], longer) /\ Len(longer) <= issued'
        BY <1>1, <2>9, <3>2, <3>6
      <4>2. new \in Paths /\ new[1] = name /\ dir'[new] # NoInode /\ new = Path(name)
        BY <1>2, <3>2 DEF new
      <4>. QED BY <3>6, <3>7, <4>1, <4>2 DEF Kept
    <3>11. Follows(name, dir[path], dir'[new])
      BY <2>6, <3>2, <3>9 DEF Follows
    <3>12. Became(name, dir[path], dir'[new])
      <4>1. content'[dir'[new]] = content[job[p].out]
        BY <2>9, <3>2
      <4>2. CASE path = new
        BY <2>1, <3>1, <3>3, <3>5, <4>1, <4>2 DEF Became
      <4>3. CASE path # new
        BY <3>2, <3>4, <4>1, <4>3 DEF Became
      <4>. QED BY <4>2, <4>3
    <3>. QED BY <1>2, <3>10, <3>11, <3>12 DEF new
  <2>. QED BY <1>1, <2>7, <2>8, <2>9
<1>. QED BY <1>5, <1>6

LEMMA StartKeeps ==
  ASSUME ToCopies, FileTypeInv, NEW p \in Procs, NEW request \in Requests, NEW password \in Passwords,
         StartCommand(p, request, password), NEW name \in Files, NEW path, Kept(name, path)
  PROVE  /\ Kept(name, path)' /\ Follows(name, dir[path], dir'[path]) /\ Became(name, dir[path], dir'[path])
<1>1. /\ pc'[p] = "open" /\ pc[p] = "idle" /\ Moves(p) /\ UNCHANGED fs
  BY Started
<1>2. issued' = issued + 1 /\ issued \in Nat
  BY Types DEF StartCommand, CountTypes
<1>3. PICK passwords \in Seq(Passwords) :
        Whole(name, content[dir[path]], passwords) /\ Len(passwords) <= issued
  BY DEF Kept
<1>4. UNCHANGED <<dir, content>>
  BY <1>1 DEF fs
<1>5. \E same \in Seq(Passwords) :
        /\ Whole(name, content'[dir'[path]], same)
        /\ Len(same) <= issued'
        /\ path = Path(name) /\ (\E q \in Procs : Worked(name, q)') => Len(same) < issued'
  <2>1. Len(passwords) \in Nat
    BY LenProperties
  <2>2. Len(passwords) <= issued' /\ Len(passwords) < issued'
    BY <1>2, <1>3, <2>1
  <2>3. Whole(name, content'[dir'[path]], passwords)
    BY <1>3, <1>4
  <2>. QED BY <2>2, <2>3
<1>6. path # Path(name) =>
        /\ dir'[Path(name)] = NoInode
        /\ \A q \in Procs : Worked(name, q)' => pc'[q] = "open" \/ (pc'[q] = "rename" /\ job'[q].output = path)
  BY <1>1, <1>4 DEF Kept, Moves, Worked
<1>7. path \in Paths /\ path[1] = name /\ dir'[path] # NoInode
  BY <1>4 DEF Kept
<1>8. Kept(name, path)'
  BY <1>5, <1>6, <1>7 DEF Kept
<1>. QED BY <1>4, <1>8 DEF Follows, Became, Commits

LEMMA NextKeeps ==
  ASSUME ToCopies, FileTypeInv, FaithInv, CopiesOnly, [Next]_vars,
         NEW name \in Files, NEW path, Kept(name, path)
  PROVE  \E new \in Paths :
           Kept(name, new)' /\ Follows(name, dir[path], dir'[new]) /\ Became(name, dir[path], dir'[new])
<1>1. path \in Paths
  BY DEF Kept
<1>2. CASE UNCHANGED vars
  <2>1. /\ UNCHANGED <<dir, content, issued, pc, job>>
    BY <1>2 DEF vars, fs
  <2>2. \A q \in Procs : Worked(name, q)' => Worked(name, q)
    BY <2>1 DEF Worked
  <2>. QED BY <1>1, <2>1, <2>2, KeptStays
<1>3. ASSUME NEW p \in Procs, NEW request \in Requests, NEW password \in Passwords,
             StartCommand(p, request, password)
      PROVE  \E new \in Paths :
               Kept(name, new)' /\ Follows(name, dir[path], dir'[new]) /\ Became(name, dir[path], dir'[new])
  BY <1>1, <1>3, StartKeeps
<1>4. ASSUME NEW p \in Procs, Proceed(p) \/ Kill(p)
      PROVE  \E new \in Paths :
               Kept(name, new)' /\ Follows(name, dir[path], dir'[new]) /\ Became(name, dir[path], dir'[new])
  BY <1>4, StepKeeps
<1>. QED BY <1>2, <1>3, <1>4 DEF Next

LEMMA NextCopiesOnly ==
  ASSUME ToCopies, FileTypeInv, FaithInv, CopiesOnly, [Next]_vars
  PROVE  CopiesOnly'
<1>1. CASE UNCHANGED vars
  BY <1>1 DEF vars, CopiesOnly
<1>2. ASSUME NEW p \in Procs, NEW request \in Requests, NEW password \in Passwords,
             StartCommand(p, request, password)
      PROVE  CopiesOnly'
  <2>1. /\ request.output \in Names \union {InPlace} /\ request.output \notin Files
        /\ job'[p].output = IF request.output = InPlace THEN Temporary(request.op, request.input)
                            ELSE Path(request.output)
        /\ job'[p].inPlace = (request.output = InPlace)
        /\ Moves(p)
    BY <1>2, Started DEF ToCopies
  <2>2. Path(request.output)[1] = request.output
    BY DEF Path
  <2>3. ~job'[p].inPlace => job'[p].output[1] \notin Files
    BY <2>1, <2>2
  <2>. QED BY <2>1, <2>3 DEF CopiesOnly, Moves
<1>3. ASSUME NEW p \in Procs, Proceed(p) \/ Kill(p)
      PROVE  CopiesOnly'
  <2>1. /\ pc[p] # "idle" /\ Moves(p)
        /\ Prepares(p) \/ Removes(p) \/ Renames(p)
    BY <1>3, StepKinds
  <2>2. pc'[p] # "idle" => job'[p].output = job[p].output /\ job'[p].inPlace = job[p].inPlace
    BY <2>1 DEF Prepares, Removes, Renames
  <2>. QED BY <2>1, <2>2 DEF CopiesOnly, Moves
<1>. QED BY <1>1, <1>2, <1>3 DEF Next

LEMMA InitKept ==
  ASSUME Init
  PROVE  CopiesOnly /\ \A name \in Files : Kept(name, Path(name))
<1>1. (\A p \in Procs : pc[p] = "idle") /\ issued = 0
  BY DEF Init
<1>2. ASSUME NEW name \in Files PROVE Kept(name, Path(name))
  <2>. DEFINE none == <<>>
              path == Path(name)
  <2>1. path \in Paths /\ path[1] = name /\ dir[path] # NoInode
    BY FirstFiles DEF Path, Paths, Names, TmpSuffixes
  <2>2. PICK owner \in Files : path = Path(owner) /\ content[dir[path]] = Original(owner)
    BY <2>1, FirstFiles
  <2>3. owner = name
    BY <2>2 DEF Path
  <2>4. Original(name) \in Seq(Items)
    BY ItemTypes, SeqDef DEF Original
  <2>5. Whole(name, Original(name), none)
    BY <2>4, WholeText
  <2>6. none \in Seq(Passwords) /\ Len(none) <= issued
    BY <1>1, EmptySeq
  <2>7. \A p \in Procs : ~Worked(name, p)
    BY <1>1 DEF Worked
  <2>. HIDE DEF none, path
  <2>8. Kept(name, path)
    BY <2>1, <2>2, <2>3, <2>5, <2>6, <2>7 DEF Kept, path
  <2>. QED BY <2>8 DEF path
<1>. QED BY <1>1, <1>2 DEF CopiesOnly

LEMMA KeptInductive == Orderly /\ ToCopies => (Spec => []KeptInv)
<1>. SUFFICES ASSUME Orderly, ToCopies PROVE Spec => []KeptInv
  OBVIOUS
<1>1. Init => KeptInv
  <2>. SUFFICES ASSUME Init PROVE KeptInv
    OBVIOUS
  <2>1. CopiesOnly /\ \A name \in Files : Kept(name, Path(name))
    BY InitKept
  <2>2. \A name \in Files : Path(name) \in Paths
    BY DEF Path, Paths, Names, TmpSuffixes
  <2>. QED BY <2>1, <2>2 DEF KeptInv
<1>2. FileTypeInv /\ FaithInv /\ KeptInv /\ [Next]_vars => KeptInv'
  <2>. SUFFICES ASSUME FileTypeInv, FaithInv, KeptInv, [Next]_vars PROVE KeptInv'
    OBVIOUS
  <2>1. CopiesOnly'
    BY NextCopiesOnly DEF KeptInv
  <2>2. ASSUME NEW name \in Files PROVE \E new \in Paths : Kept(name, new)'
    <3>1. PICK path \in Paths : Kept(name, path)
      BY DEF KeptInv
    <3>. QED BY <3>1, NextKeeps DEF KeptInv
  <2>. QED BY <2>1, <2>2 DEF KeptInv
<1>. QED BY <1>1, <1>2, TypeInductive, FaithInductive, PTL DEF Spec

(* If no two running commands name one file, and a command writes a user's *)
(* file only by replacing it in place, every file a user had can be got    *)
(* back, whatever is killed or fails and however often it was encrypted.   *)
(* (handleEncryptFile, handleDecryptFile: the temporary, remove, rename.)  *)
THEOREM SomeCopyAlwaysSurvives == Orderly /\ ToCopies => (Spec => []SomeCopySurvives)
<1>1. FileTypeInv /\ KeptInv => SomeCopySurvives
  <2>. SUFFICES ASSUME FileTypeInv, KeptInv, NEW name \in Files
                PROVE  \E path \in Paths :
                         dir[path] # NoInode /\ Original(name) \in Versions(content[dir[path]])
    BY DEF SomeCopySurvives
  <2>1. PICK path \in Paths : Kept(name, path)
    BY DEF KeptInv
  <2>2. PICK passwords \in Seq(Passwords) :
          Whole(name, content[dir[path]], passwords) /\ Len(passwords) <= issued
    BY <2>1 DEF Kept
  <2>3. dir[path] # NoInode /\ content[dir[path]] \in Seq(Items)
    BY <2>1, Types DEF Kept, FsTypes
  <2>4. Len(passwords) <= MaxCommands
    BY <2>2, Types, LenProperties DEF CountTypes
  <2>. QED BY <2>2, <2>3, <2>4, WholeRecovered
<1>. QED BY <1>1, TypeInductive, KeptInductive, PTL

-----------------------------------------------------------------------------
(* FileCryptoStack implements FileStack, for files that are not empty: an  *)
(* empty one, encrypted, is headers only, and shows no password.           *)

LEMMA WholeStack ==
  ASSUME NumChunks > 0, NEW name, NEW file \in Seq(Items), NEW passwords \in Seq(Passwords),
         Whole(name, file, passwords)
  PROVE  StackOf(name, file) = passwords
<1>. DEFINE depth == Len(passwords)
            last == Len(file)
            layers == file[last].layers
<1>1. /\ depth \in Nat /\ last = depth + NumChunks
      /\ \A i \in 1 .. Len(file) : WholeItem(name, file, passwords, i)
  BY WholeItems, LenProperties
<1>2. last \in 1 .. Len(file) /\ ~(last <= depth)
  <2>. HIDE DEF depth
  <2>1. Len(file) \in Nat
    BY LenProperties
  <2>. QED BY <1>1, <2>1
<1>3. file # <<>> /\ Last(file) = file[last] /\ file[last] \in Items
  <2>1. file # <<>> /\ Last(file) = file[last]
    BY <1>2, EmptySeq DEF Last
  <2>2. last \in 1 .. Len(file)
    BY <1>2
  <2>. HIDE DEF last
  <2>3. file[last] \in Items
    BY <2>2, ElementOfSeq
  <2>. QED BY <2>1, <2>3
<1>4. /\ Len(layers) = depth
      /\ \A h \in 1 .. depth : layers[depth - h + 1] =
           GCM(DeriveKey(passwords[depth - h + 1], SaltOf(file[h])), last - h - 1)
  <2>1. WholeItem(name, file, passwords, last)
    BY <1>1, <1>2
  <2>2. Heads(passwords, last) = depth
    BY <1>2 DEF Heads
  <2>. QED BY <2>1, <2>2 DEF WholeItem
<1>5. DOMAIN layers = 1 .. depth
  BY <1>3, <1>4, ItemParts, LenProperties
<1>6. ASSUME NEW k \in 1 .. depth PROVE layers[k].key.password = passwords[k]
  <2>. DEFINE h == depth - k + 1
  <2>1. h \in 1 .. depth /\ depth - h + 1 = k
    <3>. HIDE DEF depth
    <3>. QED BY <1>1
  <2>. HIDE DEF h, depth, layers
  <2>2. layers[k] = GCM(DeriveKey(passwords[k], SaltOf(file[h])), last - h - 1)
    BY <1>4, <2>1
  <2>. QED BY <2>2 DEF GCM, DeriveKey
<1>7. [i \in DOMAIN layers |-> layers[i].key.password] = passwords
  <2>1. passwords = [i \in 1 .. depth |-> passwords[i]]
    BY LenProperties
  <2>. HIDE DEF layers, depth
  <2>. QED BY <1>5, <1>6, <2>1
<1>. HIDE DEF layers
<1>. QED BY <1>3, <1>7 DEF StackOf, layers

(* The history variable points at the file that is whole.                  *)
CurInv == \A name \in Files : \E path \in Paths : Kept(name, path) /\ current[name] = dir[path]

LEMMA StackIsFile == StackSpec => Spec
<1>1. StackInit => Init
  BY DEF StackInit
<1>2. [StackNext]_stackVars => [Next]_vars
  BY DEF StackNext, stackVars
<1>. QED BY <1>1, <1>2, PTL DEF StackSpec, Spec

LEMMA CurrentFollows ==
  ASSUME [StackNext]_stackVars, NEW name \in Files, NEW old, NEW new,
         current[name] = old, Follows(name, old, new)
  PROVE  current'[name] = new
<1>1. CASE UNCHANGED stackVars
  <2>1. current' = current /\ UNCHANGED dir
    BY <1>1 DEF stackVars, vars, fs
  <2>2. \A q \in Procs : ~Commits(q, name)
    BY <2>1 DEF Commits
  <2>. QED BY <2>1, <2>2 DEF Follows
<1>2. CASE StackNext
  <2>1. current'[name] = IF \E p \in Procs : Commits(p, name)
                         THEN dir[job[CHOOSE p \in Procs : Commits(p, name)].output]
                         ELSE current[name]
    BY <1>2 DEF StackNext
  <2>2. CASE \E p \in Procs : Commits(p, name)
    <3>. DEFINE q == CHOOSE p \in Procs : Commits(p, name)
    <3>1. q \in Procs /\ Commits(q, name)
      BY <2>2
    <3>2. new = dir[job[q].output]
      <4>. HIDE DEF q
      <4>. QED BY <3>1 DEF Follows
    <3>. QED BY <2>1, <2>2, <3>2
  <2>3. CASE ~ \E p \in Procs : Commits(p, name)
    BY <2>1, <2>3 DEF Follows
  <2>. QED BY <2>2, <2>3
<1>. QED BY <1>1, <1>2

LEMMA CurrentStep ==
  ASSUME ToCopies, FileTypeInv, FaithInv, CopiesOnly, CurInv, [StackNext]_stackVars, NEW name \in Files
  PROVE  \E path \in Paths, new \in Paths :
           /\ Kept(name, path) /\ current[name] = dir[path]
           /\ Kept(name, new)' /\ current'[name] = dir'[new]
           /\ Became(name, dir[path], dir'[new])
<1>1. PICK path \in Paths : Kept(name, path) /\ current[name] = dir[path]
  BY DEF CurInv
<1>2. [Next]_vars
  BY DEF StackNext, stackVars
<1>3. PICK new \in Paths :
        Kept(name, new)' /\ Follows(name, dir[path], dir'[new]) /\ Became(name, dir[path], dir'[new])
  BY <1>1, <1>2, NextKeeps
<1>4. current'[name] = dir'[new]
  BY <1>1, <1>3, CurrentFollows
<1>. QED BY <1>1, <1>3, <1>4

LEMMA CurrentInductive == Orderly /\ ToCopies => (StackSpec => []CurInv)
<1>. SUFFICES ASSUME Orderly, ToCopies PROVE StackSpec => []CurInv
  OBVIOUS
<1>1. StackInit => CurInv
  <2>. SUFFICES ASSUME StackInit, NEW name \in Files
                PROVE  \E path \in Paths : Kept(name, path) /\ current[name] = dir[path]
    BY DEF CurInv
  <2>1. Kept(name, Path(name)) /\ current[name] = dir[Path(name)]
    BY InitKept DEF StackInit
  <2>2. Path(name) \in Paths
    BY DEF Path, Paths, Names, TmpSuffixes
  <2>. QED BY <2>1, <2>2
<1>2. FileTypeInv /\ FaithInv /\ KeptInv /\ CurInv /\ [StackNext]_stackVars => CurInv'
  <2>. SUFFICES ASSUME FileTypeInv, FaithInv, KeptInv, CurInv, [StackNext]_stackVars, NEW name \in Files
                PROVE  \E path \in Paths : Kept(name, path)' /\ current'[name] = dir'[path]
    BY DEF CurInv
  <2>. QED BY CurrentStep DEF KeptInv
<1>. QED BY <1>1, <1>2, StackIsFile, TypeInductive, FaithInductive, KeptInductive, PTL DEF StackSpec

-----------------------------------------------------------------------------
(* A step changes the stack of one file at most, by one password.          *)

Stack(name) == StackOf(name, content[current[name]])

Pushed(name, p) ==
  job[p].password \in Passwords /\ Stack(name)' = Append(Stack(name), job[p].password)
Popped(name, p) ==
  /\ job[p].password \in Passwords
  /\ Stack(name) # <<>> /\ Last(Stack(name)) = job[p].password
  /\ Stack(name)' = Front(Stack(name))

LEMMA StackStep ==
  ASSUME NumChunks > 0, ToCopies, FileTypeInv, FileTypeInv', FaithInv, CopiesOnly, CurInv,
         [StackNext]_stackVars, NEW name \in Files
  PROVE  \/ Stack(name)' = Stack(name)
         \/ \E p \in Procs : /\ Worked(name, p) /\ pc'[p] # pc[p]
                             /\ Pushed(name, p) \/ Popped(name, p)
<1>1. PICK path \in Paths, new \in Paths :
        /\ Kept(name, path) /\ current[name] = dir[path]
        /\ Kept(name, new)' /\ current'[name] = dir'[new]
        /\ Became(name, dir[path], dir'[new])
  BY CurrentStep
<1>. DEFINE before == content[dir[path]]
            after == content'[dir'[new]]
<1>2. before \in Seq(Items) /\ after \in Seq(Items)
  <2>1. dir[path] \in Inodes /\ dir'[new] \in Inodes
    BY <1>1, Types DEF Kept, FsTypes, FileTypeInv, TypeOK
  <2>. QED BY <2>1 DEF FileTypeInv, TypeOK
<1>3. Stack(name) = StackOf(name, before) /\ Stack(name)' = StackOf(name, after)
  BY <1>1 DEF Stack
<1>4. PICK passwords \in Seq(Passwords) : Whole(name, before, passwords)
  BY <1>1 DEF Kept
<1>5. StackOf(name, before) = passwords
  BY <1>2, <1>4, WholeStack
<1>6. CASE dir'[new] = dir[path] /\ content'[dir'[new]] = content[dir[path]]
  BY <1>3, <1>6
<1>7. ASSUME NEW p \in Procs, Worked(name, p), pc'[p] # pc[p], job[p].password \in Passwords,
             IF job[p].op = "EncryptFile" THEN EncryptionOf(after, before, job[p].password)
             ELSE EncryptionOf(before, after, job[p].password)
      PROVE  Pushed(name, p) \/ Popped(name, p)
  <2>. HIDE DEF before, after
  <2>1. CASE job[p].op = "EncryptFile"
    <3>. DEFINE longer == Append(passwords, job[p].password)
    <3>1. longer \in Seq(Passwords)
      BY <1>7, AppendProperties
    <3>2. Whole(name, after, longer)
      BY <1>2, <1>4, <1>7, <2>1, EncryptedWhole
    <3>. HIDE DEF longer
    <3>3. StackOf(name, after) = longer
      BY <1>2, <3>1, <3>2, WholeStack
    <3>. QED BY <1>3, <1>5, <1>7, <3>3 DEF Pushed, longer
  <2>2. CASE job[p].op # "EncryptFile"
    <3>. DEFINE shorter == Front(passwords)
    <3>1. passwords # <<>> /\ Whole(name, after, shorter) /\ Last(passwords) = job[p].password
      BY <1>2, <1>4, <1>7, <2>2, DecryptedWhole
    <3>2. shorter \in Seq(Passwords)
      BY <3>1, LastIs
    <3>. HIDE DEF shorter
    <3>3. StackOf(name, after) = shorter
      BY <1>2, <3>1, <3>2, WholeStack
    <3>. QED BY <1>3, <1>5, <1>7, <3>1, <3>3 DEF Popped, shorter
  <2>. QED BY <2>1, <2>2
<1>. QED BY <1>1, <1>6, <1>7 DEF Became

LEMMA OneMover ==
  ASSUME FileTypeInv, FaithInv, [Next]_vars, NEW p \in Procs, NEW q \in Procs,
         pc'[p] # pc[p], pc'[q] # pc[q]
  PROVE  p = q
<1>1. CASE UNCHANGED vars
  BY <1>1 DEF vars
<1>2. ASSUME NEW r \in Procs, NEW request \in Requests, NEW password \in Passwords,
             StartCommand(r, request, password)
      PROVE  p = q
  <2>1. Moves(r)
    BY <1>2, Started
  <2>. QED BY <2>1 DEF Moves
<1>3. ASSUME NEW r \in Procs, Proceed(r) \/ Kill(r) PROVE p = q
  <2>1. Moves(r)
    BY <1>3, StepKinds
  <2>. QED BY <2>1 DEF Moves
<1>. QED BY <1>1, <1>2, <1>3 DEF Next

(* If no two running commands name one file, and a command writes a user's *)
(* file only by replacing it in place, each file that is not empty changes *)
(* like a stack of passwords, in one step a command or not at all, whatever *)
(* is killed or fails. (handleEncryptFile, handleDecryptFile.)             *)
THEOREM FileStackImplemented ==
  Orderly /\ ToCopies /\ NumChunks > 0 => (StackSpec => ImplementsFileStack)
<1>. SUFFICES ASSUME Orderly, ToCopies, NumChunks > 0 PROVE StackSpec => Abstract!Spec
  BY DEF ImplementsFileStack
<1>. DEFINE stack == [name \in Files |-> StackOf(name, content[current[name]])]
<1>1. FileTypeInv /\ CurInv /\ StackInit => Abstract!Init
  <2>. SUFFICES ASSUME FileTypeInv, CurInv, StackInit PROVE Abstract!Init
    OBVIOUS
  <2>1. ASSUME NEW name \in Files PROVE Stack(name) = <<>>
    <3>1. PICK path \in Paths : Kept(name, path) /\ current[name] = dir[path]
      BY DEF CurInv
    <3>2. PICK passwords \in Seq(Passwords) :
            Whole(name, content[dir[path]], passwords) /\ Len(passwords) <= issued
      BY <3>1 DEF Kept
    <3>3. passwords = <<>>
      <4>1. issued = 0
        BY DEF StackInit, Init
      <4>2. Len(passwords) \in Nat
        BY LenProperties
      <4>. QED BY <3>2, <4>1, <4>2, EmptySeq
    <3>4. content[dir[path]] \in Seq(Items)
      BY <3>1, Types DEF Kept, FsTypes
    <3>. QED BY <3>1, <3>2, <3>3, <3>4, WholeStack DEF Stack
  <2>. QED BY <2>1 DEF Abstract!Init, Stack
<1>2. FileTypeInv /\ FileTypeInv' /\ FaithInv /\ KeptInv /\ CurInv /\ [StackNext]_stackVars
        => [Abstract!Next]_stack
  <2>. SUFFICES ASSUME FileTypeInv, FileTypeInv', FaithInv, KeptInv, CurInv, [StackNext]_stackVars
                PROVE  Abstract!Next \/ stack' = stack
    OBVIOUS
  <2>1. CopiesOnly /\ [Next]_vars
    BY DEF KeptInv, StackNext, stackVars
  <2>2. ASSUME NEW name \in Files
        PROVE  \/ Stack(name)' = Stack(name)
               \/ \E p \in Procs : /\ Worked(name, p) /\ pc'[p] # pc[p]
                                   /\ Pushed(name, p) \/ Popped(name, p)
    BY <2>1, StackStep
  <2>3. /\ stack = [name \in Files |-> Stack(name)]
        /\ stack' = [name \in Files |-> Stack(name)']
    BY DEF Stack
  <2>4. CASE \A name \in Files : Stack(name)' = Stack(name)
    BY <2>3, <2>4
  <2>5. CASE ~ \A name \in Files : Stack(name)' = Stack(name)
    <3>1. PICK name \in Files, p \in Procs :
            /\ Worked(name, p) /\ pc'[p] # pc[p]
            /\ Pushed(name, p) \/ Popped(name, p)
      BY <2>2, <2>5
    <3>2. ASSUME NEW other \in Files, other # name PROVE Stack(other)' = Stack(other)
      <4>1. SUFFICES ASSUME NEW q \in Procs, Worked(other, q), pc'[q] # pc[q] PROVE FALSE
        BY <2>2
      <4>2. q = p
        BY <2>1, <3>1, <4>1, OneMover
      <4>3. Path(other) # Path(name)
        BY <3>2 DEF Path
      <4>. QED BY <3>1, <4>1, <4>2, <4>3 DEF Worked
    <3>3. /\ stack[name] = Stack(name) /\ stack' = [stack EXCEPT ![name] = Stack(name)']
      BY ZenonT(30), <2>3, <3>2
    <3>4. /\ job[p].password \in Passwords
          /\ \/ Abstract!Encrypted(name, job[p].password)
             \/ Abstract!Decrypted(name, job[p].password)
      <4>1. CASE Pushed(name, p)
        <5>1. stack' = [stack EXCEPT ![name] = Append(stack[name], job[p].password)]
          <6>. HIDE DEF stack
          <6>. QED BY <3>3, <4>1 DEF Pushed
        <5>2. Abstract!Encrypted(name, job[p].password)
          BY <5>1 DEF Abstract!Encrypted
        <5>. QED BY <4>1, <5>2 DEF Pushed
      <4>2. CASE Popped(name, p)
        <5>1. /\ stack' = [stack EXCEPT ![name] = Front(stack[name])]
              /\ stack[name] # <<>> /\ Last(stack[name]) = job[p].password
          <6>. HIDE DEF stack
          <6>. QED BY <3>3, <4>2 DEF Popped
        <5>2. Abstract!Decrypted(name, job[p].password)
          BY <5>1 DEF Abstract!Decrypted, Abstract!Last, Abstract!Front, Last, Front
        <5>. QED BY <4>2, <5>2 DEF Popped
      <4>. QED BY <3>1, <4>1, <4>2
    <3>. QED BY <3>4 DEF Abstract!Next
  <2>. QED BY <2>4, <2>5
<1>. QED BY <1>1, <1>2, StackIsFile, TypeInductive, FaithInductive, KeptInductive, CurrentInductive, PTL
     DEF StackSpec, Abstract!Spec
=============================================================================
