----------------------------- MODULE FileCrypto -----------------------------
(***************************************************************************)
(* encrypt-file and decrypt-file: internal/crypto/file_crypto.go and the   *)
(* replacement of the input by handleEncryptFile and handleDecryptFile.    *)
(* Invocations of the program work on a directory of names and the files   *)
(* (inodes) behind them; every system call that other processes can see is *)
(* an action, and a process can be killed between any two.                 *)
(*                                                                         *)
(* A file is a sequence of items: 64 KB chunks of somebody's text, and     *)
(* 40-byte headers. An item carries the AES-GCM layers sealed around it.   *)
(* Reads return whole items: framing after short reads is not modelled     *)
(* here.                                                                   *)
(***************************************************************************)
EXTENDS SectorCipher

CONSTANTS
  Procs,        \* invocations that may overlap
  Files,        \* names of the user's files
  Copies,       \* names that do not exist at first
  NoName,       \* stands in the items that are no text
  NumChunks,    \* chunks of each user file
  Requests,     \* what the users run: records [op, input, output]
  Overlapping,  \* may two running commands name the same file?
  FaultKinds,   \* what can go wrong in the environment
  MaxLength,    \* items that fit in a file before the disk is full
  MaxCommands,  \* bound: commands started
  MaxFaults     \* bound: faults injected

Names == Files \union Copies
Ops == {"EncryptFile", "DecryptFile"}
InPlace == ""   \* the output of a command with one argument

ASSUME FileAssumption ==
  /\ IsFiniteSet(Files)
  /\ NoName \notin Names
  /\ NumChunks \in Nat
  /\ Requests \subseteq [op : Ops, input : Names, output : Names \union {InPlace}]
  /\ Overlapping \in BOOLEAN
  /\ FaultKinds \subseteq {"create", "read", "write", "remove", "rename", "kill"}
  /\ MaxLength \in Nat
  /\ MaxCommands \in Nat
  /\ MaxFaults \in Nat

(* A path is a name and the suffix the handlers append for a temporary.    *)
TmpSuffixes == {"", ".tmp.enc", ".tmp.dec"}
Paths == Names \X TmpSuffixes
Path(name) == <<name, "">>
Temporary(op, name) ==
  <<name, IF op = "EncryptFile" THEN ".tmp.enc" ELSE ".tmp.dec">>

Inodes == 1 .. (Cardinality(Files) + MaxCommands)
NoInode == 0

(* Items, and what GCM does to them.                                       *)
Text(name, n) == [kind |-> "text", of |-> <<name, n>>, layers |-> <<>>]
FileHeader(salt) == [kind |-> "header", of |-> <<NoName, salt>>, layers |-> <<>>]
Hole == [kind |-> "hole", of |-> <<NoName, ZeroSalt>>, layers |-> <<>>]
IsHeader(item) == item.kind = "header" /\ item.layers = <<>>
SaltOf(header) == header.of[2]

GCM(key, chunkNum) == [key |-> key, num |-> chunkNum]
Seal(item, key, chunkNum) == [item EXCEPT !.layers = Append(@, GCM(key, chunkNum))]
Authentic(item, key, chunkNum) ==
  item.layers # <<>> /\ Last(item.layers) = GCM(key, chunkNum)
Open(item) == [item EXCEPT !.layers = Front(@)]

GCMLayers == [key : Keys, num : Nat]
Items ==
  [kind : {"text", "header", "hole"}, of : (Files \union {NoName}) \X Nat,
   layers : Seq(GCMLayers)]

(* A write at an item's position; a gap left by others reads as zeros.     *)
WriteAt(file, pos, item) ==
  [i \in 1 .. (IF pos > Len(file) THEN pos ELSE Len(file)) |->
     IF i = pos THEN item ELSE IF i <= Len(file) THEN file[i] ELSE Hole]

VARIABLES
  dir,        \* the file behind each path
  content,    \* the items of each file
  nextInode,  \* the next file to be created
  pc,         \* where each process is
  job,        \* the local variables of each process
  outcome,    \* what each process's last command told its user
  issued,     \* commands started so far
  nextSalt,   \* the next salt GenerateRandomBytes returns
  faults      \* faults injected so far

fs == <<dir, content, nextInode>>
vars == <<fs, pc, job, outcome, issued, nextSalt, faults>>

Locations ==
  {"idle", "open", "header", "create", "stamp", "read", "write", "remove", "rename"}

NoJob == [op |-> "none"]
Jobs ==
  [op : Ops, input : Paths, output : Paths, inPlace : BOOLEAN, password : Passwords,
   key : Keys, in : Inodes \union {NoInode}, out : Inodes \union {NoInode},
   inPos : Nat \ {0}, outPos : Nat \ {0}, buf : Items, given : Seq(Items)]

TypeOK ==
  /\ dir \in [Paths -> Inodes \union {NoInode}]
  /\ content \in [Inodes -> Seq(Items)]
  /\ nextInode \in Nat
  /\ pc \in [Procs -> Locations]
  /\ job \in [Procs -> Jobs \union {NoJob}]
  /\ outcome \in [Procs -> {"none", "ok", "error", "killed"}]
  /\ issued \in 0 .. MaxCommands
  /\ nextSalt \in Nat \ {0}
  /\ faults \in 0 .. MaxFaults
  /\ \A p \in Procs : job[p] = NoJob <=> pc[p] = "idle"

Original(name) == [n \in 1 .. NumChunks |-> Text(name, n)]

Init ==
  LET order == SetToSeq(Files) IN
  /\ dir = [path \in Paths |->
              IF \E i \in DOMAIN order : path = Path(order[i])
              THEN CHOOSE i \in DOMAIN order : path = Path(order[i])
              ELSE NoInode]
  /\ content = [i \in Inodes |-> IF i \in DOMAIN order THEN Original(order[i]) ELSE <<>>]
  /\ nextInode = Len(order) + 1
  /\ pc = [p \in Procs |-> "idle"]
  /\ job = [p \in Procs |-> NoJob]
  /\ outcome = [p \in Procs |-> "none"]
  /\ issued = 0
  /\ nextSalt = 1
  /\ faults = 0

-----------------------------------------------------------------------------
Fault(kind) ==
  /\ kind \in FaultKinds
  /\ faults < MaxFaults
  /\ faults' = faults + 1

Goto(p, to) == pc' = [pc EXCEPT ![p] = to]

(* A mutant of Exit: a failed command keeps its job.                       *)
ExitKeepingJob(p, result) ==
  /\ Goto(p, "idle")
  /\ job' = IF result = "error" THEN job ELSE [job EXCEPT ![p] = NoJob]
  /\ outcome' = [outcome EXCEPT ![p] = result]

Exit(p, result) ==
  /\ Goto(p, "idle")
  /\ job' = [job EXCEPT ![p] = NoJob]
  /\ outcome' = [outcome EXCEPT ![p] = result]

(* The handler: one argument means in place, through a temporary.          *)
StartCommand(p, request, password) ==
  LET inPlace == request.output = InPlace
      named == {request.input, request.output}
  IN
  /\ pc[p] = "idle"
  /\ issued < MaxCommands
  /\ ~Overlapping =>
       \A q \in Procs : pc[q] # "idle" =>
         job[q].input[1] \notin named /\ job[q].output[1] \notin named
  /\ issued' = issued + 1
  /\ job' = [job EXCEPT ![p] =
       [op |-> request.op, input |-> Path(request.input),
        output |-> IF inPlace THEN Temporary(request.op, request.input)
                   ELSE Path(request.output),
        inPlace |-> inPlace, password |-> password, key |-> ZeroKey,
        in |-> NoInode, out |-> NoInode, inPos |-> 1, outPos |-> 1,
        buf |-> Hole, given |-> <<>>]]
  /\ outcome' = [outcome EXCEPT ![p] = "none"]
  /\ Goto(p, "open")
  /\ UNCHANGED <<fs, nextSalt, faults>>

OpenInput(p) ==
  LET inode == dir[job[p].input] IN
  /\ pc[p] = "open"
  /\ \/ /\ inode # NoInode
        /\ job' = [job EXCEPT ![p].in = inode, ![p].given = content[inode]]
        /\ Goto(p, IF job[p].op = "EncryptFile" THEN "create" ELSE "header")
        /\ UNCHANGED outcome
     \/ inode = NoInode /\ Exit(p, "error")
  /\ UNCHANGED <<fs, issued, nextSalt, faults>>

(* DecryptFile: io.ReadFull of the header, the magic, the key.             *)
ReadFileHeader(p) ==
  LET file == content[job[p].in]
      readable == file # <<>> /\ IsHeader(Head(file))
  IN
  /\ pc[p] = "header"
  /\ \/ /\ readable
        /\ job' = [job EXCEPT ![p].key = DeriveKey(job[p].password, SaltOf(Head(file))),
                              ![p].inPos = 2]
        /\ Goto(p, "create")
        /\ UNCHANGED <<outcome, faults>>
     \/ /\ (~readable /\ UNCHANGED faults) \/ Fault("read")
        /\ Exit(p, "error")
  /\ UNCHANGED <<fs, issued, nextSalt>>

(* os.Create truncates the file if the path exists. The mutant does not.   *)
KeptOnCreate(file) == file
TruncatedOnCreate(file) == <<>>

CreateOutput(p) ==
  LET existing == dir[job[p].output]
      inode == IF existing = NoInode THEN nextInode ELSE existing
  IN
  /\ pc[p] = "create"
  /\ \/ /\ dir' = [dir EXCEPT ![job[p].output] = inode]
        /\ content' = [content EXCEPT ![inode] = TruncatedOnCreate(@)]
        /\ nextInode' = IF existing = NoInode THEN nextInode + 1 ELSE nextInode
        /\ job' = [job EXCEPT ![p].out = inode]
        /\ Goto(p, IF job[p].op = "EncryptFile" THEN "stamp" ELSE "read")
        /\ UNCHANGED <<outcome, faults>>
     \/ /\ Fault("create")
        /\ Exit(p, "error")
        /\ UNCHANGED fs
  /\ UNCHANGED <<issued, nextSalt>>

(* EncryptFile: the header with its fresh salt.                            *)
WriteFileHeader(p) ==
  /\ pc[p] = "stamp"
  /\ \/ /\ content' = [content EXCEPT ![job[p].out] = WriteAt(@, 1, FileHeader(nextSalt))]
        /\ job' = [job EXCEPT ![p].key = DeriveKey(job[p].password, nextSalt),
                              ![p].outPos = 2]
        /\ Goto(p, "read")
        /\ UNCHANGED <<dir, nextInode, outcome, faults>>
     \/ /\ Fault("write")
        /\ Exit(p, "error")
        /\ UNCHANGED fs
  /\ nextSalt' = nextSalt + 1
  /\ UNCHANGED issued

(* One Read of the loop, and what is done to the chunk before the Write.   *)
(* The header is no chunk: DecryptFile's counter starts at its second item.*)
ChunkNum(j) == IF j.op = "EncryptFile" THEN j.inPos - 1 ELSE j.inPos - 2

Refused(j, item) == j.op = "DecryptFile" /\ ~Authentic(item, j.key, ChunkNum(j))

(* Read returns no bytes. The mutant takes the last chunk for the end.     *)
AtEndEarly(j) == j.inPos >= Len(content[j.in])
AtEnd(j) == j.inPos > Len(content[j.in])

ReadChunk(p) ==
  LET j == job[p]
      item == content[j.in][j.inPos]
  IN
  /\ pc[p] = "read"
  /\ ~AtEnd(j)
  /\ \/ /\ ~Refused(j, item)
        /\ job' = [job EXCEPT ![p].buf =
             IF j.op = "EncryptFile" THEN Seal(item, j.key, ChunkNum(j)) ELSE Open(item)]
        /\ Goto(p, "write")
        /\ UNCHANGED <<outcome, faults>>
     \/ /\ (Refused(j, item) /\ UNCHANGED faults) \/ Fault("read")
        /\ Exit(p, "error")
  /\ UNCHANGED <<fs, issued, nextSalt>>

(* The Write fails when the disk is full.                                  *)
WriteChunk(p) ==
  LET j == job[p]
      fits == j.outPos <= MaxLength
  IN
  /\ pc[p] = "write"
  /\ \/ /\ fits
        /\ content' = [content EXCEPT ![j.out] = WriteAt(@, j.outPos, j.buf)]
        /\ job' = [job EXCEPT ![p].inPos = j.inPos + 1, ![p].outPos = j.outPos + 1]
        /\ Goto(p, "read")
        /\ UNCHANGED <<dir, nextInode, outcome, faults>>
     \/ /\ (~fits /\ UNCHANGED faults) \/ Fault("write")
        /\ Exit(p, "error")
        /\ UNCHANGED fs
  /\ UNCHANGED <<issued, nextSalt>>

(* A mutant of EndOfInput: the loop does not leave when Read returns 0 bytes. *)
EndOfInputLooping(p) ==
  /\ pc[p] = "read"
  /\ AtEnd(job[p])
  /\ UNCHANGED vars

(* n = 0: the loop ends and EncryptFile or DecryptFile returns nil.        *)
EndOfInput(p) ==
  /\ pc[p] = "read"
  /\ AtEnd(job[p])
  /\ \/ job[p].inPlace /\ Goto(p, "remove") /\ UNCHANGED <<job, outcome>>
     \/ ~job[p].inPlace /\ Exit(p, "ok")
  /\ UNCHANGED <<fs, issued, nextSalt, faults>>

(* os.Remove; its failure is a warning only.                               *)
RemoveInput(p) ==
  /\ pc[p] = "remove"
  /\ \/ dir' = [dir EXCEPT ![job[p].input] = NoInode] /\ UNCHANGED faults
     \/ Fault("remove") /\ UNCHANGED dir
  /\ Goto(p, "rename")
  /\ UNCHANGED <<content, nextInode, job, outcome, issued, nextSalt>>

(* os.Rename of the temporary to the input's name.                         *)
RenameOutput(p) ==
  LET inode == dir[job[p].output] IN
  /\ pc[p] = "rename"
  /\ \/ /\ inode # NoInode
        /\ dir' = [dir EXCEPT ![job[p].input] = inode, ![job[p].output] = NoInode]
        /\ Exit(p, "ok")
        /\ UNCHANGED faults
     \/ /\ (inode = NoInode /\ UNCHANGED faults) \/ Fault("rename")
        /\ Exit(p, "error")
        /\ UNCHANGED dir
  /\ UNCHANGED <<content, nextInode, issued, nextSalt>>

Kill(p) ==
  /\ pc[p] # "idle"
  /\ Fault("kill")
  /\ Exit(p, "killed")
  /\ UNCHANGED <<fs, issued, nextSalt>>

Proceed(p) ==
  \/ OpenInput(p) \/ ReadFileHeader(p) \/ CreateOutput(p) \/ WriteFileHeader(p)
  \/ ReadChunk(p) \/ WriteChunk(p) \/ EndOfInput(p)
  \/ RemoveInput(p) \/ RenameOutput(p)

Next ==
  \E p \in Procs :
    \/ \E request \in Requests, password \in Passwords : StartCommand(p, request, password)
    \/ Proceed(p)
    \/ Kill(p)

Spec == Init /\ [][Next]_vars

(* The operating system schedules every running process.                   *)
FairSpec == Spec /\ \A p \in Procs : WF_vars(Proceed(p))

-----------------------------------------------------------------------------
(* What decrypt-file would make of a file, given the right password.       *)
Decryptable(file, password) ==
  /\ file # <<>>
  /\ IsHeader(Head(file))
  /\ \A i \in 2 .. Len(file) :
       Authentic(file[i], DeriveKey(password, SaltOf(Head(file))), i - 2)

Decrypted(file) == [i \in 1 .. (Len(file) - 1) |-> Open(file[i + 1])]

(* The files a user who knows all passwords can make out of one, by        *)
(* decrypting as often as commands can have encrypted it.                  *)
Versions(file) ==
  LET peel[n \in 0 .. MaxCommands] ==
        IF n = 0 THEN {file}
        ELSE LET outer == peel[n - 1] IN
             outer \union {Decrypted(v) : v \in {u \in outer :
                              \E password \in Passwords : Decryptable(u, password)}}
  IN  peel[MaxCommands]

(* The text of every file a user had can always be got back from some      *)
(* path, at every point of an in-place replacement and after any kill or   *)
(* failed call. (handleEncryptFile, handleDecryptFile: the temporary, then *)
(* remove and rename; README.md:209.)                                      *)
SomeCopySurvives ==
  \A name \in Files : \E path \in Paths :
    dir[path] # NoInode /\ Original(name) \in Versions(content[dir[path]])

(* The same, once no command is running, however they overlapped: nobody   *)
(* has to look into a half-written file. (README.md:209, "As long as you   *)
(* remember your password, you can decrypt any file".)                     *)
TextSurvivesCommands ==
  (\A p \in Procs : pc[p] = "idle") => SomeCopySurvives

(* A command that reports success has left, under the name its user        *)
(* expects, a file whose decryption under the password typed is what the   *)
(* input held (encrypt-file), or the decryption of what the input held     *)
(* (decrypt-file).                                                         *)
SuccessIsFaithful ==
  [][\A p \in Procs :
       (pc[p] # "idle" /\ pc'[p] = "idle" /\ outcome'[p] = "ok") =>
         LET j == job[p]
             made == content'[dir'[IF j.inPlace THEN j.input ELSE j.output]]
             sealed == IF j.op = "EncryptFile" THEN made ELSE j.given
             text   == IF j.op = "EncryptFile" THEN j.given ELSE made
         IN  Decryptable(sealed, j.password) /\ Decrypted(sealed) = text]_vars

(* Every command ends, also one whose output is its own input, or a file   *)
(* that another command goes on writing: what stops those is a full disk.  *)
(* (file_crypto.go: the two "for" loops, which only a read of 0 bytes or an *)
(* error leaves.)                                                          *)
EveryCommandReturns == \A p \in Procs : pc[p] # "idle" ~> pc[p] = "idle"

=============================================================================
