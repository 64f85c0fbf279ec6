------------------------------ MODULE ProDrive ------------------------------
(***************************************************************************)
(* encrypt-pro, encrypt-hidden, change-password-pro and decrypt-pro:       *)
(* several invocations of the program ("processes") working on one drive,  *)
(* with the raw I/O steps of internal/drive/drive.go and darwin_io.go as   *)
(* the actions.  A process can be killed, and every read and write of the  *)
(* drive can fail, between any two of them.                                *)
(*                                                                         *)
(* handle.Read and handle.Write move one 512-byte sector at a byte offset; *)
(* what was written is what the next Read of any process finds (DriveCache *)
(* has the medium behind it).  The loops count sectors and bytes apart:    *)
(* the one is the tweak of the cipher, the other the place on the drive.   *)
(* Reading past the last sector is io.EOF, which the loops cannot tell     *)
(* from a read error.                                                      *)
(***************************************************************************)
EXTENDS DriveHeader

CONSTANTS
  Procs,          \* invocations of the program that may overlap
  NumSectors,     \* sectors of the drive after sector 0
  HiddenStart,    \* the sector number the hidden volume starts with (2048)
  HiddenOffset,   \* the byte offset it starts at (1024 * 1024)
  IsRemovable,    \* Drive.IsRemovable, as List reported it
  ExclusiveOpen,  \* does the OS honour O_EXCL without O_CREAT?
  Commands,       \* the commands the users run
  FaultKinds,     \* what can go wrong in the environment
  MaxCommands,    \* bound: commands started
  MaxFaults       \* bound: faults injected

SectorSize == 512

AllCommands == {"EncryptPro", "EncryptWithHidden", "ChangePasswordPro", "DecryptPro"}
AllFaults == {"readHeader", "read", "write", "kill"}

ASSUME DriveAssumption ==
  /\ NumSectors \in Nat \ {0}
  /\ HiddenStart \in Nat \ {0}
  /\ IsRemovable \in BOOLEAN
  /\ ExclusiveOpen \in BOOLEAN
  /\ Commands \subseteq AllCommands
  /\ FaultKinds \subseteq AllFaults
  /\ MaxCommands \in Nat
  /\ MaxFaults \in Nat

(* The two literals of encryptHiddenData name the same place.              *)
ASSUME HiddenAssumption == HiddenOffset = SectorSize * HiddenStart

Sectors == 1 .. NumSectors

VARIABLES
  sector0,    \* the raw bytes of sector 0
  data,       \* the contents of the other sectors
  handles,    \* the processes that have the drive open
  pc,         \* where each process is
  job,        \* the local variables of each process
  outcome,    \* what each process's last command told its user
  issued,     \* commands started so far
  nextSalt,   \* the next salt GenerateRandomBytes returns
  faults,     \* faults injected so far
  base,       \* history: data when the current pass over the sectors began
  committed   \* history: the drive as the last finished command left it, and
              \* the last command that reported success

drive == <<sector0, data>>
env == <<issued, nextSalt, faults>>
history == <<base, committed>>
vars == <<sector0, data, handles, pc, job, outcome, env, history>>

Locations == {"idle", "opened", "stamp", "read", "write"}

NoJob == [command |-> "none"]
Jobs ==
  [command : AllCommands, password : Passwords, other : Passwords,
   key : Keys, otherKey : Keys, pass : {1, 2},
   sectorNum : Nat, offset : Nat, buf : Contents]

NoCommand == [command |-> "none", password |-> NoPassword]
CommandsRun ==
  [command : AllCommands \union {"none"}, password : Passwords \union {NoPassword}]

TypeOK ==
  /\ sector0 \in RawSector
  /\ data \in [Sectors -> Contents]
  /\ handles \subseteq Procs
  /\ pc \in [Procs -> Locations]
  /\ job \in [Procs -> Jobs \union {NoJob}]
  /\ outcome \in [Procs -> {"none", "ok", "error", "killed"}]
  /\ issued \in 0 .. MaxCommands
  /\ nextSalt \in Nat \ {0}
  /\ faults \in 0 .. MaxFaults
  /\ base \in [Sectors -> Contents]
  /\ committed \in [sector0 : RawSector, data : [Sectors -> Contents], last : CommandsRun]
  /\ \A p \in Procs : job[p] = NoJob <=> pc[p] = "idle"

Init ==
  /\ sector0 = PartitionTable
  /\ data = [s \in Sectors |-> Plaintext]
  /\ handles = {}
  /\ pc = [p \in Procs |-> "idle"]
  /\ job = [p \in Procs |-> NoJob]
  /\ outcome = [p \in Procs |-> "none"]
  /\ issued = 0
  /\ nextSalt = 1
  /\ faults = 0
  /\ base = data
  /\ committed = [sector0 |-> sector0, data |-> data, last |-> NoCommand]

-----------------------------------------------------------------------------
Fault(kind) ==
  /\ kind \in FaultKinds
  /\ faults < MaxFaults
  /\ faults' = faults + 1

Goto(p, to) == pc' = [pc EXCEPT ![p] = to]

LastSuccess(p, result) ==
  IF result = "ok"
  THEN [command |-> job[p].command, password |-> job[p].password]
  ELSE committed.last

(* A mutant of Return: the command's variables outlive it.                 *)
ReturnKeepingJob(p, result) ==
  /\ Goto(p, "idle")
  /\ UNCHANGED job
  /\ outcome' = [outcome EXCEPT ![p] = result]
  /\ handles' = handles \ {p}
  /\ committed' = [sector0 |-> sector0', data |-> data', last |-> LastSuccess(p, result)]
  /\ base' = data'

(* Every return of a Manager method: the deferred handle.Close() runs and  *)
(* the handler prints the outcome and exits.                               *)
Return(p, result) ==
  /\ Goto(p, "idle")
  /\ job' = [job EXCEPT ![p] = NoJob]
  /\ outcome' = [outcome EXCEPT ![p] = result]
  /\ handles' = handles \ {p}
  /\ committed' = [sector0 |-> sector0', data |-> data', last |-> LastSuccess(p, result)]
  /\ base' = data'

(* A command selects its drive, checks IsRemovable, asks for confirmation  *)
(* and passwords, and opens the device. With exclusive opens the open of a *)
(* busy drive fails and the command ends there.                            *)
Start(p, command, password, other, to) ==
  /\ pc[p] = "idle"
  /\ IsRemovable
  /\ command \in Commands
  /\ issued < MaxCommands
  /\ issued' = issued + 1
  /\ IF ExclusiveOpen /\ handles # {}
     THEN /\ outcome' = [outcome EXCEPT ![p] = "error"]
          /\ UNCHANGED <<handles, pc, job>>
     ELSE /\ handles' = handles \union {p}
          /\ Goto(p, to)
          /\ job' = [job EXCEPT ![p] =
               [command |-> command, password |-> password, other |-> other,
                key |-> ZeroKey, otherKey |-> ZeroKey, pass |-> 1, sectorNum |-> 1,
                offset |-> SectorSize, buf |-> Plaintext]]
          /\ outcome' = [outcome EXCEPT ![p] = "none"]
  /\ UNCHANGED <<drive, nextSalt, faults, history>>

StartEncryptPro(p, password) == Start(p, "EncryptPro", password, password, "opened")
StartDecryptPro(p, password) == Start(p, "DecryptPro", password, password, "opened")
StartChangePasswordPro(p, currentPassword, newPassword) ==
  Start(p, "ChangePasswordPro", currentPassword, newPassword, "opened")
(* encrypt-hidden goes straight to writing its header, whatever sector 0   *)
(* holds.                                                                  *)
StartEncryptWithHidden(p, primaryPassword, hiddenPassword) ==
  Start(p, "EncryptWithHidden", primaryPassword, hiddenPassword, "stamp")

(* A mutant of CheckNotEncrypted: the magic is not looked at.              *)
CheckNothing(p) ==
  /\ pc[p] = "opened"
  /\ job[p].command = "EncryptPro"
  /\ Goto(p, "stamp")
  /\ UNCHANGED <<drive, job, outcome, handles, history, env>>

(* EncryptPro refuses a drive whose header it could read and that carries  *)
(* the magic; when the read fails it goes on.                              *)
CheckNotEncrypted(p) ==
  /\ pc[p] = "opened"
  /\ job[p].command = "EncryptPro"
  /\ UNCHANGED <<drive, issued, nextSalt>>
  /\ \/ /\ Decode(sector0).magic
        /\ Return(p, "error")
        /\ UNCHANGED faults
     \/ /\ \/ ~Decode(sector0).magic /\ UNCHANGED faults
           \/ Fault("readHeader")
        /\ Goto(p, "stamp")
        /\ UNCHANGED <<job, outcome, handles, history>>

(* A mutant of AcceptedKeys: the second verifyKey is dropped, the hidden   *)
(* password is taken for the primary one.                                  *)
AcceptedKeysOfAnyVolume(password, h) ==
  {r.key : r \in {d \in deriveKeyFromPassword(password, h) : h.magic}}

(* DecryptPro and ChangePasswordPro read the header and derive the key;    *)
(* the second verifyKey rejects the hidden password, whose key is not the  *)
(* header's HashedKey.                                                     *)
AcceptedKeys(password, h) ==
  {r.key : r \in {d \in deriveKeyFromPassword(password, h) : h.magic /\ verifyKey(d.key, h)}}

Authenticate(p) ==
  LET accepted == AcceptedKeys(job[p].password, Decode(sector0)) IN
  /\ pc[p] = "opened"
  /\ job[p].command \in {"DecryptPro", "ChangePasswordPro"}
  /\ UNCHANGED <<drive, issued, nextSalt>>
  /\ \/ /\ \/ accepted = {} /\ UNCHANGED faults
           \/ Fault("readHeader")
        /\ Return(p, "error")
     \/ \E key \in accepted :
          /\ job' = [job EXCEPT ![p].key = key]
          /\ Goto(p, IF job[p].command = "DecryptPro" THEN "read" ELSE "stamp")
          /\ UNCHANGED <<outcome, handles, faults, history>>

(* createHeader / createHeaderWithHidden with fresh salts.                 *)
NewHeader(j) ==
  CASE j.command = "EncryptPro" -> createHeader(j.password, nextSalt)
    [] j.command = "ChangePasswordPro" -> createHeader(j.other, nextSalt)
    [] OTHER -> createHeaderWithHidden(j.password, nextSalt, j.other, nextSalt + 1)

(* A mutant of LoopKeys: encrypt-pro derives its key from another salt     *)
(* than the one in the header it writes.                                   *)
LoopKeysOtherSalt(j, h) ==
  CASE j.command = "EncryptPro" -> [j EXCEPT !.key = DeriveKey(j.password, h.salt + 1)]
    [] j.command = "ChangePasswordPro" -> [j EXCEPT !.otherKey = DeriveKey(j.other, h.salt)]
    [] OTHER -> [j EXCEPT !.key = DeriveKey(j.password, h.salt),
                          !.otherKey = DeriveKey(j.other, h.hiddenSalt)]

(* The keys of the loop that follows: a second DeriveKey of each command,  *)
(* from the typed password and the salt in the new header.                 *)
LoopKeys(j, h) ==
  CASE j.command = "EncryptPro" -> [j EXCEPT !.key = DeriveKey(j.password, h.salt)]
    [] j.command = "ChangePasswordPro" -> [j EXCEPT !.otherKey = DeriveKey(j.other, h.salt)]
    [] OTHER -> [j EXCEPT !.key = DeriveKey(j.password, h.salt),
                          !.otherKey = DeriveKey(j.other, h.hiddenSalt)]

WriteHeader(p) ==
  /\ pc[p] = "stamp"
  /\ \/ /\ sector0' = Encode(NewHeader(job[p]))
        /\ job' = [job EXCEPT ![p] = LoopKeys(job[p], NewHeader(job[p]))]
        /\ Goto(p, "read")
        /\ UNCHANGED <<outcome, handles, faults, history, data>>
     \/ /\ Fault("write")
        /\ UNCHANGED drive
        /\ Return(p, "error")
  /\ nextSalt' = nextSalt + 2
  /\ UNCHANGED issued

-----------------------------------------------------------------------------
(* The sector loops: encryptData, encryptHiddenData (the second pass of    *)
(* EncryptWithHidden), decryptData and the loop of ChangePasswordPro.      *)
(* The sector at a byte offset, if there is one: past the last sector the  *)
(* read is io.EOF, between two sectors the raw device refuses it.          *)
At(offset) == {s \in Sectors : offset = SectorSize * s}

Transform(j, contents, sectorNum) ==
  CASE j.command = "DecryptPro" -> Decrypt(contents, j.key, sectorNum)
    [] j.command = "ChangePasswordPro" ->
         Encrypt(Decrypt(contents, j.key, sectorNum), j.otherKey, sectorNum)
    [] OTHER -> Encrypt(contents, IF j.pass = 1 THEN j.key ELSE j.otherKey, sectorNum)

(* handle.Read at the loop's offset.                                       *)
ReadSector(p) ==
  /\ pc[p] = "read"
  /\ \E s \in At(job[p].offset) : job' = [job EXCEPT ![p].buf = data[s]]
  /\ Goto(p, "write")
  /\ UNCHANGED <<drive, handles, outcome, env, history>>

(* A mutant of LeaveLoop: the loops may stop one sector early.             *)
LeaveLoopEarly(p) ==
  /\ pc[p] = "read"
  /\ job[p].sectorNum >= NumSectors
  /\ UNCHANGED <<drive, issued, nextSalt, faults>>
  /\ Return(p, "ok")

(* Another one: a read error, io.EOF among them, is tried again.           *)
LeaveLoopRetrying(p) ==
  /\ pc[p] = "read"
  /\ At(job[p].offset) = {}
  /\ UNCHANGED vars

(* A mutant of SecondPass: the hidden region is numbered from its own      *)
(* start.                                                                  *)
SecondPassFromOne(j) ==
  [j EXCEPT !.pass = 2, !.sectorNum = 1, !.offset = HiddenOffset]

(* encryptHiddenData begins with two literals of its own.                  *)
SecondPass(j) ==
  [j EXCEPT !.pass = 2, !.sectorNum = HiddenStart, !.offset = HiddenOffset]

(* io.EOF and any other read error leave the loop the same way: "break",   *)
(* then the second pass of encrypt-hidden, or "complete" and nil.          *)
LeaveLoop(p) ==
  /\ pc[p] = "read"
  /\ UNCHANGED <<drive, issued, nextSalt>>
  /\ \/ At(job[p].offset) = {} /\ UNCHANGED faults
     \/ At(job[p].offset) # {} /\ Fault("read")
  /\ \/ /\ job[p].command = "EncryptWithHidden" /\ job[p].pass = 1
        /\ job' = [job EXCEPT ![p] = SecondPass(job[p])]
        /\ base' = data
        /\ UNCHANGED <<pc, outcome, handles, committed>>
     \/ /\ ~(job[p].command = "EncryptWithHidden" /\ job[p].pass = 1)
        /\ Return(p, "ok")

(* "sectorNum++" and "offset += int64(n)".                                 *)
Advance(j) == [j EXCEPT !.sectorNum = @ + 1, !.offset = @ + SectorSize]

(* Encrypt or Decrypt the buffer under the sector number and write it back *)
(* to the offset it was read from.                                         *)
WriteSector(p) ==
  /\ pc[p] = "write"
  /\ \/ /\ \E s \in At(job[p].offset) :
             data' = [data EXCEPT ![s] = Transform(job[p], job[p].buf, job[p].sectorNum)]
        /\ job' = [job EXCEPT ![p] = Advance(job[p])]
        /\ Goto(p, "read")
        /\ UNCHANGED <<sector0, handles, outcome, faults, history>>
     \/ /\ Fault("write")
        /\ UNCHANGED drive
        /\ Return(p, "error")
  /\ UNCHANGED <<issued, nextSalt>>

(* The process dies (Ctrl-C, power cut, drive pulled): its memory is gone. *)
Kill(p) ==
  /\ pc[p] # "idle"
  /\ Fault("kill")
  /\ UNCHANGED <<drive, issued, nextSalt>>
  /\ Return(p, "killed")

-----------------------------------------------------------------------------
Proceed(p) ==
  \/ CheckNotEncrypted(p)
  \/ Authenticate(p)
  \/ WriteHeader(p)
  \/ ReadSector(p)
  \/ LeaveLoop(p)
  \/ WriteSector(p)

Next ==
  \E p \in Procs :
    \/ \E password \in Passwords :
         \/ StartEncryptPro(p, password)
         \/ StartDecryptPro(p, password)
         \/ \E other \in Passwords :
              \/ StartChangePasswordPro(p, password, other)
              \/ StartEncryptWithHidden(p, password, other)
    \/ Proceed(p)
    \/ Kill(p)

Spec == Init /\ [][Next]_vars

(* The operating system schedules every running process.                   *)
FairSpec == Spec /\ \A p \in Procs : WF_vars(Proceed(p))

-----------------------------------------------------------------------------
InLoop(p) == pc[p] \in {"read", "write"}

FirstOffset(j) == IF j.pass = 1 THEN SectorSize ELSE HiddenOffset

(* The sectors the pass has behind it, by their place on the drive.        *)
Processed(j) ==
  {s \in Sectors : FirstOffset(j) <= SectorSize * s /\ SectorSize * s < j.offset}

(* A loop transforms each sector once, under the number of its place:      *)
(* at every step the sectors behind the loop's offset hold the transform,  *)
(* under the number of their place whatever sectorNum counted, of what     *)
(* they held when the pass began, the others are as they were, and the     *)
(* buffer is what is still on the drive. Until its loop a command has not  *)
(* touched a data sector. (drive.go: the four "for { handle.Read ... }",   *)
(* whose numbers and offsets begin with literals of their own.)            *)
TransformedOnce(p) ==
  /\ pc[p] \in {"opened", "stamp"} => data = base
  /\ InLoop(p) =>
       data = [s \in Sectors |-> IF s \in Processed(job[p])
                                THEN Transform(job[p], base[s], s)
                                ELSE base[s]]
  /\ pc[p] = "write" => \E s \in At(job[p].offset) : job[p].buf = data[s]

EachSectorOnce == \A p \in Procs : TransformedOnce(p)

(* While sectors are being rewritten, the header on the drive identifies   *)
(* every key they are rewritten under, so the password that was typed can  *)
(* rebuild it after a crash. (EncryptPro, EncryptWithHidden,               *)
(* ChangePasswordPro: writeHeader precedes the loop.)                      *)
KeysNamed(j, h) ==
  /\ h.magic
  /\ j.command \in {"EncryptPro", "DecryptPro"} => verifyKey(j.key, h)
  /\ j.command = "ChangePasswordPro" => verifyKey(j.otherKey, h)
  /\ j.command = "EncryptWithHidden" =>
       verifyKey(j.key, h) /\ h.hasHidden /\ j.otherKey = h.hashedHiddenKey

HeaderNamesKey == \A p \in Procs : InLoop(p) => KeysNamed(job[p], Decode(sector0))

(* Every layer on every sector can be undone: its key is named by the      *)
(* header or still held by a process in its loop.                          *)
KnownKeys ==
  LET h == Decode(sector0) IN
  {h.hashedKey} \union {h.hashedHiddenKey} \union {job[p].key : p \in {q \in Procs : InLoop(q)}}

Recoverable == \A s \in Sectors : KeysOf(data[s]) \subseteq KnownKeys

(* checkStatusRaw and the end of checkStatusDarwin: Status.IsEncrypted.    *)
CheckStatus(raw) == Decode(raw).magic

(* The header on the drive names the key of every layer on a sector, so    *)
(* the passwords undo it whatever became of the processes.                 *)
NamedByHeader ==
  LET h == Decode(sector0) IN
  \A s \in Sectors : KeysOf(data[s]) \subseteq {h.hashedKey, h.hashedHiddenKey}

(* Keys are lost in two places only, whatever fails or is killed: where a  *)
(* header is written over another one, and in the loop of                  *)
(* change-password-pro, which has done so before. No run of encrypt-pro or *)
(* encrypt-hidden over a drive without a header, and no decrypt-pro,       *)
(* finished or not, puts a sector out of the passwords' reach.             *)
(* (EncryptPro, EncryptWithHidden, ChangePasswordPro: writeHeader before   *)
(* the loops; DecryptPro.)                                                 *)
OnlyRekeyingLosesKeys ==
  [][NamedByHeader /\ ~NamedByHeader' =>
       \E p \in Procs :
         /\ pc[p] # pc'[p]
         /\ \/ pc[p] = "stamp" /\ CheckStatus(sector0)
            \/ job[p].command = "ChangePasswordPro"]_vars

(* encrypt-pro never encrypts a sector that is already encrypted           *)
(* (drive.go:121, "Check if already encrypted with the custom header").    *)
NoDoubleEncryption ==
  \A s \in Sectors : Cardinality({i \in DOMAIN data[s] : data[s][i].op = "Encrypt"}) <= 1

Completes(p, command) ==
  pc[p] = "read" /\ job[p].command = command /\ pc'[p] = "idle" /\ outcome'[p] = "ok"

(* A password change that reports success has re-encrypted every sector    *)
(* (drive.go:209, "This re-encrypts all sectors with the new password").   *)
ChangeReencryptsAll ==
  [][\A p \in Procs : Completes(p, "ChangePasswordPro") =>
       data' = [s \in Sectors |-> Transform(job[p], base[s], s)]]_vars

(* Every command that was started ends, also after others were killed or   *)
(* failed on the same drive: no loop of drive.go can run away.             *)
EveryCommandReturns == \A p \in Procs : pc[p] # "idle" ~> pc[p] = "idle"

(* A decrypt-pro that reports success has restored the drive: the data are *)
(* the user's and the drive no longer counts as encrypted. (README.md:141, *)
(* "This decrypts all sectors and restores the drive to normal. Your data  *)
(* is preserved."; drive.go:344, "decrypts every sector in-place and       *)
(* restores the raw device".)                                              *)
DecryptionRestores ==
  [][\A p \in Procs : Completes(p, "DecryptPro") =>
       /\ data' = [s \in Sectors |-> Plaintext]
       /\ ~CheckStatus(sector0')]_vars

SealedUnderHeader ==
  \A s \in Sectors : data[s] = Encrypt(Plaintext, Decode(sector0).hashedKey, s)

(* An encrypt-pro that wrote its header leads to a drive sealed under that *)
(* header, unless the user is told otherwise. (EncryptPro, encryptData.)   *)
EncryptionSeals ==
  \A p \in Procs :
    (InLoop(p) /\ job[p].command = "EncryptPro")
      ~> (SealedUnderHeader \/ outcome[p] \in {"error", "killed"})

=============================================================================
