# A TLA+ model of encrypto

`encrypto` is a command-line tool that encrypts removable drives and files. This
directory holds TLA+ modules that model what its code does, TLC configurations
that check them on small instances, and proofs that TLAPS checks for every
instance. The reference is the Go source; where the documentation and the code
disagree the model follows the code, and the disagreement is a run of its own.

## 1. The system

One process runs one command and exits. Nothing is shared between processes but
the drive, the file system and macOS's own volume management.

| Component | State | Operations | Hard part |
|---|---|---|---|
| sector cipher (`internal/crypto/crypto.go`) | none | `DeriveKey`, `Encrypt`, `Decrypt` | the order in which layers are put on and taken off a sector |
| raw drive header (`internal/drive/header.go`) | sector 0 | `Encode`, `Decode`, `createHeader`, `createHeaderWithHidden`, `deriveKeyFromPassword`, `verifyKey` | it holds the only copy of the salt; `Encode` and `Decode` gate the hidden fields on different fields |
| raw drive commands (`drive.go`, `main.go`) | every sector of the drive; a handle and a loop position per process | `encrypt-pro`, `encrypt-hidden`, `change-password-pro`, `decrypt-pro` | long in-place rewrites that can be killed, fail half way, overlap, and be run in any order |
| raw device I/O (`darwin_io.go`) | the open handle | open with `O_EXCL`, read, write with fsync, close | short reads, failed fsync, whether the open is exclusive |
| status (`drive.go`, `darwin.go`) | none | `CheckStatus` | it believes the header |
| file encryption (`file_crypto.go`, `main.go`) | input, output, temporary file | `encrypt-file`, `decrypt-file`, in place or to a second path | aliasing paths, replacement by remove and rename, truncation, chunk framing |
| password prompts (`main.go`) | buffered standard input | `readPassword`, confirmations | two readers of one descriptor |
| drive listing (`drive.go`, `darwin.go`) | a snapshot of the drives | `List`, `ResolvePath` | the snapshot is older than the prompts |
| FileVault commands (`darwin.go`) | APFS volumes of macOS | `encrypt`, `decrypt`, `unlock`, `lock`, `change-password` | second attempts after a failure; two rules for choosing a volume |
| progress, size, Windows and Linux stubs, dead code, tools | none that is read | output | none |

How they interact: a handler of `main.go` resolves the path, lists the drives,
prompts, and calls one `Manager` method. A raw command opens the device, reads
and checks sector 0 (not `encrypt-hidden`), writes a new header (not
`decrypt-pro`), and runs one or two sector loops: read a sector, transform it,
write it back, until a read fails. The Manager methods call each other only
through the drive: the header one command leaves is what the next one acts on.

What makes each correct:

- cipher and header: what is written can be read back; a password is accepted if
  and only if it is the one the header was made with;
- raw commands: every sector is rewritten once, under its own number and a key
  the header names; a crash loses no key that is needed; success means done; a
  command given to a drive in any state does what it promises;
- files: at every moment a readable copy exists under some name; success means
  the output decrypts to the input;
- prompts: the password used is the one the user gave;
- FileVault: a command acts on the volume the user meant, once.

`PROJECT.json` lists the hazards at their lines, and the properties that cover
them.

## 2. Modules

| Module | What it models |
|---|---|
| `SectorCipher` | keys and the contents of a sector as the layers applied to the original bytes |
| `DriveHeader` | sector 0: the `Header` struct, its raw form, constructors and password check |
| `ProDrive` | the four raw commands as processes over one drive; the properties |
| `DriveLifecycle` | abstract: what each command, run alone to its end, does to a drive |
| `ProDriveLifecycle` | the refinement mapping from `ProDrive` to `DriveLifecycle` |
| `ProDriveProofs` | proofs about `ProDrive`: types, and what a sector loop does |
| `ProDriveKeyProofs` | proofs about `ProDrive`: the keys of every layer on the drive |
| `ProDriveLifecycleProofs` | proof that `ProDrive` implements `DriveLifecycle` |
| `MCProDrive` | the symmetry set of the TLC runs of `ProDrive` |
| `DriveCache` | `ProDrive` over a drive with a volatile write cache, and power cuts |
| `MCDriveCache` | the symmetry set of its run |
| `DriveCacheProofs` | proofs about `DriveCache` |
| `FileCrypto` | `encrypt-file` and `decrypt-file` as processes over a directory; the properties |
| `FileStack` | abstract: a file as a stack of passwords that changes in one step |
| `FileCryptoStack` | the refinement mapping from `FileCrypto` to `FileStack` |
| `FileCryptoProofs` | proofs about `FileCrypto`, and that it implements `FileStack` |
| `MCFileCrypto`, `MCFileStack` | the requests of the file runs, and their symmetry; without and with the mapping |
| `ChunkStream` | how the two file loops cut their input into chunks, byte by byte |
| `ChunkStreamProofs` | proofs about `ChunkStream` |
| `Prompt` | the questions every command asks, and the three ways it reads the answers |
| `MCPrompt` | the lines of the prompt runs |
| `PromptProofs` | proofs about `Prompt` |
| `DriveSelection` | path resolution, listing, choice of a volume, the diskutil commands, drives plugged in and out |
| `MCDriveSelection` | the drives of its runs, and their symmetry |
| `DriveSelectionProofs` | proofs about `DriveSelection` |

### SectorCipher and DriveHeader

Argon2id is taken to be injective, so a key *is* the pair (password, salt).
Encrypting pushes a layer on the sector and cancels an inverse layer on top, and
so does decrypting: no other algebraic law of AES-XTS is used. A layer carries
the sector number, so a wrong tweak is visible. Salts are numbered in the order
they are drawn; a fresh salt never repeats. `RawSector` and `Header` are separate
types because `Encode` copies the hidden fields on `HasHidden` and `Decode` on
bit 0 of `Flags`.

### ProDrive

Variables: `sector0` and `data` are the drive; `handles` the processes that have
it open; `pc`, `job` and `outcome` a process's program counter, locals and last
message to its user; `base` and `committed` are history variables (the data when
the current pass began, the drive when the last command ended).

| Action | Code |
|---|---|
| `StartEncryptPro` ... `StartEncryptWithHidden` | the handler in `main.go` up to the open of the device |
| `CheckNotEncrypted` | `EncryptPro`: read the header, refuse on the magic, go on if the read failed |
| `Authenticate` | `DecryptPro`, `ChangePasswordPro`: read the header, derive, verify twice |
| `WriteHeader` | fresh salts, `createHeader` or `createHeaderWithHidden`, the loop's keys, `writeHeader` |
| `ReadSector`, `WriteSector` | one round of a loop: `handle.Read`, then transform and `handle.Write` |
| `LeaveLoop` | the `break` on a failed read: second pass of `encrypt-hidden`, or "complete" |
| `Kill` | the process dies between any two of these |

The loops count sectors (`sectorNum`, the tweak) and bytes (`offset`, the place)
in two variables that start from literals of their own and are advanced apart;
so does the model. `HiddenStart` and `HiddenOffset` are the two literals of
`encryptHiddenData`, and `HiddenAssumption` says that they name one place.

The locals die with the process. Every `handle.Read` and `handle.Write` can fail
while `faults < MaxFaults`, if the kind of fault is in `FaultKinds`.

Taken from outside the repository: a write that returned nil is on the medium
(`DriveCache` drops this one); one that failed changed nothing; a device read
returns a whole sector. Whether
`O_EXCL` without `O_CREAT` makes opens exclusive depends on the system and is
the constant `ExclusiveOpen`; the runs set it to TRUE and the proofs assume it
where they need it, so that two commands overlap only as far as the open. Where
opens are not exclusive two loops do interleave, and nothing is promised.

### DriveLifecycle

The drive as an atomic object with a phase (`plain`, `sealed`, `nested`,
`opened`, `scrambled`) and the password its header accepts. It records what the
commands do, not what one would wish: `opened` is a drive after `decrypt-pro`,
which still has its header, so that a further `decrypt-pro` leads to
`scrambled`. The refinement mapping computes the phase from the sectors
`committed` by the last command, and the command that last reported success
is compared too, so that a command given a wrong password must have no effect.

### DriveCache

`ProDrive`, unchanged, over a drive whose `sector0` and `data` are what a read
returns and whose `medium` is what survives a power cut. `DarwinDriveHandle.Write`
becomes two steps: the write of `ProDrive`, and `Sync`, the fsync at its end, for
which the process waits (`syncing`) and during which it can be killed. `Sync` may
or may not empty the cache: fsync of macOS hands the data to the drive without
making it flush, F_FULLFSYNC is only tried when fsync failed, its result is
discarded, and `Write` returns nil whatever they returned (darwin_io.go:62-68). The drive
writes its cache out in any order, sector by sector (`Destage`). `PowerCut` ends
every process and puts the drive back to its medium.

`loss` is a history variable. A header is `pending` from when the wait for a
`Write` ends, by its return or by a kill, with the header not on the medium; if
the power fails in that state the loss is `done`.

### FileCrypto

`dir` maps each path to an inode, `content` an inode to its items: chunks of
text and 40-byte headers, each with the GCM layers sealed around it. A path is a
name and one of the suffixes `""`, `".tmp.enc"`, `".tmp.dec"`. A process holds
open inodes and its own offsets, so it goes on reading a file that was removed
and writing one that was renamed, as on Unix.

| Action | Code |
|---|---|
| `StartCommand` | the handler: the temporary's name if there is one argument |
| `OpenInput`, `CreateOutput` | `os.Open`, `os.Create` (which truncates) |
| `ReadFileHeader`, `WriteFileHeader` | `DecryptFile`'s and `EncryptFile`'s header and key |
| `ReadChunk`, `WriteChunk`, `EndOfInput` | the loop: `Read`, `Seal` or `Open`, `Write`; `n == 0` |
| `RemoveInput`, `RenameOutput` | the handler's replacement of the input; a failed remove is a warning |
| `Kill` | the process dies between any two of these |

The two functions share the actions in which they do the same; `WriteFileHeader`
and `ReadFileHeader` belong to one of them, and so does the order of header and
output file. A read returns a whole item: what a short read does to the framing
is the subject of `ChunkStream`. A write that failed changed nothing. Salts are
fresh, so keys of two runs differ, and the nonce of a chunk is its number.

### FileStack and FileCryptoStack

A file is a stack of passwords: run in place, the two commands promise to put one
on or to take the outermost off, in one step. Once a kill has left temporaries
behind, the directory alone no longer tells which file on disk is the user's, so
`FileCryptoStack` adds a history variable, `current`, and nothing else: it moves
to the output when `os.Remove` takes the input away or, if that failed, when
`os.Rename` replaces it. The mapping reads the passwords off the layers of that
file, if it is `Whole`: one header per encryption, and each header's key around
everything behind it. Every other step, failure and kill maps to a stutter. A
kill between the two calls leaves the file under its temporary's name; the
refinement says that it is the new version and whole.

### ChunkStream

One encryption followed by one decryption of one file. A byte of the input is its
position, a byte of the encrypted file its place in the chunk it was sealed in, so
`Authentic` can say exactly when GCM accepts a slice: it is one whole chunk under
its own nonce. `EncryptChunk` and `DecryptChunk` are one round of each loop; a
`Read` returns all that is left, up to the buffer, or less if the loop is in
`ShortReads`. Between the two, `Damage` cuts the end off the file or a range out of
it. The header is intact, and the key is the right one.

### Prompt

`Questions` lists, per command, the confirmations and passwords its handler asks
for, in order; `command` is the one that runs. Standard input is a queue of
lines, a line the sequence of its words (`Words`). `Given` are the lines behind
the confirmation, one per password. Whoever answers writes the lines of `script` at any pace, ahead of the
questions too, and may go away early.

| Action | Code |
|---|---|
| `Confirm` | `bufio.NewReader(os.Stdin).ReadString`: of a terminal one line, of a pipe all it holds |
| `ReadPassword` | `readPassword`: `term.ReadPassword`, or `fmt.Scan` if standard input is no terminal; then the handler's comparison |
| `ReadFails` | the end of the input: the handler returns with an error |
| `Write`, `HangUp` | the environment |

Case and surrounding blanks, which the confirmations ignore, are left out; a line is
written at once; the end of a terminal's input stays the end.

### DriveSelection

`attached` says which drive is behind each device node; `passphrase` and `mounted`
what macOS knows of each volume; `listing` in which order diskutil lists a drive's
containers. Three history variables: `told` is the passphrase each drive has if
one believes the success messages, `swapped` whether a drive took a node on which
a running command had chosen another, `doubt` the running `status` commands that
have a reason to say "not encrypted": their drive had no passphrase to anyone's
knowledge at some moment since they began, was pulled out or plugged in, or one of
their own diskutil calls was refused.

| Action | Code |
|---|---|
| `Select` | the handler up to its prompts: `ResolvePath`, `List`, the drive it picks, the check for a removable drive |
| `ChooseVolume` | the `APFSVolume` of the list, or `findAPFSVolumeDevice` now |
| `RunTool` | one diskutil call of `encryptDarwin`, `decryptDarwin`, `unlockDarwin`, `lockDarwin`, `changePasswordDarwin`, and their second attempts |
| `OpenRaw` | `EncryptPro` to the open of the device, with its own check for a removable drive |
| `CheckStatus` | `handleStatus` to the first diskutil call |
| `AskDisk`, `LookForVolume`, `AskVolume` | the three calls of `checkStatusDarwin`; an error of the last two falls through |
| `ReadRaw` | `checkStatusRaw`, if nothing said "encrypted" |
| `Replug` | a drive is pulled out or plugged in, anywhere |

diskutil is the environment: it does what it is asked if the passphrase is right
and the volume is in the right state, or fails and does nothing (the fault
`refused`, of the calls that act and of those of `status`; a `diskutil list` that
fails before the prompts only ends its command and is left out). Every drive is APFS formatted, in partitions or as a whole; a device
identifier is a place on a node, which is how macOS numbers devices, and goes to
whatever drive comes next. `status` reports an unknown path as NOT ENCRYPTED
together with an error; the model keeps that verdict apart. Whether `status` can
read the raw header depends on its being run as root, hence two possible verdicts
on a wiped drive. A drive overwritten by `encrypt-pro` shows no containers.

## 3. Runs

The runs of `ProDrive` and `DriveCache`, and the safety runs of `FileCrypto`, use
two processes and two passwords.

| Run | Checks | Bounds |
|---|---|---|
| `pro_faults` | `TypeOK`, `EachSectorOnce`, `HeaderNamesKey`, `OnlyRekeyingLosesKeys` | 3 sectors, hidden from 2, 3 commands, 1 fault of any kind |
| `pro_lifecycle` | `ImplementsLifecycle` | 2 sectors, hidden from 2, 4 commands, no fault |
| `pro_liveness` | `EveryCommandReturns`, `EncryptionSeals` | 2 sectors, 3 commands, 1 failed write or kill |
| `cache_power_cuts` | `CacheTypeOK`, `OnlyLostHeaderLosesKeys`, `OnlyLostHeaderSealsTwice` | `encrypt-pro` and `decrypt-pro`, 2 sectors, 4 commands, 1 failed read or write or kill, 2 power cuts, flushes that may do nothing |
| `file_ordinary` | `TypeOK`, `SomeCopySurvives`, `SuccessIsFaithful`, `ImplementsFileStack` | one file of 2 chunks, in place and to two other names, 4 commands, 2 faults of any kind |
| `file_liveness` | `EveryCommandReturns` | outputs that are inputs, also crosswise, 2 commands, 1 failed write or remove or kill, 1 password |
| `chunk_stream` | `TypeOK`, `OutputIsPrefix`, `IntactRestores` | files of 0 to 5 bytes, chunks of 2, tags of 1, short reads in both loops, one truncation or cut |
| `prompt_answers` | `TypeOK`, `PasswordsAsTyped`, `AnsweredRuns`, `EveryCommandDecides` | all ten commands, pipe and terminal, passwords of no, one or two words |
| `select_drives` | `TypeOK`, `ToldIsTrue`, `LockUnmounts`, `StatusConfirms` | a stick with one volume behind an empty container, a drive with one volume and no partitions, a fixed disk; 2 nodes, 2 processes, all seven commands, 3 started, 1 refusal, 2 replugs |

`TypeOK` is the type invariant. `EachSectorOnce`: at every step of a loop the
sectors behind its byte offset hold the transform, under the number of their place
whatever `sectorNum` counted, of what they held when the pass began, and the others
are untouched. `HeaderNamesKey`: the header on the drive
already names every key a loop writes under. `OnlyRekeyingLosesKeys`: only a step that writes
a header over another one, or the loop of `change-password-pro`, can leave a layer
whose key the header does not name. `ImplementsLifecycle`: `ProDrive` implements
`DriveLifecycle`.

`SomeCopySurvives`: at every step, whatever was killed or failed, the text of
every file can be decrypted from some path. `SuccessIsFaithful`: when a command
reports success, the file it leaves decrypts to the input, or is the decryption
of what the input held when it was opened. `ImplementsFileStack`: a user's file
changes in one step, from one stack of passwords to the next. `EveryCommandReturns` of the files holds
although a loop may read what it writes itself: the disk fills up.

`OnlyLostHeaderLosesKeys`: after any kills, failed writes and power cuts the header
found on the drive names the key of every layer found on a sector, unless a power
cut took a header that was pending. `OnlyLostHeaderSealsTwice`: under the same
condition no sector is encrypted twice. `OutputIsPrefix`: whatever was read and whatever was cut
out, decryption writes a prefix of the input. `IntactRestores`: of an intact file
it writes all, and refuses it only after a short read. `PasswordsAsTyped`: a
command runs with the passwords given for it, each in its place, or not at all.
`AnsweredRuns`: nobody who answers everything on a terminal is turned away, nor
through a pipe by a command without a confirmation.
`EveryCommandDecides`: no question is asked for ever. `ToldIsTrue`: the passphrase
of each volume is the one the success messages imply, through second attempts and
replugging. `LockUnmounts`: a drive reported locked has nothing mounted.
`StatusConfirms`: status does not say "not encrypted" of a drive whose user had been
told of a passphrase all the time it ran, unless the drive was moved or one of
its own calls failed. The three hold until a drive takes the node another command
has chosen.

Bounds. With three sectors a loop has a first, a middle and a last sector, and
the hidden region begins inside. Three commands are the shortest sequence in
which one acts on what a second left of a first, with a process overlapping
both; the lifecycle run has a fourth, enough to reach every abstract phase and to
leave it again. `MaxCommands` and `MaxFaults` bound the counters `issued` and
`faults`; salts are bounded by the commands. Two chunks give a file a first
chunk and a last; four commands let a file be encrypted, encrypted again over a
longer old output, and decrypted, with what a killed command left in the way.
`MaxLength` is the free space of the disk. `Overlapping` is FALSE in
`file_ordinary`: what happens when two running commands name one file is
`file_overlap`. In `cache_power_cuts` a second power cut can hit a command that
acts on what the first left, and with a kill or a failed write up to three of the
four commands are cut off half way. In `pro_restore` one process and two commands are the shortest
counterexample. In `chunk_stream` five bytes are two whole chunks and a
partial one, zero none, and 2 and 4 end at a chunk's border; a tag of one byte is
enough because no slice shorter than a chunk is authentic. Three drives, two nodes
and two replugs let a drive come back elsewhere while a command prompts, or
another one in its place; three commands are an `encrypt`, a second command on
the volume, and one that overlaps or follows. `Overlapping` is TRUE in
`file_liveness`.

Fairness. `FairSpec` has weak fairness of each process's own steps: the operating
system runs a process that is ready. Nobody is obliged to start or kill one, and
no fault is obliged to happen. This holds for the drive and for the files; in
`Prompt` the process is scheduled as well, and the writer writes on or goes away,
since nothing bounds how long the program waits for an answer. `EncryptionSeals`
excepts commands that told their user of a failure or were killed; read faults are
left out of the run because they break it, which is the finding of
`pro_unreadable_sector`.

Deadlock is not checked: when the commands are used up the system stops.

### Runs that must fail

Each checks one statement of the documentation or a comment, and shows that the
code does something else.

| Run | Statement | What happens |
|---|---|---|
| `pro_restore` | README.md:141 "This decrypts all sectors and restores the drive to normal. Your data is preserved.", drive.go:344 "decrypts every sector in-place and restores the raw device" | after `encrypt-hidden` a successful `decrypt-pro` leaves the hidden region under the other key and the header in sector 0 |
| `pro_unreadable_sector` | drive.go:209 "re-encrypts all sectors" | a read error ends the loop and success is reported |
| `file_overlap` | README.md:209 "As long as you remember your password, you can decrypt any file independently of this tool." | of two in-place runs on one file, the second removes the first's result and has nothing to rename |

### What the properties do not promise

Several properties carry a condition, or their run a restriction. Each stands
for something the code does that the documentation does not lead one to expect;
taking it away makes TLC show it.

- `ImplementsLifecycle` is about what `DriveLifecycle` says, and that is: after
  `decrypt-pro` the header stays (status still says encrypted, `encrypt-pro`
  refuses, a second `decrypt-pro` scrambles), and after `encrypt-hidden` nothing
  removes both layers of the hidden region. `pro_restore` shows that this is not
  what README.md:141 says.
- `OnlyRekeyingLosesKeys` excepts headers written over headers and the loop of
  `change-password-pro`, which overwrites the only copy of the old salt before it
  re-encrypts the first sector; a kill in its loop loses the sectors not reached.
  Run on a drive whose `encrypt-pro` was killed, it leaves the sectors that were
  never encrypted under a layer of the old key and reports success.
- `cache_power_cuts` has no failed header reads: `encrypt-pro` goes on when it could
  not read sector 0 (drive.go:123), writes a new header over the old one and encrypts
  what is encrypted.
- Nothing says that `decrypt-pro` restores what an interrupted `encrypt-pro` left:
  it decrypts every sector, also the ones that are still plain.
- Nothing says that a success is durable: "complete" can be printed while all of
  the drive is in its cache. The comment of darwin_io.go:62, "file.Sync() doesn't
  work on raw devices; use F_FULLFSYNC", names the cause; F_FULLFSYNC is tried only
  where fsync failed.
- `OnlyLostHeaderLosesKeys` and `OnlyLostHeaderSealsTwice` except `loss = "done"`.
  `writeHeader` returns with the header in the cache, the loop begins, the drive
  writes sectors out first and the power fails: what was encrypted then has no salt
  any more, and the next `encrypt-pro` finds no magic. Nothing in the code excludes
  this; the properties say that it is the only way.
- `ExclusiveOpen` is TRUE in every run. With FALSE two loops run over one drive at
  once, both properties of the loops fail, and no command promises anything.
- `file_ordinary` keeps running commands off each other's names, and its requests
  never name the input as the output: `decrypt-file a a` truncates `a` and reports
  success over an empty file.
- `IntactRestores` allows a refusal after a short read: a file encrypted from a
  pipe can be one that nobody can decrypt.
- `PasswordsAsTyped` excludes phrases through a pipe (`fmt.Scan` takes the first
  word), `AnsweredRuns` confirmations through a pipe (their buffered reader
  swallows the passwords), though main.go:1020 says "works with pipes".
- `StatusConfirms` excepts the commands in `doubt`: a failing diskutil, or a drive
  pulled out between its calls, makes `status` say "not encrypted" of a drive that is,
  without an error (darwin.go:378-387).
- `ToldIsTrue`, `LockUnmounts`, `StatusConfirms`: drives with one volume. Of a drive
  with two, `encrypt` encrypts and `lock` unmounts the first; with two containers
  that diskutil lists in another order than the partitions, `status` looks at
  another volume than `encrypt` did.
- `~swapped`: `encrypt-pro` opens the path after the prompts, and asks the list, not
  the device, whether it is removable. A drive that was plugged in there meanwhile
  is overwritten, removable or not, and the volume commands act on its volume. No
  property is about which drive is overwritten, because none holds.
- A locked drive has no mount point, so `unlock /Volumes/MyDrive` (README.md:85)
  ends with "Drive not found": `ResolvePath`.

## 4. Proofs

TLAPS checks what follows for every value of the constants that the modules'
named assumptions allow: any number of processes, passwords, sectors, drives and
lines, any set of commands and faults, any bound. The assumptions give the
constants their types (`DriveAssumption`, `CacheAssumption`, `FileAssumption`,
`ChunkAssumption`, `PromptAssumption`, `SelectionAssumption`), say that no password
is the one that stands for none (`NoPasswordAssumption`), that the two literals of
`encryptHiddenData` agree (`HiddenAssumption`: 1024 * 1024 = 512 * 2048), and that there are finitely
many files to begin with (in `FileAssumption`; the model counts them for inode numbers). What a theorem needs beyond these
is a hypothesis in its statement.

| Theorem | States | Hypotheses |
|---|---|---|
| `TypeCorrect` | `Spec => []TypeOK` of `ProDrive` | |
| `LoopsTransformOnce` | `[]EachSectorOnce` | `ExclusiveOpen` |
| `LoopsNamedByHeader` | `[]HeaderNamesKey` | `ExclusiveOpen` |
| `KeysLostOnlyByRekeying` | `OnlyRekeyingLosesKeys` | `ExclusiveOpen` |
| `SealedDriveRecoverable` | `[]Recoverable` | `ExclusiveOpen`, `OnlySealAndOpen` |
| `NeverEncryptedTwice` | `[]NoDoubleEncryption` | `ExclusiveOpen`, `OnlySealAndOpen` |
| `LifecycleImplemented` | `ImplementsLifecycle` | `ExclusiveOpen`, `NoFaults`, `Large` |
| `CacheTypeCorrect` | `[]CacheTypeOK` | |
| `KeysSurvivePowerCuts` | `[]OnlyLostHeaderLosesKeys` | `ExclusiveOpen`, `OnlySealAndOpen` |
| `SealedOnceThroughPowerCuts` | `[]OnlyLostHeaderSealsTwice` | `ExclusiveOpen`, `OnlySealAndOpen` |
| `FileTypeCorrect` | `[]TypeOK` of `FileCrypto` | |
| `SuccessAlwaysFaithful` | `SuccessIsFaithful` | `Orderly` |
| `SomeCopyAlwaysSurvives` | `[]SomeCopySurvives` | `Orderly`, `ToCopies` |
| `FileStackImplemented` | `ImplementsFileStack`, from `StackSpec` | `Orderly`, `ToCopies`, `NumChunks > 0` |
| `ChunkTypeCorrect` | `[]TypeOK` of `ChunkStream` | |
| `OutputAlwaysPrefix` | `[]OutputIsPrefix` | |
| `IntactAlwaysRestores` | `[]IntactRestores` | |
| `PromptTypeCorrect` | `[]TypeOK` of `Prompt` | |
| `PasswordsReachCommand` | `[]PasswordsAsTyped` | |
| `AnsweredAlwaysRuns` | `[]AnsweredRuns` | |
| `SelectionTypeCorrect` | `[]TypeOK` of `DriveSelection` | |
| `MessagesAreTrue` | `[]ToldIsTrue` | `OneVolume` |
| `LockedIsUnmounted` | `LockUnmounts` | `OneVolume` |
| `StatusTellsTruth` | `StatusConfirms` | `OneVolume` |

`SealedDriveRecoverable` and `NeverEncryptedTwice` are about `ProDrive` alone, whose
writes are durable: every layer on every sector has a key that the header names or a
running loop holds, and no sector is encrypted twice. No run checks these two by
themselves; those of `cache_power_cuts` include them.

The hypotheses, and what goes wrong without them:

- `ExclusiveOpen`: without it two commands rewrite the drive at once.
- `OnlySealAndOpen`: only `encrypt-pro` and `decrypt-pro`, and sector 0 can be
  read. The reasons are in "What the properties do not promise" above.
- `NoFaults`, `Large`: a command that failed or was killed half way leaves a
  drive in no phase of `DriveLifecycle`. A drive of less than 1 MB has no hidden
  region: `encrypt-hidden` then leaves what `encrypt-pro` would.
- `Orderly`: no two running commands name one file, and no request reads and writes
  one name. Without it two commands rewrite one file, and `decrypt-file a a` truncates
  its own input; in `file_overlap` a text is lost that way.
- `ToCopies`: a user's file is never the output of a request, only replaced in
  place. `os.Create` truncates an existing output without a question.
- `NumChunks > 0`: an encrypted empty file is only headers, and nothing in it is
  sealed with the passwords that `FileStack` counts.
- `OneVolume`: no drive has two APFS volumes, for the reason given above.

### Raw drive

`LoopsTransformOnce` and `LoopsNamedByHeader` need the inductive invariant
`IInv`: both properties speak of the loop of one process, and what they miss is
that nobody else moves, and that the two counters stay together. `IInv` adds that
at most one process is past its open (`OneHolder`), that a drive nobody has open is
at the start of its next pass (`Settled`), where a process's pass and its byte offset
are, and that its sector number is the number of that place (`Placed`). `AdvancePlace` and `SecondPassPlace` are the facts about
the counters: both are advanced by one sector, and the literals of the second pass
agree (`HiddenAssumption`). So the number the cipher is given is that of the sector
written, and `EachSectorOnce` follows. Each action
has a lemma; `StepWithin` and `StepReturns` reduce the whole invariant to the
part of the process that moved. `HeaderRoundTrip` (both kinds of header survive
`Encode` and `Decode`) and `AcceptedKeyIsPrimary` (only the primary key passes
both checks) are the facts about the header they rest on.

`KeysLostOnlyByRekeying` adds `KInv`: a drive without a header is untouched
(`Untouched`), and only `encrypt-hidden` has a second pass (`SinglePass`). So a
first header can orphan no layer, and a loop adds only layers that `IInv` says the
header names.

`SealedDriveRecoverable` and `NeverEncryptedTwice` rest on `SealInv`: the header
names the key of every layer (`NamedByHeader`), no sector has two encryptions (`EncryptedOnce`), and a process is only
where these two commands can be (`OnlyThem`). `encrypt-pro` comes to its header
only from a look at a sector 0 without the magic, and with `IInv`'s `OneHolder`
nobody has written one since (`StampSteps`); by `Untouched` its loop then runs
over plain sectors.

`LifecycleImplemented` goes through every step of `ProDrive`: a step that reports
success is the step of `DriveLifecycle` that the command stands for, every other
step leaves its variables alone. The invariant `LifeInv` says what the drive is
like between commands (`LeftInv`: the last command's drive is readable in one of
the phases, or its last sector is out of the password's reach; every key on it is
older than the next salt), that a drive nobody works on is as the last command
left it (`AtRest`), and of a running command that it was let in by the owner's
password and started from that drive (`Ready`). `Phases` and `PhasesApart` tie
the sectors to the phase the mapping computes, each from the layers of the last
sector: `LayerStays` says when a further layer cannot cancel it. That fresh salts
are younger than every key on the drive is what rules cancelling out.

### Cache

Apart from `PowerCut` every step is one of `ProDrive` or none (`CacheSteps`), so
`IInv`, `KInv` and `SealInv` carry over. A power cut turns the medium into the drive,
so the medium must satisfy them too, and it may be older than the drive, header and
sectors each by itself. `MediumInv` says what saves it: the header that the drive
reads back names every key on the medium, no sector there is encrypted twice, and as
long as no loss is pending a header that is only in the cache has a process waiting
for it, so nothing was rewritten under it and drive and medium are plaintext. No
assumption about flushes is needed: a `Sync` that did nothing makes the header
pending, and then a power cut makes the loss `done` (`PowerCutKept`), which ends the
promise (`Kept`). `NobodyWaits` says that no process writes while another one's
fsync is outstanding; it is where `ExclusiveOpen` comes in.

### Files

`FileTypeInv` adds to the types that inode numbers never run out: a running
command creates at most one file, so those left cover the commands that have not
got to `os.Create` (`InodesLeft`). An open descriptor is an inode in use (`Opened`).

`SuccessAlwaysFaithful` rests on `FaithInv`. Commands keep to their own names
(`Apart`), and the inode a command writes is nobody else's (`Unlinked`). `Working`
then says, for each program counter, which paths the handler set up (`Shape`), that
the input is the file the command opened, unchanged (`Holds`), and that the output
is the encryption or decryption of exactly what was read of it (`EncryptsAs`, `DecryptsAs`).

`SomeCopyAlwaysSurvives` follows one file. `KeptInv` says that it is `Whole`, under
some passwords, at its own name or, between `os.Remove` and `os.Rename`, at the
temporary's name, and that no more passwords were put on it than commands
were started (`Kept`). What an encryption or a decryption does to a whole file is
one more header and one more layer around everything (`EncryptedWhole`,
`DecryptedWhole`, from `WrappedItem`). A step either leaves the file alone, removes
it, or renames the temporary over it (`StepKinds`, `StepKeeps`). That a whole
file can be decrypted to its text is a fact about `Versions`, a recursive function
of a bounded depth. It needs no induction theorem: if some depth failed to
reach the version with the passwords that should be left, the least such depth
(`Least`) would contradict the definition (`VersionsPeel`, `WholeRecovered`).

`FileStackImplemented` adds `CurInv`: `current` is the path of `Kept`. The step that
moves `current`, and no other, changes the passwords of that file, by pushing or
popping the one of the command (`CurrentFollows`, `StackStep`), and one step changes
one file only (`OneMover`).

### Chunks

`Chained` in `StreamInv` is what makes `OutputAlwaysPrefix` go through: whatever was
cut out, bytes with the same nonce are of one chunk, and chunks with successive
nonces are next to each other in the input. A slice that GCM accepts is one whole
chunk with the next nonce, so it continues the output. `FrameInv` adds, for a file
that was not damaged, that the reader stands between two chunks and that all the
chunks behind it are full ones but the last, unless a read was short.

### Prompts

`PromptInv` counts: there are never more lines left than questions, and as many
as questions if everybody answered (`Synced`); then each line left is the answer to
its question (`Matches`) and those read are where they belong (`AnswersMatch`).
Passwords with blanks break the count through a pipe, and only there.

### FileVault

`SelectInv` says what a command holds between its listing and its end (`JobOK`):
a volume on the node that was chosen, and, unless a drive took another's node
meanwhile, the drive that was shown behind it, or none. `TruthInv` adds that a
passphrase is only ever told of a drive with a volume (`ToldOfVolumes`), which is
why `status`, finding no volume on a drive told to have a passphrase, must be
looking at one that was overwritten. `Doubtless` says so of each running `status`
that is not in doubt, and `StatusInv` is all of these: each step of a `status` keeps
`Doubtless` (`StepOfStatus`), and what others do at its node puts it in doubt
(`DoubtlessStep`).

### Only model-checked

- Liveness (`EveryCommandReturns`, `EncryptionSeals`, `EveryCommandDecides`) is
  beyond the prover.
- What the three runs that expect a violation show: each is one behaviour TLC found.

## 5. Not modelled, and the plan

Not to be modelled: progress display and size report (output only), the Windows
and Linux back ends (stubs), `EncryptoCrypto`, `crypto.Header` and
`UnlockWithHidden` (no caller), `unlock-pro` and `lock-pro` (README.md:131
documents them, the code prints "not yet implemented"), the developer scripts.

Left out of `DriveSelection`: drives that are not APFS, of which only `lock` does
something else (it unmounts the disk); a diskutil that fails after it had its
effect, and its background conversion; plists that do not parse.
Left out of `Prompt`: a terminal whose end of input is typed and taken back.
Short reads of a raw device are not modelled: such devices move whole sectors.

What a proof could still add: the file theorems for requests that overlap, with
a weaker promise; `LifecycleImplemented` with commands that fail half way, which
needs more phases in `DriveLifecycle`.
