------------------------- MODULE ProDriveKeyProofs -------------------------
(***************************************************************************)
(* Proofs about the keys of ProDrive: which commands can put a sector out  *)
(* of the passwords' reach, and that encrypt-pro and decrypt-pro never do. *)
(***************************************************************************)
EXTENDS ProDriveProofs, FiniteSetTheorems, SequenceTheorems

USE DriveAssumption, NoPasswordAssumption

-----------------------------------------------------------------------------
(* Layers of a sector.                                                     *)

LEMMA ApplyLayers ==
  ASSUME NEW layer \in Layers, NEW inverse, NEW contents \in Contents
  PROVE  \/ /\ Len(Apply(layer, inverse, contents)) = Len(contents) - 1
            /\ contents[Len(contents)] = inverse
            /\ \A i \in 1 .. (Len(contents) - 1) : Apply(layer, inverse, contents)[i] = contents[i]
         \/ /\ Len(Apply(layer, inverse, contents)) = Len(contents) + 1
            /\ Apply(layer, inverse, contents)[Len(contents) + 1] = layer
            /\ \A i \in 1 .. Len(contents) : Apply(layer, inverse, contents)[i] = contents[i]
<1>1. CASE contents # <<>> /\ Last(contents) = inverse
  <2>1. contents \in Seq(Layers) /\ Len(contents) \in Nat /\ Len(contents) > 0
    BY <1>1 DEF Contents
  <2>2. Apply(layer, inverse, contents) = SubSeq(contents, 1, Len(contents) - 1)
    BY <1>1 DEF Apply, Front
  <2>3. contents[Len(contents)] = inverse
    BY <1>1 DEF Last
  <2>4. /\ Len(SubSeq(contents, 1, Len(contents) - 1)) = Len(contents) - 1
        /\ \A i \in 1 .. (Len(contents) - 1) : SubSeq(contents, 1, Len(contents) - 1)[i] = contents[i]
    <3>. DEFINE n == Len(contents) - 1
    <3>1. 1 \in Int /\ n \in Int /\ n >= 0 /\ \A i \in 1 .. n : contents[i] \in Layers
      BY <2>1
    <3>. HIDE DEF n
    <3>2. /\ Len(SubSeq(contents, 1, n)) = IF 1 <= n THEN n - 1 + 1 ELSE 0
          /\ \A i \in 1 .. (n - 1 + 1) : SubSeq(contents, 1, n)[i] = contents[1 + i - 1]
      BY <3>1, SubSeqProperties
    <3>3. /\ Len(SubSeq(contents, 1, n)) = n
          /\ \A i \in 1 .. n : SubSeq(contents, 1, n)[i] = contents[i]
      BY <3>1, <3>2
    <3>. QED BY <3>3 DEF n
  <2>. QED BY <2>2, <2>3, <2>4
<1>2. CASE ~(contents # <<>> /\ Last(contents) = inverse)
  BY <1>2 DEF Apply, Contents
<1>. QED BY <1>1, <1>2

(* A sector gains no key but the one it is encrypted or decrypted under.   *)
LEMMA ApplyKeys ==
  ASSUME NEW layer \in Layers, NEW inverse, NEW contents \in Contents
  PROVE  KeysOf(Apply(layer, inverse, contents)) \subseteq KeysOf(contents) \union {layer.key}
<1>1. Apply(layer, inverse, contents) \in Contents
  BY ApplyType
<1>. QED BY <1>1, ApplyLayers DEF KeysOf, Contents

LEMMA CipherKeys ==
  ASSUME NEW contents \in Contents, NEW key \in Keys, NEW sectorNum \in Nat
  PROVE  /\ KeysOf(Encrypt(contents, key, sectorNum)) \subseteq KeysOf(contents) \union {key}
         /\ KeysOf(Decrypt(contents, key, sectorNum)) \subseteq KeysOf(contents) \union {key}
<1>1. /\ Layer("Encrypt", key, sectorNum) \in Layers /\ Layer("Encrypt", key, sectorNum).key = key
      /\ Layer("Decrypt", key, sectorNum) \in Layers /\ Layer("Decrypt", key, sectorNum).key = key
  BY DEF Layer, Layers
<1>. QED BY <1>1, ApplyKeys DEF Encrypt, Decrypt

-----------------------------------------------------------------------------
(* What a step does to the drive, and to a running command's variables.    *)

Stamps(p) ==
  /\ pc[p] = "stamp" /\ pc'[p] = "read"
  /\ sector0' = Encode(NewHeader(job[p]))
  /\ UNCHANGED <<data, base>>

Rewrites(p) ==
  /\ pc[p] = "write" /\ pc'[p] = "read"
  /\ data' = [data EXCEPT ![job[p].sectorNum] = Transform(job[p], job[p].buf, job[p].sectorNum)]
  /\ UNCHANGED <<sector0, base>>

(* A sector is written back to the place whose number the loop counts.     *)
LEMMA WritePlace ==
  ASSUME IInv, NEW p \in Procs, pc[p] = "write"
  PROVE  /\ job[p] \in Jobs /\ job[p].sectorNum \in Sectors
         /\ job[p].buf = data[job[p].sectorNum]
         /\ At(job[p].offset) = {job[p].sectorNum}
<1>1. job[p] \in Jobs /\ InStep(job[p]) /\ job[p].sectorNum \in Nat
  BY JobType DEF IInv, LoopInv, Placed, InLoop, Jobs
<1>2. At(job[p].offset) = {s \in Sectors : s = job[p].sectorNum}
  BY <1>1, PlaceOfStep DEF InStep
<1>3. \E s \in At(job[p].offset) : job[p].buf = data[s]
  BY DEF IInv, LoopInv, TransformedOnce
<1>. QED BY <1>1, <1>2, <1>3

LEMMA DriveSteps ==
  ASSUME IInv, [Next]_vars
  PROVE  UNCHANGED drive \/ \E p \in Procs : Stamps(p) \/ Rewrites(p)
<1>1. ASSUME NEW p \in Procs, NEW password \in Passwords, NEW other \in Passwords,
             \/ StartEncryptPro(p, password) \/ StartDecryptPro(p, password)
             \/ StartChangePasswordPro(p, password, other)
             \/ StartEncryptWithHidden(p, password, other)
      PROVE  UNCHANGED drive
  BY <1>1 DEF StartEncryptPro, StartDecryptPro, StartChangePasswordPro, StartEncryptWithHidden,
     Start
<1>2. ASSUME NEW p \in Procs, CheckNotEncrypted(p) \/ Authenticate(p) \/ ReadSector(p)
                               \/ LeaveLoop(p) \/ Kill(p)
      PROVE  UNCHANGED drive
  BY <1>2 DEF CheckNotEncrypted, Authenticate, ReadSector, LeaveLoop, Kill
<1>3. ASSUME NEW p \in Procs, WriteHeader(p)
      PROVE  UNCHANGED drive \/ Stamps(p)
  BY <1>3 DEF WriteHeader, Stamps, Goto, IInv, TypeOK, history
<1>4. ASSUME NEW p \in Procs, WriteSector(p)
      PROVE  UNCHANGED drive \/ Rewrites(p)
  <2>1. CASE UNCHANGED drive
    BY <2>1
  <2>2. ASSUME NEW t \in At(job[p].offset), Goto(p, "read"), UNCHANGED <<sector0, history>>,
               data' = [data EXCEPT ![t] = Transform(job[p], job[p].buf, job[p].sectorNum)]
        PROVE  Rewrites(p)
    <3>1. pc[p] = "write" /\ t = job[p].sectorNum
      BY <1>4, <2>2, WritePlace DEF WriteSector
    <3>. QED BY <2>2, <3>1 DEF Rewrites, Goto, IInv, TypeOK, history
  <2>. QED BY <1>4, <2>1, <2>2 DEF WriteSector, history
<1>5. CASE UNCHANGED vars
  BY <1>5 DEF vars, drive
<1>. QED BY <1>1, <1>2, <1>3, <1>4, <1>5 DEF Next, Proceed

Starts(p) ==
  /\ pc[p] = "idle"
  /\ pc'[p] \in {"opened", "stamp"}
  /\ job'[p].command \in Commands
  /\ pc'[p] = "stamp" => job'[p].command = "EncryptWithHidden"
  /\ job'[p].pass = 1

(* A command keeps its name and its passwords, and only encrypt-hidden     *)
(* begins a second pass.                                                   *)
Continues(p) ==
  /\ pc[p] # "idle" /\ pc'[p] # "idle"
  /\ job'[p].command = job[p].command
  /\ job'[p].password = job[p].password
  /\ job'[p].other = job[p].other
  /\ job'[p].pass # job[p].pass => job[p].command = "EncryptWithHidden"

LEMMA LoopKeysKeep ==
  ASSUME NEW j \in Jobs, NEW h
  PROVE  /\ LoopKeys(j, h).command = j.command
         /\ LoopKeys(j, h).password = j.password
         /\ LoopKeys(j, h).other = j.other
BY DEF LoopKeys, Jobs

LEMMA JobSteps ==
  ASSUME TypeOK, [Next]_vars, NEW q \in Procs, pc'[q] # "idle"
  PROVE  Starts(q) \/ Continues(q)
<1>1. ASSUME NEW p \in Procs, NEW command, NEW password, NEW other,
             NEW to \in {"opened", "stamp"}, to = "stamp" => command = "EncryptWithHidden",
             Start(p, command, password, other, to)
      PROVE  Starts(q) \/ Continues(q)
  <2>1. CASE UNCHANGED <<handles, pc, job>>
    BY <2>1 DEF Continues
  <2>2. CASE ~UNCHANGED <<handles, pc, job>>
    <3>. DEFINE j == [command |-> command, password |-> password, other |-> other,
                      key |-> ZeroKey, otherKey |-> ZeroKey, pass |-> 1, sectorNum |-> 1,
                      offset |-> SectorSize, buf |-> Plaintext]
    <3>1. /\ pc' = [pc EXCEPT ![p] = to]
          /\ job' = [job EXCEPT ![p] = j]
          /\ pc[p] = "idle" /\ command \in Commands
      BY <1>1, <2>2 DEF Start, Goto
    <3>2. CASE q = p
      <4>1. pc'[q] = to /\ job'[q] = j
        BY <3>1, <3>2 DEF TypeOK
      <4>. QED BY <1>1, <3>1, <3>2, <4>1 DEF Starts
    <3>3. CASE q # p
      BY <3>1, <3>3 DEF Continues, TypeOK
    <3>. QED BY <3>2, <3>3
  <2>. QED BY <2>1, <2>2
<1>2. ASSUME NEW p \in Procs, NEW password \in Passwords, NEW other \in Passwords,
             \/ StartEncryptPro(p, password) \/ StartDecryptPro(p, password)
             \/ StartChangePasswordPro(p, password, other)
             \/ StartEncryptWithHidden(p, password, other)
      PROVE  Starts(q) \/ Continues(q)
  BY <1>1, <1>2 DEF StartEncryptPro, StartDecryptPro, StartChangePasswordPro,
     StartEncryptWithHidden
<1>3. ASSUME NEW p \in Procs, NEW result, Return(p, result)
      PROVE  Continues(q)
  BY <1>3 DEF Return, Goto, Continues, TypeOK
<1>4. ASSUME NEW p \in Procs, CheckNotEncrypted(p) \/ Kill(p)
      PROVE  Continues(q)
  BY <1>3, <1>4 DEF CheckNotEncrypted, Kill, Goto, Continues, TypeOK
<1>5. ASSUME NEW p \in Procs, NEW j \in Jobs, pc[p] # "idle",
             job' = [job EXCEPT ![p] = j], UNCHANGED pc \/ \E to : Goto(p, to),
             j.command = job[p].command, j.password = job[p].password, j.other = job[p].other,
             j.pass # job[p].pass => job[p].command = "EncryptWithHidden"
      PROVE  Continues(q)
  BY <1>5 DEF Goto, Continues, TypeOK
<1>6. ASSUME NEW p \in Procs, Authenticate(p)
      PROVE  Continues(q)
  <2>1. job[p] \in Jobs /\ pc[p] = "opened"
    BY <1>6, JobType DEF Authenticate
  <2>2. ASSUME NEW key \in AcceptedKeys(job[p].password, Decode(sector0)),
               job' = [job EXCEPT ![p].key = key],
               Goto(p, IF job[p].command = "DecryptPro" THEN "read" ELSE "stamp")
        PROVE  Continues(q)
    <3>1. key \in Keys
      BY AcceptedKeyIsPrimary, HeaderTypes DEF TypeOK, Header
    <3>. DEFINE j == [job[p] EXCEPT !.key = key]
    <3>2. /\ j \in Jobs /\ j.command = job[p].command /\ j.password = job[p].password
          /\ j.other = job[p].other /\ j.pass = job[p].pass
      BY <2>1, <3>1 DEF Jobs
    <3>3. job' = [job EXCEPT ![p] = j]
      BY <2>2
    <3>. HIDE DEF j
    <3>. QED BY <1>5, <2>1, <2>2, <3>2, <3>3
  <2>. QED BY <1>3, <1>6, <2>2 DEF Authenticate
<1>7. ASSUME NEW p \in Procs, WriteHeader(p)
      PROVE  Continues(q)
  <2>1. job[p] \in Jobs /\ pc[p] = "stamp"
    BY <1>7, JobType DEF WriteHeader
  <2>. DEFINE j == LoopKeys(job[p], NewHeader(job[p]))
  <2>2. /\ j \in Jobs /\ j.command = job[p].command /\ j.password = job[p].password
        /\ j.other = job[p].other /\ j.pass = job[p].pass
    BY <2>1, NewHeaderType, LoopKeysPlace, LoopKeysKeep
  <2>. HIDE DEF j
  <2>3. CASE job' = [job EXCEPT ![p] = j] /\ Goto(p, "read")
    BY <1>5, <2>1, <2>2, <2>3
  <2>. QED BY <1>3, <1>7, <2>3 DEF WriteHeader, j
<1>8. ASSUME NEW p \in Procs, ReadSector(p)
      PROVE  Continues(q)
  <2>0. PICK t \in At(job[p].offset) : job' = [job EXCEPT ![p].buf = data[t]]
    BY <1>8 DEF ReadSector
  <2>1. job[p] \in Jobs /\ pc[p] = "read" /\ data[t] \in Contents
    BY <1>8, <2>0, JobType DEF ReadSector, TypeOK, At
  <2>. DEFINE j == [job[p] EXCEPT !.buf = data[t]]
  <2>2. /\ j \in Jobs /\ j.command = job[p].command /\ j.password = job[p].password
        /\ j.other = job[p].other /\ j.pass = job[p].pass
    BY <2>1 DEF Jobs
  <2>3. job' = [job EXCEPT ![p] = j] /\ Goto(p, "write")
    BY <1>8, <2>0 DEF ReadSector
  <2>. HIDE DEF j
  <2>. QED BY <1>5, <2>1, <2>2, <2>3
<1>9. ASSUME NEW p \in Procs, LeaveLoop(p)
      PROVE  Continues(q)
  <2>1. job[p] \in Jobs /\ pc[p] = "read"
    BY <1>9, JobType DEF LeaveLoop
  <2>. DEFINE j == SecondPass(job[p])
  <2>2. CASE /\ job[p].command = "EncryptWithHidden"
             /\ job' = [job EXCEPT ![p] = SecondPass(job[p])]
             /\ UNCHANGED pc
    <3>1. /\ j \in Jobs /\ j.command = job[p].command /\ j.password = job[p].password
          /\ j.other = job[p].other
      BY <2>1, SecondPassPlace DEF SameCommand
    <3>2. job' = [job EXCEPT ![p] = j]
      BY <2>1, <2>2 DEF TypeOK
    <3>. HIDE DEF j
    <3>. QED BY <1>5, <2>1, <2>2, <3>1, <3>2
  <2>. QED BY <1>3, <1>9, <2>2 DEF LeaveLoop
<1>10. ASSUME NEW p \in Procs, WriteSector(p)
       PROVE  Continues(q)
  <2>1. job[p] \in Jobs /\ pc[p] = "write"
    BY <1>10, JobType DEF WriteSector
  <2>. DEFINE j == Advance(job[p])
  <2>2. /\ j \in Jobs /\ j.command = job[p].command /\ j.password = job[p].password
        /\ j.other = job[p].other /\ j.pass = job[p].pass
    BY <2>1, AdvancePlace DEF SameCommand
  <2>3. CASE job' = [job EXCEPT ![p] = Advance(job[p])] /\ Goto(p, "read")
    <3>1. job' = [job EXCEPT ![p] = j]
      BY <2>3
    <3>. HIDE DEF j
    <3>. QED BY <1>5, <2>1, <2>2, <2>3, <3>1
  <2>. QED BY <1>3, <1>10, <2>3 DEF WriteSector
<1>11. CASE UNCHANGED vars
  BY <1>11 DEF vars, Continues
<1>. QED BY <1>2, <1>4, <1>6, <1>7, <1>8, <1>9, <1>10, <1>11 DEF Next, Proceed

(* A running command is moved on by its own process only.                  *)
LEMMA OwnStep ==
  ASSUME TypeOK, [Next]_vars, NEW q \in Procs, pc[q] # "idle", pc'[q] # pc[q]
  PROVE  Proceed(q) \/ Kill(q)
<1>1. ASSUME NEW p \in Procs, NEW password \in Passwords, NEW other \in Passwords,
             \/ StartEncryptPro(p, password) \/ StartDecryptPro(p, password)
             \/ StartChangePasswordPro(p, password, other)
             \/ StartEncryptWithHidden(p, password, other)
      PROVE  FALSE
  <2>1. pc[p] = "idle" /\ (UNCHANGED pc \/ \E to : Goto(p, to))
    BY <1>1 DEF StartEncryptPro, StartDecryptPro, StartChangePasswordPro,
       StartEncryptWithHidden, Start
  <2>. QED BY <2>1 DEF Goto, TypeOK
<1>2. ASSUME NEW p \in Procs, Proceed(p) \/ Kill(p)
      PROVE  p = q
  <2>1. UNCHANGED pc \/ \E to : Goto(p, to)
    BY <1>2 DEF Proceed, Kill, CheckNotEncrypted, Authenticate, WriteHeader, ReadSector,
       LeaveLoop, WriteSector, Return
  <2>. QED BY <2>1 DEF Goto, TypeOK
<1>3. ~UNCHANGED vars
  BY DEF vars
<1>. QED BY <1>1, <1>2, <1>3 DEF Next

-----------------------------------------------------------------------------
(* Keys are lost in two places only.                                       *)
(*                                                                         *)
(* The invariant adds to IInv that a drive without a header is untouched,  *)
(* so that the first header written over it names all there is to name,    *)
(* and that only encrypt-hidden has a second pass, under its other key.    *)

Untouched == ~Decode(sector0).magic => data = [s \in Sectors |-> Plaintext]

SinglePass(p) ==
  pc[p] # "idle" /\ job[p].command # "EncryptWithHidden" => job[p].pass = 1

KInv == Untouched /\ \A p \in Procs : SinglePass(p)

(* The header a command writes carries the magic.                          *)
LEMMA NewHeaderMagic ==
  ASSUME IInv, NEW p \in Procs, pc[p] = "stamp"
  PROVE  Decode(Encode(NewHeader(job[p]))).magic
<1>1. job[p] \in Jobs /\ job[p].command # "DecryptPro"
  BY JobType DEF IInv, LoopInv, Placed
<1>. QED BY <1>1, NewHeaderNamesLoopKeys DEF KeysNamed

LEMMA KInvStep ==
  ASSUME IInv, KInv, [Next]_vars
  PROVE  KInv'
<1>1. TypeOK
  BY DEF IInv
<1>2. Untouched'
  <2>1. CASE UNCHANGED drive
    BY <2>1 DEF KInv, Untouched, drive
  <2>2. ASSUME NEW p \in Procs, Stamps(p)
        PROVE  Untouched'
    BY <2>2, NewHeaderMagic DEF Untouched, Stamps
  <2>3. ASSUME NEW p \in Procs, Rewrites(p)
        PROVE  Untouched'
    <3>1. Decode(sector0).magic /\ sector0' = sector0
      BY <2>3 DEF Rewrites, IInv, LoopInv, InLoop, KeysNamed
    <3>. QED BY <3>1 DEF Untouched
  <2>. QED BY <1>1, <2>1, <2>2, <2>3, DriveSteps
<1>3. ASSUME NEW q \in Procs, pc'[q] # "idle", job'[q].command # "EncryptWithHidden"
      PROVE  job'[q].pass = 1
  <2>1. Starts(q) \/ Continues(q)
    BY <1>1, <1>3, JobSteps
  <2>. QED BY <1>3, <2>1 DEF KInv, SinglePass, Starts, Continues
<1>. QED BY <1>2, <1>3 DEF KInv, SinglePass

LEMMA KInvInductive == ExclusiveOpen => (Spec => []KInv)
<1>. SUFFICES ASSUME ExclusiveOpen PROVE Spec => []KInv
  OBVIOUS
<1>1. Init => KInv
  BY DEF Init, KInv, Untouched, SinglePass
<1>2. IInv /\ KInv /\ [Next]_vars => KInv'
  BY KInvStep
<1>3. Spec => []IInv
  BY Inductive
<1>. QED BY <1>1, <1>2, <1>3, PTL DEF Spec

(* A loop brings a sector under no key its header does not name, unless it *)
(* peels the old password's layers off.                                    *)
LEMMA TransformKeys ==
  ASSUME NEW j \in Jobs, NEW contents \in Contents, NEW sectorNum \in Nat, NEW h,
         KeysNamed(j, h), j.command # "ChangePasswordPro",
         j.command # "EncryptWithHidden" => j.pass = 1
  PROVE  KeysOf(Transform(j, contents, sectorNum))
           \subseteq KeysOf(contents) \union {h.hashedKey, h.hashedHiddenKey}
<1>1. j.key \in Keys /\ j.otherKey \in Keys
  BY DEF Jobs
<1>2. CASE j.command = "DecryptPro"
  <2>1. Transform(j, contents, sectorNum) = Decrypt(contents, j.key, sectorNum)
    BY <1>2 DEF Transform
  <2>. QED BY <1>1, <1>2, <2>1, CipherKeys DEF KeysNamed, verifyKey
<1>3. CASE j.command = "EncryptPro"
  <2>1. Transform(j, contents, sectorNum) = Encrypt(contents, j.key, sectorNum)
    BY <1>3 DEF Transform
  <2>. QED BY <1>1, <1>3, <2>1, CipherKeys DEF KeysNamed, verifyKey
<1>4. CASE j.command = "EncryptWithHidden"
  <2>1. \E key \in {j.key, j.otherKey} :
          Transform(j, contents, sectorNum) = Encrypt(contents, key, sectorNum)
    BY <1>4 DEF Transform
  <2>. QED BY <1>1, <1>4, <2>1, CipherKeys DEF KeysNamed, verifyKey
<1>. QED BY <1>2, <1>3, <1>4 DEF Jobs, AllCommands

(* The step that takes a key away is one of the two.                       *)
LEMMA NamedStep ==
  ASSUME IInv, KInv, [Next]_vars, NamedByHeader,
         \A p \in Procs : Stamps(p) => ~Decode(sector0).magic,
         \A p \in Procs : Rewrites(p) => job[p].command # "ChangePasswordPro"
  PROVE  NamedByHeader'
<1>1. TypeOK
  BY DEF IInv
<1>2. CASE UNCHANGED drive
  BY <1>2 DEF NamedByHeader, drive
<1>3. ASSUME NEW p \in Procs, Stamps(p)
      PROVE  NamedByHeader'
  <2>1. data' = [s \in Sectors |-> Plaintext]
    BY <1>3 DEF KInv, Untouched, Stamps
  <2>2. \A s \in Sectors : KeysOf(data'[s]) = {}
    BY <2>1 DEF KeysOf, Plaintext
  <2>. QED BY <2>2 DEF NamedByHeader
<1>4. ASSUME NEW p \in Procs, Rewrites(p)
      PROVE  NamedByHeader'
  <2>. DEFINE j == job[p]  h == Decode(sector0)
  <2>1. /\ j \in Jobs /\ j.sectorNum \in Sectors /\ j.buf = data[j.sectorNum]
        /\ j.buf \in Contents
    BY <1>1, <1>4, WritePlace DEF Rewrites, TypeOK
  <2>2. KeysNamed(j, h) /\ (j.command # "EncryptWithHidden" => j.pass = 1)
    BY <1>4 DEF Rewrites, IInv, LoopInv, InLoop, KInv, SinglePass
  <2>3. j.sectorNum \in Nat
    BY <2>1 DEF Sectors
  <2>4. KeysOf(Transform(j, j.buf, j.sectorNum))
          \subseteq KeysOf(j.buf) \union {h.hashedKey, h.hashedHiddenKey}
    BY <1>4, <2>1, <2>2, <2>3, TransformKeys
  <2>5. \A s \in Sectors : KeysOf(data[s]) \subseteq {h.hashedKey, h.hashedHiddenKey}
    BY DEF NamedByHeader
  <2>6. /\ sector0' = sector0
        /\ \A s \in Sectors : data'[s] = IF s = j.sectorNum THEN Transform(j, j.buf, j.sectorNum) ELSE data[s]
    BY <1>1, <1>4, <2>1 DEF Rewrites, TypeOK
  <2>. HIDE DEF j, h
  <2>7. \A s \in Sectors : KeysOf(data'[s]) \subseteq {h.hashedKey, h.hashedHiddenKey}
    BY <2>1, <2>4, <2>5, <2>6
  <2>. QED BY <2>6, <2>7 DEF NamedByHeader, h
<1>. QED BY <1>1, <1>2, <1>3, <1>4, DriveSteps

(* Where opens are exclusive, whatever is killed or fails, a sector leaves *)
(* the reach of the passwords only when a header is written over another   *)
(* one or change-password-pro is at work. (EncryptPro, EncryptWithHidden,  *)
(* ChangePasswordPro: writeHeader before the loops; DecryptPro.)           *)
THEOREM KeysLostOnlyByRekeying == ExclusiveOpen => (Spec => OnlyRekeyingLosesKeys)
<1>. SUFFICES ASSUME ExclusiveOpen PROVE Spec => OnlyRekeyingLosesKeys
  OBVIOUS
<1>. DEFINE Lost ==
       NamedByHeader /\ ~NamedByHeader' =>
         \E p \in Procs :
           /\ pc[p] # pc'[p]
           /\ \/ pc[p] = "stamp" /\ CheckStatus(sector0)
              \/ job[p].command = "ChangePasswordPro"
<1>1. ASSUME IInv, KInv, [Next]_vars
      PROVE  [Lost]_vars
  <2>. SUFFICES ASSUME NamedByHeader, ~NamedByHeader'
                PROVE  \E p \in Procs :
                         /\ pc[p] # pc'[p]
                         /\ \/ pc[p] = "stamp" /\ CheckStatus(sector0)
                            \/ job[p].command = "ChangePasswordPro"
    OBVIOUS
  <2>1. \E p \in Procs : \/ Stamps(p) /\ Decode(sector0).magic
                         \/ Rewrites(p) /\ job[p].command = "ChangePasswordPro"
    BY <1>1, NamedStep
  <2>. QED BY <2>1 DEF Stamps, Rewrites, CheckStatus
<1>2. IInv /\ KInv /\ [Next]_vars => [Lost]_vars
  BY <1>1
<1>3. (Spec => []IInv) /\ (Spec => []KInv)
  BY Inductive, KInvInductive
<1>. QED BY <1>2, <1>3, PTL DEF Spec, OnlyRekeyingLosesKeys

-----------------------------------------------------------------------------
(* encrypt-pro and decrypt-pro by themselves.                              *)
(*                                                                         *)
(* Only with these two commands, and with a sector 0 that can be read,     *)
(* does a drive keep the first header written to it. The invariant says so *)
(* at the one place where it could be lost: a command about to write a     *)
(* header has seen that there is none. The data are then still the         *)
(* user's, so the loop of encrypt-pro encrypts plaintext.                  *)

OnlySealAndOpen ==
  Commands \subseteq {"EncryptPro", "DecryptPro"} /\ "readHeader" \notin FaultKinds

EncryptedOnce(contents) ==
  \A i, k \in DOMAIN contents :
    contents[i].op = "Encrypt" /\ contents[k].op = "Encrypt" => i = k

OnlyThem(p) ==
  /\ pc[p] # "idle" => job[p].command \in {"EncryptPro", "DecryptPro"}
  /\ pc[p] = "stamp" => ~Decode(sector0).magic
  /\ InLoop(p) /\ job[p].command = "EncryptPro" => base = [s \in Sectors |-> Plaintext]

SealInv ==
  /\ NamedByHeader
  /\ \A p \in Procs : OnlyThem(p)
  /\ \A s \in Sectors : EncryptedOnce(data[s])

(* encrypt-pro arrives at its header only from its look at sector 0.       *)
LEMMA StampSteps ==
  ASSUME IInv, [Next]_vars, NEW q \in Procs, pc'[q] = "stamp", job'[q].command = "EncryptPro",
         "readHeader" \notin FaultKinds
  PROVE  UNCHANGED drive /\ (pc[q] = "stamp" \/ ~Decode(sector0).magic)
<1>1. TypeOK
  BY DEF IInv
<1>2. UNCHANGED drive
  <2>1. ASSUME NEW p \in Procs, pc[p] # "idle", pc'[p] = "read" PROVE FALSE
    BY <2>1, <1>1, JobSteps, Alone DEF Starts, Continues
  <2>. QED BY <1>1, <2>1, DriveSteps DEF Stamps, Rewrites
<1>3. ASSUME pc[q] # "stamp" PROVE ~Decode(sector0).magic
  <2>1. Starts(q) \/ Continues(q)
    BY <1>1, JobSteps
  <2>2. pc[q] # "idle" /\ job[q].command = "EncryptPro"
    BY <2>1 DEF Starts, Continues
  <2>3. Proceed(q) \/ Kill(q)
    BY <1>1, <1>3, <2>2, OwnStep
  <2>4. ~Authenticate(q)
    BY <2>2 DEF Authenticate
  <2>5. CheckNotEncrypted(q)
    BY <1>1, <2>3, <2>4
       DEF Proceed, Kill, WriteHeader, ReadSector, LeaveLoop, WriteSector, Return, Goto, TypeOK
  <2>. QED BY <2>5 DEF CheckNotEncrypted, Return, Goto, Fault, IInv, TypeOK
<1>. QED BY <1>2, <1>3

(* The loop of encrypt-pro begins at its header and keeps the start of its *)
(* pass.                                                                   *)
LEMMA LoopSteps ==
  ASSUME IInv, [Next]_vars, NEW q \in Procs, InLoop(q)', job'[q].command = "EncryptPro"
  PROVE  base' = base /\ (InLoop(q) \/ Stamps(q))
<1>1. TypeOK
  BY DEF IInv
<1>2. pc[q] # "idle" /\ job[q].command = "EncryptPro"
  BY <1>1, JobSteps DEF Starts, Continues, InLoop
<1>3. \A p \in Procs \ {q} : pc[p] = "idle"
  BY <1>2, Alone
<1>4. ASSUME NEW p \in Procs, NEW result, Return(p, result), pc[p] # "idle" PROVE FALSE
  BY <1>1, <1>3, <1>4 DEF Return, Goto, TypeOK, InLoop
<1>5. ASSUME NEW p \in Procs, NEW password \in Passwords, NEW other \in Passwords,
             \/ StartEncryptPro(p, password) \/ StartDecryptPro(p, password)
             \/ StartChangePasswordPro(p, password, other)
             \/ StartEncryptWithHidden(p, password, other)
      PROVE  base' = base
  BY <1>5 DEF StartEncryptPro, StartDecryptPro, StartChangePasswordPro,
       StartEncryptWithHidden, Start, history
<1>6. ASSUME NEW p \in Procs, Proceed(p) \/ Kill(p)
      PROVE  base' = base
  <2>1. p = q
    BY <1>3, <1>6 DEF Proceed, Kill, CheckNotEncrypted, Authenticate, WriteHeader, ReadSector,
       LeaveLoop, WriteSector
  <2>. QED
    BY <1>2, <1>4, <1>6, <2>1 DEF Proceed, Kill, CheckNotEncrypted, Authenticate, WriteHeader,
       ReadSector, LeaveLoop, WriteSector, history
<1>7. base' = base
  BY <1>5, <1>6 DEF Next, vars, history
<1>8. ASSUME ~InLoop(q)
      PROVE  Stamps(q)
  <2>1. pc[q] \in {"opened", "stamp"} /\ pc'[q] \in {"read", "write"}
    BY <1>1, <1>2, <1>8 DEF InLoop, TypeOK, Locations
  <2>2. Proceed(q) \/ Kill(q)
    BY <1>1, <1>2, <2>1, OwnStep
  <2>3. ~Kill(q)
    BY <1>2, <1>4 DEF Kill
  <2>4. ~Authenticate(q) /\ ~CheckNotEncrypted(q)
    BY <1>1, <1>2, <1>4, <2>1 DEF Authenticate, CheckNotEncrypted, Goto, TypeOK
  <2>5. WriteHeader(q)
    BY <2>1, <2>2, <2>3, <2>4 DEF Proceed, ReadSector, LeaveLoop, WriteSector
  <2>. QED BY <1>1, <1>2, <1>4, <2>5 DEF WriteHeader, Stamps, Goto, TypeOK, history
<1>. QED BY <1>7, <1>8

(* A decryption adds no Encrypt layer, an encryption of plaintext is one.  *)
LEMMA DecryptOnce ==
  ASSUME NEW contents \in Contents, NEW key \in Keys, NEW sectorNum \in Nat,
         EncryptedOnce(contents)
  PROVE  EncryptedOnce(Decrypt(contents, key, sectorNum))
<1>. DEFINE layer == Layer("Decrypt", key, sectorNum)
            result == Decrypt(contents, key, sectorNum)
<1>1. layer \in Layers /\ layer.op # "Encrypt"
  BY DEF Layer, Layers
<1>2. result \in Contents
  BY CipherType
<1>. HIDE DEF layer, result
<1>3. /\ Len(contents) \in Nat /\ DOMAIN contents = 1 .. Len(contents)
      /\ Len(result) \in Nat /\ DOMAIN result = 1 .. Len(result)
  BY <1>2 DEF Contents
<1>4. \/ /\ Len(result) = Len(contents) - 1
         /\ \A i \in 1 .. (Len(contents) - 1) : result[i] = contents[i]
      \/ /\ Len(result) = Len(contents) + 1
         /\ result[Len(contents) + 1] = layer
         /\ \A i \in 1 .. Len(contents) : result[i] = contents[i]
  BY <1>1, ApplyLayers DEF Decrypt, layer, result
<1>5. \A i \in DOMAIN result : result[i].op = "Encrypt" => i \in DOMAIN contents /\ result[i] = contents[i]
  <2>. SUFFICES ASSUME NEW i \in DOMAIN result, result[i].op = "Encrypt"
                PROVE  i \in DOMAIN contents /\ result[i] = contents[i]
    OBVIOUS
  <2>1. i \in 1 .. Len(result)
    BY <1>3
  <2>2. i \in 1 .. Len(contents) \/ result[i] = layer
    <3>1. CASE Len(result) = Len(contents) - 1
      BY <1>3, <2>1, <3>1
    <3>2. CASE Len(result) = Len(contents) + 1 /\ result[Len(contents) + 1] = layer
      <4>1. i \in 1 .. Len(contents) \/ i = Len(contents) + 1
        BY <1>3, <2>1, <3>2
      <4>. QED BY <3>2, <4>1
    <3>. QED BY <1>4, <3>1, <3>2
  <2>3. i \in 1 .. Len(contents)
    BY <1>1, <2>2
  <2>. QED BY <1>3, <1>4, <2>1, <2>3
<1>6. EncryptedOnce(result)
  BY <1>5 DEF EncryptedOnce
<1>. QED BY <1>6 DEF result

LEMMA EncryptPlaintext ==
  ASSUME NEW key, NEW sectorNum
  PROVE  Encrypt(Plaintext, key, sectorNum) = <<Layer("Encrypt", key, sectorNum)>>
BY DEF Encrypt, Apply, Plaintext

LEMMA SealInvStep ==
  ASSUME IInv, IInv', KInv, OnlySealAndOpen, SealInv, [Next]_vars
  PROVE  SealInv'
<1>1. TypeOK
  BY DEF IInv
<1>2. ASSUME NEW q \in Procs
      PROVE  OnlyThem(q)'
  <2>1. pc'[q] # "idle" => job'[q].command \in {"EncryptPro", "DecryptPro"}
    BY <1>1, JobSteps DEF Starts, Continues, SealInv, OnlyThem, OnlySealAndOpen
  <2>2. pc'[q] = "stamp" => ~Decode(sector0').magic
    <3>. SUFFICES ASSUME pc'[q] = "stamp" PROVE ~Decode(sector0').magic
      OBVIOUS
    <3>1. job'[q].command = "EncryptPro"
      BY <2>1 DEF IInv, LoopInv, Placed
    <3>. QED BY <3>1, StampSteps DEF OnlySealAndOpen, SealInv, OnlyThem, drive
  <2>3. ASSUME InLoop(q)', job'[q].command = "EncryptPro"
        PROVE  base' = [s \in Sectors |-> Plaintext]
    <3>1. base' = base /\ (InLoop(q) \/ Stamps(q))
      BY <2>3, LoopSteps
    <3>2. CASE InLoop(q)
      BY <1>1, <2>3, <3>1, <3>2, JobSteps DEF Starts, Continues, InLoop, SealInv, OnlyThem
    <3>3. CASE Stamps(q)
      BY <3>1, <3>3 DEF Stamps, SealInv, OnlyThem, KInv, Untouched, IInv, LoopInv, TransformedOnce
    <3>. QED BY <3>1, <3>2, <3>3
  <2>. QED BY <2>1, <2>2, <2>3 DEF OnlyThem
<1>3. NamedByHeader'
  <2>1. \A p \in Procs : Stamps(p) => ~Decode(sector0).magic
    BY DEF SealInv, OnlyThem, Stamps
  <2>2. \A p \in Procs : Rewrites(p) => job[p].command # "ChangePasswordPro"
    BY DEF SealInv, OnlyThem, Rewrites
  <2>. QED BY <2>1, <2>2, NamedStep DEF SealInv
<1>4. \A s \in Sectors : EncryptedOnce(data'[s])
  <2>1. CASE data' = data
    BY <2>1 DEF SealInv
  <2>2. ASSUME NEW p \in Procs, Rewrites(p), NEW s \in Sectors
        PROVE  EncryptedOnce(data'[s])
    <3>. DEFINE j == job[p]
    <3>1. /\ j \in Jobs /\ j.sectorNum \in Sectors /\ j.buf = data[j.sectorNum]
          /\ j.buf \in Contents /\ j.sectorNum \in Nat /\ j.key \in Keys
          /\ InStep(j)
      BY <1>1, <2>2, WritePlace
         DEF Rewrites, IInv, LoopInv, TypeOK, Sectors, Jobs, Placed, InLoop
    <3>2. data'[s] = IF s = j.sectorNum THEN Transform(j, j.buf, j.sectorNum) ELSE data[s]
      BY <1>1, <2>2, <3>1 DEF Rewrites, TypeOK
    <3>3. CASE j.command = "DecryptPro"
      <4>1. Transform(j, j.buf, j.sectorNum) = Decrypt(j.buf, j.key, j.sectorNum)
        BY <3>3 DEF Transform
      <4>2. EncryptedOnce(j.buf)
        BY <3>1 DEF SealInv
      <4>. QED BY <3>1, <3>2, <4>1, <4>2, DecryptOnce DEF SealInv
    <3>4. CASE j.command = "EncryptPro"
      <4>1. j.pass = 1 /\ base = [t \in Sectors |-> Plaintext]
        BY <2>2, <3>4 DEF Rewrites, KInv, SinglePass, SealInv, OnlyThem, InLoop
      <4>2. j.sectorNum \notin Processed(j)
        BY <3>1, PlaceOfStep DEF InStep
      <4>3. j.buf = Plaintext
        BY <2>2, <3>1, <4>1, <4>2 DEF Rewrites, IInv, LoopInv, TransformedOnce, InLoop
      <4>4. Transform(j, j.buf, j.sectorNum) = <<Layer("Encrypt", j.key, j.sectorNum)>>
        BY <3>4, <4>1, <4>3, EncryptPlaintext DEF Transform
      <4>5. EncryptedOnce(<<Layer("Encrypt", j.key, j.sectorNum)>>)
        BY DEF EncryptedOnce
      <4>. QED BY <3>2, <4>4, <4>5 DEF SealInv
    <3>. QED BY <2>2, <3>3, <3>4 DEF Rewrites, SealInv, OnlyThem
  <2>. QED BY <1>1, <2>1, <2>2, DriveSteps DEF Stamps, drive
<1>. QED BY <1>2, <1>3, <1>4 DEF SealInv

LEMMA SealInductive == ExclusiveOpen /\ OnlySealAndOpen => (Spec => []SealInv)
<1>. SUFFICES ASSUME ExclusiveOpen, OnlySealAndOpen PROVE Spec => []SealInv
  OBVIOUS
<1>1. Init => SealInv
  BY DEF Init, SealInv, NamedByHeader, KeysOf, Plaintext, OnlyThem, InLoop, EncryptedOnce
<1>2. IInv /\ IInv' /\ KInv /\ SealInv /\ [Next]_vars => SealInv'
  BY SealInvStep
<1>3. (Spec => []IInv) /\ (Spec => []KInv)
  BY Inductive, KInvInductive
<1>. QED BY <1>1, <1>2, <1>3, PTL DEF Spec

(* Where opens are exclusive and sector 0 can be read, encrypt-pro and     *)
(* decrypt-pro, in any order, killed or failing anywhere, leave every      *)
(* sector decipherable with a key that the header names. (writeHeader      *)
(* before encryptData; decryptData.)                                       *)
THEOREM SealedDriveRecoverable ==
  ExclusiveOpen /\ OnlySealAndOpen => (Spec => []Recoverable)
<1>1. SealInv => Recoverable
  BY DEF SealInv, NamedByHeader, Recoverable, KnownKeys
<1>. QED BY <1>1, SealInductive, PTL

LEMMA SealedOnce == SealInv => NoDoubleEncryption
<1>1. ASSUME NEW contents, EncryptedOnce(contents)
      PROVE  Cardinality({i \in DOMAIN contents : contents[i].op = "Encrypt"}) <= 1
  <2>. DEFINE E == {i \in DOMAIN contents : contents[i].op = "Encrypt"}
  <2>1. ASSUME E = {} PROVE Cardinality(E) <= 1
    BY <2>1, FS_EmptySet
  <2>2. ASSUME E # {} PROVE Cardinality(E) <= 1
    <3>1. PICK i \in E : TRUE
      BY <2>2
    <3>2. E = {i}
      BY <1>1, <3>1 DEF EncryptedOnce
    <3>3. Cardinality({i}) = 1
      BY FS_Singleton
    <3>. HIDE DEF E
    <3>. QED BY <3>2, <3>3
  <2>3. Cardinality(E) <= 1
    BY <2>1, <2>2
  <2>. QED BY <2>3
<1>. QED BY <1>1 DEF SealInv, NoDoubleEncryption

(* Under the same conditions no sector is ever encrypted twice. (drive.go: *)
(* 121, "Check if already encrypted with the custom header".)              *)
THEOREM NeverEncryptedTwice ==
  ExclusiveOpen /\ OnlySealAndOpen => (Spec => []NoDoubleEncryption)
BY SealedOnce, SealInductive, PTL

=============================================================================
