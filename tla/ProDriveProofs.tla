--------------------------- MODULE ProDriveProofs ---------------------------
(***************************************************************************)
(* Proofs about ProDrive, for every number of processes, passwords and     *)
(* sectors, every place of the hidden region, every set of commands and    *)
(* faults and every bound.                                                 *)
(***************************************************************************)
EXTENDS ProDrive, TLAPS

USE DriveAssumption, NoPasswordAssumption

-----------------------------------------------------------------------------
(* The cipher and the header.                                              *)

LEMMA KeyType ==
  /\ \A password \in Passwords, salt \in Nat : DeriveKey(password, salt) \in Keys
  /\ ZeroKey \in Keys
BY DEF DeriveKey, Keys, ZeroKey, ZeroSalt

LEMMA ApplyType ==
  ASSUME NEW layer \in Layers, NEW inverse, NEW contents \in Contents
  PROVE  Apply(layer, inverse, contents) \in Contents
<1>1. CASE contents # <<>>
  <2>1. Front(contents) \in Contents
    BY <1>1 DEF Front, Contents
  <2>. QED BY <2>1 DEF Apply, Contents
<1>2. CASE contents = <<>>
  BY <1>2 DEF Apply, Contents
<1>. QED BY <1>1, <1>2

LEMMA CipherType ==
  ASSUME NEW contents \in Contents, NEW key \in Keys, NEW sectorNum \in Nat
  PROVE  /\ Encrypt(contents, key, sectorNum) \in Contents
         /\ Decrypt(contents, key, sectorNum) \in Contents
<1>1. /\ Layer("Encrypt", key, sectorNum) \in Layers
      /\ Layer("Decrypt", key, sectorNum) \in Layers
  BY DEF Layer, Layers
<1>. QED BY <1>1, ApplyType DEF Encrypt, Decrypt

LEMMA HeaderTypes ==
  /\ PartitionTable \in RawSector
  /\ \A raw \in RawSector : Decode(raw) \in Header
  /\ \A h \in Header : Encode(h) \in RawSector
  /\ \A password \in Passwords, salt \in Nat : createHeader(password, salt) \in Header
  /\ \A password, hiddenPassword \in Passwords, salt, hiddenSalt \in Nat :
       createHeaderWithHidden(password, salt, hiddenPassword, hiddenSalt) \in Header
<1>1. ZeroSalt \in Nat
  BY DEF ZeroSalt
<1>. QED
  BY <1>1, KeyType
     DEF PartitionTable, RawSector, Header, Encode, Decode, createHeader, createHeaderWithHidden

(* What a command writes in sector 0 is what the next one reads: both      *)
(* kinds of header survive Encode and Decode. (header.go:35-74.)           *)
LEMMA HeaderRoundTrip ==
  ASSUME NEW password, NEW salt, NEW hiddenPassword, NEW hiddenSalt
  PROVE  /\ LET h == createHeader(password, salt) IN Decode(Encode(h)) = h
         /\ LET h == createHeaderWithHidden(password, salt, hiddenPassword, hiddenSalt)
            IN  Decode(Encode(h)) = h
<1>1. LET h == createHeader(password, salt) IN Decode(Encode(h)) = h
  <2>. DEFINE h == createHeader(password, salt)
              raw == [magic |-> TRUE, salt |-> salt, hashedKey |-> DeriveKey(password, salt),
                      flags |-> 0, hiddenSalt |-> ZeroSalt, hashedHiddenKey |-> ZeroKey]
  <2>1. Encode(h) = raw
    BY DEF Encode, createHeader
  <2>2. (0 = 1) = FALSE
    OBVIOUS
  <2>3. Decode(raw) = h
    BY <2>2 DEF Decode, createHeader
  <2>. QED BY <2>1, <2>3
<1>2. LET h == createHeaderWithHidden(password, salt, hiddenPassword, hiddenSalt)
      IN  Decode(Encode(h)) = h
  <2>. DEFINE h == createHeaderWithHidden(password, salt, hiddenPassword, hiddenSalt)
              raw == [magic |-> TRUE, salt |-> salt, hashedKey |-> DeriveKey(password, salt),
                      flags |-> 1, hiddenSalt |-> hiddenSalt,
                      hashedHiddenKey |-> DeriveKey(hiddenPassword, hiddenSalt)]
  <2>1. Encode(h) = raw
    BY DEF Encode, createHeaderWithHidden
  <2>2. Decode(raw) = h
    BY DEF Decode, createHeaderWithHidden
  <2>. QED BY <2>1, <2>2
<1>. QED BY <1>1, <1>2

(* deriveKeyFromPassword with the check its callers make: the only key     *)
(* that gets through is the one the header's primary hash names.           *)
LEMMA AcceptedKeyIsPrimary ==
  ASSUME NEW h, NEW password, NEW key \in AcceptedKeys(password, h)
  PROVE  h.magic /\ key = h.hashedKey
BY DEF AcceptedKeys, deriveKeyFromPassword, verifyKey

-----------------------------------------------------------------------------
(* Type correctness.                                                       *)

LEMMA JobType ==
  ASSUME TypeOK, NEW p \in Procs, pc[p] # "idle"
  PROVE  job[p] \in Jobs
BY DEF TypeOK

LEMMA TransformType ==
  ASSUME NEW j \in Jobs, NEW contents \in Contents, NEW sectorNum \in Nat
  PROVE  Transform(j, contents, sectorNum) \in Contents
<1>1. j.key \in Keys /\ j.otherKey \in Keys
  BY DEF Jobs
<1>2. Decrypt(contents, j.key, sectorNum) \in Contents
  BY <1>1, CipherType
<1>3. Encrypt(Decrypt(contents, j.key, sectorNum), j.otherKey, sectorNum) \in Contents
  BY <1>1, <1>2, CipherType
<1>4. /\ Encrypt(contents, j.key, sectorNum) \in Contents
      /\ Encrypt(contents, j.otherKey, sectorNum) \in Contents
  BY <1>1, CipherType
<1>. QED BY <1>2, <1>3, <1>4 DEF Transform

LEMMA NewHeaderType ==
  ASSUME TypeOK, NEW j \in Jobs
  PROVE  /\ NewHeader(j) \in Header
         /\ LoopKeys(j, NewHeader(j)) \in Jobs
<1>1. /\ j.password \in Passwords /\ j.other \in Passwords
      /\ nextSalt \in Nat /\ nextSalt + 1 \in Nat
  BY DEF TypeOK, Jobs
<1>2. NewHeader(j) \in Header
  BY <1>1, HeaderTypes DEF NewHeader
<1>3. /\ DeriveKey(j.password, NewHeader(j).salt) \in Keys
      /\ DeriveKey(j.other, NewHeader(j).salt) \in Keys
      /\ DeriveKey(j.other, NewHeader(j).hiddenSalt) \in Keys
  BY <1>1, <1>2, KeyType DEF Header
<1>4. LoopKeys(j, NewHeader(j)) \in Jobs
  BY <1>3 DEF LoopKeys, Jobs
<1>. QED BY <1>2, <1>4

(* Where the loops go next.                                                *)
SameCommand(k, j) ==
  /\ k.command = j.command /\ k.password = j.password /\ k.other = j.other
  /\ k.key = j.key /\ k.otherKey = j.otherKey /\ k.buf = j.buf

LEMMA AdvancePlace ==
  ASSUME NEW j \in Jobs
  PROVE  /\ Advance(j) \in Jobs /\ Advance(j) # NoJob
         /\ SameCommand(Advance(j), j)
         /\ Advance(j).pass = j.pass
         /\ Advance(j).sectorNum = j.sectorNum + 1
         /\ Advance(j).offset = j.offset + SectorSize
<1>. DEFINE n == j.sectorNum + 1
            o == j.offset + SectorSize
<1>1. Advance(j) = [j EXCEPT !.sectorNum = n, !.offset = o]
  BY DEF Advance
<1>2. n \in Nat /\ o \in Nat
  BY DEF Jobs, SectorSize
<1>. HIDE DEF n, o
<1>3. Advance(j) \in Jobs
  BY <1>1, <1>2 DEF Jobs
<1>4. /\ SameCommand(Advance(j), j)
      /\ Advance(j).pass = j.pass /\ Advance(j).sectorNum = n /\ Advance(j).offset = o
  BY <1>1 DEF Jobs, SameCommand
<1>5. Advance(j) # NoJob
  BY <1>3 DEF Jobs, NoJob, AllCommands
<1>. QED BY <1>3, <1>4, <1>5 DEF n, o

LEMMA SecondPassPlace ==
  ASSUME NEW j \in Jobs
  PROVE  /\ SecondPass(j) \in Jobs /\ SecondPass(j) # NoJob
         /\ SameCommand(SecondPass(j), j)
         /\ SecondPass(j).pass = 2
         /\ SecondPass(j).sectorNum = HiddenStart
         /\ SecondPass(j).offset = HiddenOffset
<1>1. HiddenOffset \in Nat
  BY HiddenAssumption DEF SectorSize
<1>2. SecondPass(j) \in Jobs
  BY <1>1 DEF Jobs, SecondPass
<1>3. SecondPass(j) # NoJob
  BY <1>2 DEF Jobs, NoJob, AllCommands
<1>. QED BY <1>2, <1>3 DEF Jobs, SecondPass, SameCommand

LEMMA ReturnType ==
  ASSUME TypeOK, NEW p \in Procs, pc[p] # "idle", NEW result \in {"ok", "error", "killed"},
         Return(p, result), sector0' \in RawSector, data' \in [Sectors -> Contents],
         issued' \in 0 .. MaxCommands, nextSalt' \in Nat \ {0}, faults' \in 0 .. MaxFaults
  PROVE  TypeOK'
<1>1. LastSuccess(p, result) \in CommandsRun
  <2>1. job[p] \in Jobs
    BY JobType
  <2>2. committed.last \in CommandsRun
    BY DEF TypeOK
  <2>. QED BY <2>1, <2>2 DEF LastSuccess, CommandsRun, Jobs
<1>2. committed' \in [sector0 : RawSector, data : [Sectors -> Contents], last : CommandsRun]
  BY <1>1 DEF Return
<1>. QED BY <1>2 DEF TypeOK, Return, Goto, Locations

LEMMA FaultType ==
  ASSUME TypeOK, NEW kind, Fault(kind)
  PROVE  faults' \in 0 .. MaxFaults
BY DEF TypeOK, Fault

LEMMA SaltType ==
  ASSUME TypeOK, nextSalt' = nextSalt + 2
  PROVE  nextSalt' \in Nat \ {0}
BY DEF TypeOK

LEMMA InitType == Init => TypeOK
<1>. SUFFICES ASSUME Init PROVE TypeOK
  OBVIOUS
<1>1. sector0 \in RawSector
  BY HeaderTypes DEF Init
<1>2. data \in [Sectors -> Contents]
  BY DEF Init, Plaintext, Contents
<1>3. committed \in [sector0 : RawSector, data : [Sectors -> Contents], last : CommandsRun]
  BY <1>1, <1>2 DEF Init, NoCommand, CommandsRun
<1>. QED BY <1>1, <1>2, <1>3 DEF Init, TypeOK, Locations

LEMMA StartType ==
  ASSUME TypeOK, NEW p \in Procs, NEW command \in AllCommands,
         NEW password \in Passwords, NEW other \in Passwords, NEW to \in {"opened", "stamp"},
         Start(p, command, password, other, to)
  PROVE  TypeOK'
<1>1. /\ issued' \in 0 .. MaxCommands
      /\ UNCHANGED <<sector0, data, nextSalt, faults, base, committed>>
  BY DEF Start, TypeOK, drive, history
<1>2. CASE UNCHANGED <<handles, pc, job>>
  <2>1. outcome' \in [Procs -> {"none", "ok", "error", "killed"}]
    BY DEF Start, TypeOK
  <2>. QED BY <1>1, <1>2, <2>1 DEF TypeOK
<1>3. CASE ~UNCHANGED <<handles, pc, job>>
  <2>. DEFINE j == [command |-> command, password |-> password, other |-> other,
                    key |-> ZeroKey, otherKey |-> ZeroKey, pass |-> 1, sectorNum |-> 1,
                    offset |-> SectorSize, buf |-> Plaintext]
  <2>1. /\ handles' = handles \union {p}
        /\ pc' = [pc EXCEPT ![p] = to]
        /\ job' = [job EXCEPT ![p] = j]
        /\ outcome' = [outcome EXCEPT ![p] = "none"]
    BY <1>3 DEF Start, Goto
  <2>2. j \in Jobs /\ j # NoJob
    <3>1. Plaintext \in Contents
      BY DEF Plaintext, Contents
    <3>. QED BY <3>1, KeyType DEF Jobs, NoJob, AllCommands, SectorSize
  <2>. HIDE DEF j
  <2>. QED BY <1>1, <2>1, <2>2 DEF TypeOK, Locations
<1>. QED BY <1>2, <1>3

LEMMA CheckNotEncryptedType ==
  ASSUME TypeOK, NEW p \in Procs, CheckNotEncrypted(p)
  PROVE  TypeOK'
<1>1. /\ faults' \in 0 .. MaxFaults
      /\ UNCHANGED <<sector0, data, issued, nextSalt>>
  BY FaultType DEF CheckNotEncrypted, drive, TypeOK
<1>2. CASE Return(p, "error")
  BY <1>1, <1>2, ReturnType DEF TypeOK, CheckNotEncrypted
<1>3. CASE Goto(p, "stamp") /\ UNCHANGED <<job, outcome, handles, history>>
  BY <1>1, <1>3 DEF CheckNotEncrypted, Goto, TypeOK, history, Locations
<1>. QED BY <1>2, <1>3 DEF CheckNotEncrypted

LEMMA AuthenticateType ==
  ASSUME TypeOK, NEW p \in Procs, Authenticate(p)
  PROVE  TypeOK'
<1>1. UNCHANGED <<sector0, data, issued, nextSalt>> /\ pc[p] = "opened"
  BY DEF Authenticate, drive
<1>2. CASE Return(p, "error")
  <2>1. faults' \in 0 .. MaxFaults
    BY FaultType DEF Authenticate, TypeOK
  <2>. QED BY <1>1, <1>2, <2>1, ReturnType DEF TypeOK
<1>3. ASSUME NEW key \in AcceptedKeys(job[p].password, Decode(sector0)),
             job' = [job EXCEPT ![p].key = key],
             Goto(p, IF job[p].command = "DecryptPro" THEN "read" ELSE "stamp"),
             UNCHANGED <<outcome, handles, faults, history>>
      PROVE  TypeOK'
  <2>1. key \in Keys
    BY AcceptedKeyIsPrimary, HeaderTypes DEF TypeOK, Header
  <2>2. job[p] \in Jobs
    BY <1>1, JobType
  <2>3. [job[p] EXCEPT !.key = key] \in Jobs /\ [job[p] EXCEPT !.key = key] # NoJob
    BY <2>1, <2>2 DEF Jobs, NoJob, AllCommands
  <2>4. job' \in [Procs -> Jobs \union {NoJob}]
    BY <1>3, <2>3 DEF TypeOK
  <2>5. pc' \in [Procs -> Locations] /\ pc'[p] # "idle" /\ \A q \in Procs \ {p} : pc'[q] = pc[q]
    BY <1>3 DEF TypeOK, Goto, Locations
  <2>6. \A q \in Procs : job'[q] = NoJob <=> pc'[q] = "idle"
    BY <1>3, <2>3, <2>5 DEF TypeOK
  <2>. QED BY <1>1, <1>3, <2>4, <2>5, <2>6 DEF TypeOK, history
<1>. QED BY <1>2, <1>3 DEF Authenticate

LEMMA WriteHeaderType ==
  ASSUME TypeOK, NEW p \in Procs, WriteHeader(p)
  PROVE  TypeOK'
<1>1. /\ nextSalt' \in Nat \ {0}
      /\ UNCHANGED issued
      /\ pc[p] = "stamp"
  BY SaltType DEF WriteHeader
<1>2. CASE Fault("write") /\ UNCHANGED drive /\ Return(p, "error")
  BY <1>1, <1>2, FaultType, ReturnType DEF TypeOK, drive
<1>3. CASE /\ sector0' = Encode(NewHeader(job[p]))
           /\ job' = [job EXCEPT ![p] = LoopKeys(job[p], NewHeader(job[p]))]
           /\ Goto(p, "read")
           /\ UNCHANGED <<outcome, handles, faults, history, data>>
  <2>1. /\ NewHeader(job[p]) \in Header
        /\ LoopKeys(job[p], NewHeader(job[p])) \in Jobs
    BY <1>1, JobType, NewHeaderType
  <2>2. sector0' \in RawSector
    BY <1>3, <2>1, HeaderTypes
  <2>3. LoopKeys(job[p], NewHeader(job[p])) # NoJob
    BY <2>1 DEF Jobs, NoJob, AllCommands
  <2>. QED BY <1>1, <1>3, <2>1, <2>2, <2>3 DEF TypeOK, Goto, Locations, history
<1>. QED BY <1>2, <1>3 DEF WriteHeader

LEMMA ReadSectorType ==
  ASSUME TypeOK, NEW p \in Procs, ReadSector(p)
  PROVE  TypeOK'
<1>1. PICK t \in At(job[p].offset) : job' = [job EXCEPT ![p].buf = data[t]]
  BY DEF ReadSector
<1>2. job[p] \in Jobs /\ data[t] \in Contents
  BY JobType DEF ReadSector, TypeOK, At
<1>3. [job[p] EXCEPT !.buf = data[t]] \in Jobs /\ [job[p] EXCEPT !.buf = data[t]] # NoJob
  BY <1>2 DEF Jobs, NoJob, AllCommands
<1>4. job' = [job EXCEPT ![p] = [job[p] EXCEPT !.buf = data[t]]]
  BY <1>1
<1>. QED BY <1>3, <1>4 DEF ReadSector, Goto, TypeOK, Locations, drive, env, history

LEMMA LeaveLoopType ==
  ASSUME TypeOK, NEW p \in Procs, LeaveLoop(p)
  PROVE  TypeOK'
<1>1. /\ faults' \in 0 .. MaxFaults
      /\ UNCHANGED <<sector0, data, issued, nextSalt>>
  BY FaultType DEF LeaveLoop, drive, TypeOK
<1>2. CASE Return(p, "ok")
  BY <1>1, <1>2, ReturnType DEF TypeOK, LeaveLoop
<1>3. CASE /\ job' = [job EXCEPT ![p] = SecondPass(job[p])]
           /\ base' = data
           /\ UNCHANGED <<pc, outcome, handles, committed>>
  <2>. DEFINE j == SecondPass(job[p])
  <2>1. job[p] \in Jobs
    BY JobType DEF LeaveLoop
  <2>2. j \in Jobs /\ j # NoJob
    BY <2>1, SecondPassPlace
  <2>3. job' = [job EXCEPT ![p] = j]
    BY <1>3
  <2>. HIDE DEF j
  <2>4. pc[p] # "idle"
    BY DEF LeaveLoop
  <2>5. job' \in [Procs -> Jobs \union {NoJob}]
    BY <2>2, <2>3 DEF TypeOK
  <2>6. \A q \in Procs : job'[q] = NoJob <=> pc'[q] = "idle"
    BY <1>3, <2>2, <2>3, <2>4 DEF TypeOK
  <2>7. base' \in [Sectors -> Contents]
    BY <1>3 DEF TypeOK
  <2>. QED BY <1>1, <1>3, <2>5, <2>6, <2>7 DEF TypeOK
<1>. QED BY <1>2, <1>3 DEF LeaveLoop

LEMMA WriteSectorType ==
  ASSUME TypeOK, NEW p \in Procs, WriteSector(p)
  PROVE  TypeOK'
<1>1. UNCHANGED <<issued, nextSalt>> /\ pc[p] = "write" /\ job[p] \in Jobs
  BY JobType DEF WriteSector
<1>2. CASE Fault("write") /\ UNCHANGED drive /\ Return(p, "error")
  BY <1>1, <1>2, FaultType, ReturnType DEF TypeOK, drive
<1>3. ASSUME NEW t \in At(job[p].offset),
             data' = [data EXCEPT ![t] = Transform(job[p], job[p].buf, job[p].sectorNum)],
             job' = [job EXCEPT ![p] = Advance(job[p])],
             Goto(p, "read"),
             UNCHANGED <<sector0, handles, outcome, faults, history>>
      PROVE  TypeOK'
  <2>1. Transform(job[p], job[p].buf, job[p].sectorNum) \in Contents
    BY <1>1, TransformType DEF Jobs
  <2>2. data' \in [Sectors -> Contents]
    BY <1>3, <2>1 DEF TypeOK
  <2>3. Advance(job[p]) \in Jobs /\ Advance(job[p]) # NoJob
    BY <1>1, AdvancePlace
  <2>. QED BY <1>1, <1>3, <2>2, <2>3 DEF TypeOK, Goto, Locations, history
<1>. QED BY <1>2, <1>3 DEF WriteSector

LEMMA KillType ==
  ASSUME TypeOK, NEW p \in Procs, Kill(p)
  PROVE  TypeOK'
BY FaultType, ReturnType DEF Kill, TypeOK, drive

LEMMA TypeStep ==
  ASSUME TypeOK, [Next]_vars
  PROVE  TypeOK'
<1>1. ASSUME NEW p \in Procs, NEW password \in Passwords, StartEncryptPro(p, password)
      PROVE  TypeOK'
  BY <1>1, StartType DEF StartEncryptPro, AllCommands
<1>2. ASSUME NEW p \in Procs, NEW password \in Passwords, StartDecryptPro(p, password)
      PROVE  TypeOK'
  BY <1>2, StartType DEF StartDecryptPro, AllCommands
<1>3. ASSUME NEW p \in Procs, NEW password \in Passwords, NEW other \in Passwords,
             StartChangePasswordPro(p, password, other)
      PROVE  TypeOK'
  BY <1>3, StartType DEF StartChangePasswordPro, AllCommands
<1>4. ASSUME NEW p \in Procs, NEW password \in Passwords, NEW other \in Passwords,
             StartEncryptWithHidden(p, password, other)
      PROVE  TypeOK'
  BY <1>4, StartType DEF StartEncryptWithHidden, AllCommands
<1>5. ASSUME NEW p \in Procs, Proceed(p) PROVE TypeOK'
  BY <1>5, CheckNotEncryptedType, AuthenticateType, WriteHeaderType, ReadSectorType,
     LeaveLoopType, WriteSectorType DEF Proceed
<1>6. ASSUME NEW p \in Procs, Kill(p) PROVE TypeOK'
  BY <1>6, KillType
<1>7. CASE UNCHANGED vars
  BY <1>7 DEF vars, env, history, TypeOK
<1>. QED BY <1>1, <1>2, <1>3, <1>4, <1>5, <1>6, <1>7 DEF Next

(* Every reachable state of the raw drive is of the declared types.        *)
THEOREM TypeCorrect == Spec => []TypeOK
<1>1. Init => TypeOK
  BY InitType
<1>2. TypeOK /\ [Next]_vars => TypeOK'
  BY TypeStep
<1>. QED BY <1>1, <1>2, PTL DEF Spec

-----------------------------------------------------------------------------
(* Where opens are exclusive, the sector loops are right.                  *)
(*                                                                         *)
(* EachSectorOnce and HeaderNamesKey speak of one process's loop and are   *)
(* not inductive: a second process could write under it.  The invariant    *)
(* adds that at most one process is past its open, that a drive nobody has *)
(* open is at the start of its next pass, and that the two counters of a   *)
(* loop, which nothing in the code ties together, name the same sector.    *)

OneHolder ==
  /\ handles = {p \in Procs : pc[p] # "idle"}
  /\ \A p, q \in handles : p = q

Settled == handles = {} => data = base

FirstSector(j) == IF j.pass = 1 THEN 1 ELSE HiddenStart

AtStart(j) == j.pass = 1 /\ j.sectorNum = 1 /\ j.offset = SectorSize

InStep(j) == FirstSector(j) <= j.sectorNum /\ j.offset = SectorSize * j.sectorNum

Placed(p) ==
  /\ pc[p] \in {"opened", "stamp"} => AtStart(job[p])
  /\ pc[p] = "stamp" => job[p].command # "DecryptPro"
  /\ InLoop(p) => InStep(job[p])

LoopInv(p) ==
  /\ Placed(p)
  /\ TransformedOnce(p)
  /\ InLoop(p) => KeysNamed(job[p], Decode(sector0))

IInv ==
  /\ TypeOK
  /\ OneHolder
  /\ Settled
  /\ \A p \in Procs : LoopInv(p)

LEMMA IdleLoopInv ==
  ASSUME NEW p \in Procs, pc[p] = "idle"
  PROVE  LoopInv(p)
BY DEF LoopInv, Placed, TransformedOnce, InLoop

(* A process past its open is alone: the others are idle, before and after *)
(* its step.                                                               *)
LEMMA Alone ==
  ASSUME IInv, NEW p \in Procs, pc[p] # "idle", NEW q \in Procs \ {p}
  PROVE  pc[q] = "idle"
BY DEF IInv, OneHolder

(* A step of p that keeps the drive open re-establishes the invariant if   *)
(* it does so for p.                                                       *)
LEMMA StepWithin ==
  ASSUME IInv, TypeOK', NEW p \in Procs, pc[p] # "idle",
         NEW to \in Locations \ {"idle"}, Goto(p, to), UNCHANGED handles, LoopInv(p)'
  PROVE  IInv'
<1>1. /\ pc'[p] = to
      /\ \A q \in Procs \ {p} : pc'[q] = pc[q]
      /\ pc' \in [Procs -> Locations]
  BY DEF Goto, TypeOK, IInv
<1>2. p \in handles
  BY DEF IInv, OneHolder
<1>3. \A q \in Procs \ {p} : LoopInv(q)'
  BY <1>1, Alone DEF LoopInv, Placed, TransformedOnce, InLoop
<1>4. OneHolder'
  BY <1>1, <1>2 DEF IInv, OneHolder
<1>5. Settled'
  BY <1>2 DEF Settled
<1>. QED BY <1>3, <1>4, <1>5 DEF IInv

LEMMA StepReturns ==
  ASSUME IInv, TypeOK', NEW p \in Procs, pc[p] # "idle", NEW result, Return(p, result)
  PROVE  IInv'
<1>1. /\ \A q \in Procs : pc'[q] = "idle"
      /\ handles' = handles \ {p}
      /\ base' = data'
  BY Alone DEF Return, Goto, IInv, TypeOK
<1>2. handles' = {}
  BY <1>1 DEF IInv, OneHolder
<1>3. \A q \in Procs : LoopInv(q)'
  BY <1>1 DEF LoopInv, Placed, TransformedOnce, InLoop
<1>. QED BY <1>1, <1>2, <1>3 DEF IInv, OneHolder, Settled

(* The offset of a loop in step is that of the sector it counts.           *)
LEMMA PlaceOfStep ==
  ASSUME NEW j, j.sectorNum \in Nat, j.offset = SectorSize * j.sectorNum
  PROVE  /\ At(j.offset) = {s \in Sectors : s = j.sectorNum}
         /\ Processed(j) = {s \in Sectors : FirstSector(j) <= s /\ s < j.sectorNum}
BY HiddenAssumption DEF At, Processed, FirstOffset, FirstSector, Sectors, SectorSize

(* At the start of a pass nothing is processed yet.                        *)
LEMMA FreshPass ==
  ASSUME NEW j, AtStart(j) \/ \E k \in Jobs : j = SecondPass(k)
  PROVE  Processed(j) = {} /\ InStep(j)
<1>1. j.sectorNum = FirstSector(j) /\ j.offset = SectorSize * j.sectorNum
  BY SecondPassPlace, HiddenAssumption DEF AtStart, FirstSector, SectorSize
<1>2. FirstSector(j) \in Nat
  BY DEF FirstSector
<1>. QED BY <1>1, <1>2, PlaceOfStep DEF InStep, Sectors

LEMMA InitInv == Init => IInv
BY InitType DEF Init, IInv, OneHolder, Settled, LoopInv, Placed, TransformedOnce, InLoop

LEMMA StartInv ==
  ASSUME ExclusiveOpen, IInv, TypeOK', NEW p \in Procs, NEW command, NEW password, NEW other,
         NEW to \in {"opened", "stamp"}, to = "stamp" => command # "DecryptPro",
         Start(p, command, password, other, to)
  PROVE  IInv'
<1>1. UNCHANGED <<sector0, data, base>>
  BY DEF Start, drive, history
<1>2. CASE handles # {}
  <2>1. UNCHANGED <<handles, pc, job>>
    BY <1>2 DEF Start
  <2>. QED
    BY <1>1, <2>1 DEF IInv, OneHolder, Settled, LoopInv, Placed, TransformedOnce, InLoop
<1>3. CASE handles = {}
  <2>1. /\ handles' = {p}
        /\ pc' = [pc EXCEPT ![p] = to]
    BY <1>3 DEF Start, Goto
  <2>2. AtStart(job'[p]) /\ job'[p].command = command
    BY <1>3 DEF Start, IInv, TypeOK, AtStart
  <2>3. /\ pc'[p] = to
        /\ \A q \in Procs \ {p} : pc'[q] = "idle"
    BY <1>3, <2>1 DEF IInv, TypeOK, OneHolder
  <2>4. LoopInv(p)'
    BY <1>1, <1>3, <2>2, <2>3 DEF LoopInv, Placed, TransformedOnce, InLoop, IInv, Settled
  <2>5. \A q \in Procs \ {p} : LoopInv(q)'
    BY <2>3 DEF LoopInv, Placed, TransformedOnce, InLoop
  <2>. QED BY <2>1, <2>3, <2>4, <2>5 DEF IInv, OneHolder, Settled
<1>. QED BY <1>2, <1>3

LEMMA CheckNotEncryptedInv ==
  ASSUME IInv, TypeOK', NEW p \in Procs, CheckNotEncrypted(p)
  PROVE  IInv'
<1>1. pc[p] = "opened" /\ job[p].command = "EncryptPro"
  BY DEF CheckNotEncrypted
<1>2. CASE Return(p, "error")
  BY <1>1, <1>2, StepReturns
<1>3. CASE Goto(p, "stamp") /\ UNCHANGED <<job, outcome, handles, history>>
  <2>1. pc'[p] = "stamp" /\ UNCHANGED <<data, base, job>>
    BY <1>3 DEF CheckNotEncrypted, Goto, IInv, TypeOK, drive, history
  <2>2. LoopInv(p)'
    BY <1>1, <2>1 DEF IInv, LoopInv, Placed, TransformedOnce, InLoop
  <2>. QED BY <1>1, <1>3, <2>2, StepWithin DEF Locations
<1>. QED BY <1>2, <1>3 DEF CheckNotEncrypted

LEMMA AuthenticateInv ==
  ASSUME IInv, TypeOK', NEW p \in Procs, Authenticate(p)
  PROVE  IInv'
<1>1. /\ pc[p] = "opened"
      /\ job[p].command \in {"DecryptPro", "ChangePasswordPro"}
      /\ UNCHANGED <<sector0, data>>
  BY DEF Authenticate, drive
<1>2. CASE Return(p, "error")
  BY <1>1, <1>2, StepReturns
<1>3. ASSUME NEW key \in AcceptedKeys(job[p].password, Decode(sector0)),
             job' = [job EXCEPT ![p].key = key],
             Goto(p, IF job[p].command = "DecryptPro" THEN "read" ELSE "stamp"),
             UNCHANGED <<outcome, handles, faults, history>>
      PROVE  IInv'
  <2>1. job[p] \in Jobs
    BY <1>1, JobType DEF IInv
  <2>2. job'[p] = [job[p] EXCEPT !.key = key]
    BY <1>3 DEF IInv, TypeOK
  <2>3. /\ job'[p].command = job[p].command
        /\ AtStart(job'[p])
        /\ job'[p].key = key
    BY <1>1, <2>1, <2>2 DEF Jobs, IInv, LoopInv, Placed, AtStart
  <2>4. data' = base'
    BY <1>1, <1>3 DEF IInv, LoopInv, TransformedOnce, history
  <2>5. CASE job[p].command = "DecryptPro"
    <3>1. pc'[p] = "read"
      BY <1>3, <2>5 DEF Goto, IInv, TypeOK
    <3>2. KeysNamed(job'[p], Decode(sector0'))
      BY <1>1, <2>3, <2>5, AcceptedKeyIsPrimary DEF KeysNamed, verifyKey
    <3>3. Processed(job'[p]) = {} /\ InStep(job'[p])
      BY <2>3, FreshPass
    <3>4. data' \in [Sectors -> Contents] /\ base' \in [Sectors -> Contents]
      BY DEF TypeOK
    <3>5. TransformedOnce(p)'
      BY <2>4, <3>1, <3>3, <3>4 DEF TransformedOnce, InLoop
    <3>6. LoopInv(p)'
      BY <3>1, <3>2, <3>3, <3>5 DEF LoopInv, Placed, InLoop
    <3>. QED BY <1>1, <1>3, <2>5, <3>6, StepWithin DEF Locations
  <2>6. CASE job[p].command = "ChangePasswordPro"
    <3>1. pc'[p] = "stamp"
      BY <1>3, <2>6 DEF Goto, IInv, TypeOK
    <3>2. LoopInv(p)'
      BY <2>3, <2>4, <2>6, <3>1 DEF LoopInv, Placed, TransformedOnce, InLoop
    <3>. QED BY <1>1, <1>3, <2>6, <3>2, StepWithin DEF Locations
  <2>. QED BY <1>1, <2>5, <2>6
<1>. QED BY <1>2, <1>3 DEF Authenticate

(* The loop keys of a command are the ones its new header names.           *)
LEMMA NewHeaderNamesLoopKeys ==
  ASSUME NEW j \in Jobs, j.command # "DecryptPro"
  PROVE  KeysNamed(LoopKeys(j, NewHeader(j)), Decode(Encode(NewHeader(j))))
<1>. DEFINE h == NewHeader(j)
<1>1. CASE j.command = "EncryptPro"
  <2>1. /\ h = createHeader(j.password, nextSalt)
        /\ LoopKeys(j, h) = [j EXCEPT !.key = DeriveKey(j.password, h.salt)]
    BY <1>1 DEF NewHeader, LoopKeys
  <2>2. Decode(Encode(h)) = h /\ h.magic /\ h.hashedKey = DeriveKey(j.password, h.salt)
    BY <2>1, HeaderRoundTrip DEF createHeader
  <2>. QED BY <1>1, <2>1, <2>2 DEF KeysNamed, verifyKey, Jobs
<1>2. CASE j.command = "ChangePasswordPro"
  <2>1. /\ h = createHeader(j.other, nextSalt)
        /\ LoopKeys(j, h) = [j EXCEPT !.otherKey = DeriveKey(j.other, h.salt)]
    BY <1>2 DEF NewHeader, LoopKeys
  <2>2. Decode(Encode(h)) = h /\ h.magic /\ h.hashedKey = DeriveKey(j.other, h.salt)
    BY <2>1, HeaderRoundTrip DEF createHeader
  <2>. QED BY <1>2, <2>1, <2>2 DEF KeysNamed, verifyKey, Jobs
<1>3. CASE j.command = "EncryptWithHidden"
  <2>1. /\ h = createHeaderWithHidden(j.password, nextSalt, j.other, nextSalt + 1)
        /\ LoopKeys(j, h) = [j EXCEPT !.key = DeriveKey(j.password, h.salt),
                                      !.otherKey = DeriveKey(j.other, h.hiddenSalt)]
    BY <1>3 DEF NewHeader, LoopKeys
  <2>2. /\ Decode(Encode(h)) = h /\ h.magic /\ h.hasHidden
        /\ h.hashedKey = DeriveKey(j.password, h.salt)
        /\ h.hashedHiddenKey = DeriveKey(j.other, h.hiddenSalt)
    BY <2>1, HeaderRoundTrip DEF createHeaderWithHidden
  <2>. QED BY <1>3, <2>1, <2>2 DEF KeysNamed, verifyKey, Jobs
<1>. QED BY <1>1, <1>2, <1>3 DEF Jobs, AllCommands

LEMMA LoopKeysPlace ==
  ASSUME NEW j \in Jobs, NEW h
  PROVE  /\ LoopKeys(j, h).pass = j.pass
         /\ LoopKeys(j, h).sectorNum = j.sectorNum
         /\ LoopKeys(j, h).offset = j.offset
BY DEF LoopKeys, Jobs

LEMMA WriteHeaderInv ==
  ASSUME IInv, TypeOK', NEW p \in Procs, WriteHeader(p)
  PROVE  IInv'
<1>1. pc[p] = "stamp" /\ job[p] \in Jobs
  BY JobType DEF WriteHeader, IInv
<1>2. CASE Return(p, "error")
  BY <1>1, <1>2, StepReturns
<1>3. CASE /\ sector0' = Encode(NewHeader(job[p]))
           /\ job' = [job EXCEPT ![p] = LoopKeys(job[p], NewHeader(job[p]))]
           /\ Goto(p, "read")
           /\ UNCHANGED <<outcome, handles, faults, history, data>>
  <2>1. pc'[p] = "read" /\ job'[p] = LoopKeys(job[p], NewHeader(job[p]))
    BY <1>3 DEF Goto, IInv, TypeOK
  <2>2. AtStart(job'[p])
    BY <1>1, <2>1, LoopKeysPlace DEF IInv, LoopInv, Placed, AtStart
  <2>3. KeysNamed(job'[p], Decode(sector0'))
    BY <1>1, <1>3, <2>1, NewHeaderNamesLoopKeys DEF IInv, LoopInv, Placed
  <2>4. Processed(job'[p]) = {} /\ InStep(job'[p])
    BY <2>2, FreshPass
  <2>5. data' = base' /\ data' \in [Sectors -> Contents]
    BY <1>1, <1>3 DEF IInv, LoopInv, TransformedOnce, TypeOK, history
  <2>6. TransformedOnce(p)'
    BY <2>1, <2>4, <2>5 DEF TransformedOnce, InLoop
  <2>7. LoopInv(p)'
    BY <2>1, <2>3, <2>4, <2>6 DEF LoopInv, Placed, InLoop
  <2>. QED BY <1>1, <1>3, <2>7, StepWithin DEF Locations
<1>. QED BY <1>2, <1>3 DEF WriteHeader

(* What a loop does to a sector depends on the command, the pass and the   *)
(* two keys only.                                                          *)
LEMMA SameTransform ==
  ASSUME NEW i, NEW j, i.command = j.command, i.pass = j.pass,
         i.key = j.key, i.otherKey = j.otherKey, NEW contents, NEW sectorNum
  PROVE  Transform(i, contents, sectorNum) = Transform(j, contents, sectorNum)
BY DEF Transform

LEMMA ReadSectorInv ==
  ASSUME IInv, TypeOK', NEW p \in Procs, ReadSector(p)
  PROVE  IInv'
<1>. DEFINE j == job[p]
<1>0. PICK t \in At(j.offset) : job' = [job EXCEPT ![p].buf = data[t]]
  BY DEF ReadSector
<1>1. pc[p] = "read" /\ j \in Jobs /\ UNCHANGED <<sector0, data, base, handles>>
  BY JobType DEF ReadSector, IInv, drive, history
<1>2. pc'[p] = "write" /\ job'[p] = [j EXCEPT !.buf = data[t]]
  BY <1>0 DEF ReadSector, Goto, IInv, TypeOK
<1>3. /\ job'[p].command = j.command /\ job'[p].pass = j.pass
      /\ job'[p].sectorNum = j.sectorNum /\ job'[p].offset = j.offset
      /\ job'[p].key = j.key /\ job'[p].otherKey = j.otherKey
      /\ job'[p].buf = data[t]
  BY <1>1, <1>2 DEF Jobs
<1>4. Processed(job'[p]) = Processed(j) /\ (InStep(j) => InStep(job'[p]))
  BY <1>3 DEF Processed, FirstOffset, InStep, FirstSector
<1>5. \A s \in Sectors : Transform(job'[p], base[s], s) = Transform(j, base[s], s)
  BY <1>3, SameTransform
<1>6. TransformedOnce(p)'
  <2>1. data' = [s \in Sectors |-> IF s \in Processed(job'[p])
                                  THEN Transform(job'[p], base'[s], s) ELSE base'[s]]
    BY <1>1, <1>4, <1>5 DEF IInv, LoopInv, TransformedOnce, InLoop
  <2>2. t \in At(job'[p].offset) /\ job'[p].buf = data'[t]
    BY <1>0, <1>1, <1>3
  <2>. QED BY <1>2, <2>1, <2>2 DEF TransformedOnce, InLoop, At
<1>7. KeysNamed(job'[p], Decode(sector0'))
  BY <1>1, <1>3 DEF IInv, LoopInv, InLoop, KeysNamed
<1>8. LoopInv(p)'
  BY <1>1, <1>2, <1>4, <1>6, <1>7 DEF IInv, LoopInv, Placed, InLoop
<1>. QED BY <1>1, <1>8, StepWithin DEF Locations, ReadSector

LEMMA LeaveLoopInv ==
  ASSUME IInv, TypeOK', NEW p \in Procs, LeaveLoop(p)
  PROVE  IInv'
<1>. DEFINE j == job[p]
<1>1. pc[p] = "read" /\ j \in Jobs /\ UNCHANGED <<sector0, data>>
  BY JobType DEF LeaveLoop, IInv, drive
<1>2. CASE Return(p, "ok")
  BY <1>1, <1>2, StepReturns
<1>3. CASE /\ j.command = "EncryptWithHidden" /\ j.pass = 1
           /\ job' = [job EXCEPT ![p] = SecondPass(j)]
           /\ base' = data
           /\ UNCHANGED <<pc, outcome, handles, committed>>
  <2>1. job'[p] = SecondPass(j)
    BY <1>1, <1>3 DEF IInv, TypeOK
  <2>2. /\ job'[p].command = j.command
        /\ job'[p].key = j.key /\ job'[p].otherKey = j.otherKey
    BY <1>1, <2>1, SecondPassPlace DEF SameCommand
  <2>3. Processed(job'[p]) = {} /\ InStep(job'[p])
    BY <1>1, <2>1, FreshPass
  <2>4. data' = base' /\ data' \in [Sectors -> Contents]
    BY <1>1, <1>3 DEF IInv, TypeOK
  <2>5. TransformedOnce(p)'
    BY <1>1, <1>3, <2>3, <2>4 DEF TransformedOnce, InLoop
  <2>6. KeysNamed(job'[p], Decode(sector0'))
    BY <1>1, <2>2 DEF IInv, LoopInv, InLoop, KeysNamed
  <2>7. LoopInv(p)'
    BY <1>1, <1>3, <2>3, <2>5, <2>6 DEF LoopInv, Placed, InLoop
  <2>8. Goto(p, "read")
    BY <1>1, <1>3 DEF Goto, IInv, TypeOK
  <2>. QED BY <1>1, <1>3, <2>7, <2>8, StepWithin DEF Locations
<1>. QED BY <1>2, <1>3 DEF LeaveLoop

LEMMA WriteSectorInv ==
  ASSUME IInv, TypeOK', NEW p \in Procs, WriteSector(p)
  PROVE  IInv'
<1>. DEFINE j == job[p]
<1>1. pc[p] = "write" /\ j \in Jobs
  BY JobType DEF WriteSector, IInv
<1>2. CASE Return(p, "error")
  BY <1>1, <1>2, StepReturns
<1>3. ASSUME NEW t \in At(j.offset),
             data' = [data EXCEPT ![t] = Transform(j, j.buf, j.sectorNum)],
             job' = [job EXCEPT ![p] = Advance(j)],
             Goto(p, "read"),
             UNCHANGED <<sector0, handles, outcome, faults, history>>
      PROVE  IInv'
  <2>1. pc'[p] = "read" /\ job'[p] = Advance(j) /\ base' = base
    BY <1>3 DEF Goto, IInv, TypeOK, history
  <2>2. /\ job'[p].command = j.command /\ job'[p].pass = j.pass
        /\ job'[p].sectorNum = j.sectorNum + 1 /\ job'[p].offset = j.offset + SectorSize
        /\ job'[p].key = j.key /\ job'[p].otherKey = j.otherKey
    BY <1>1, <2>1, AdvancePlace DEF SameCommand
  <2>3. InStep(j) /\ j.sectorNum \in Nat /\ FirstSector(j) \in Nat
    BY <1>1 DEF IInv, LoopInv, Placed, InLoop, Jobs, FirstSector
  <2>4. /\ t \in Sectors /\ t = j.sectorNum
        /\ j.buf = data[t]
        /\ data = [s \in Sectors |-> IF s \in Processed(j)
                                     THEN Transform(j, base[s], s) ELSE base[s]]
    BY <1>1, <1>3, <2>3, PlaceOfStep DEF IInv, LoopInv, TransformedOnce, InLoop, InStep
  <2>5. InStep(job'[p]) /\ job'[p].sectorNum \in Nat
    BY <2>2, <2>3 DEF InStep, FirstSector, SectorSize
  <2>6. Processed(job'[p]) = Processed(j) \union {t} /\ t \notin Processed(j)
    <3>1. Processed(j) = {s \in Sectors : FirstSector(j) <= s /\ s < j.sectorNum}
      BY <2>3, PlaceOfStep DEF InStep
    <3>2. Processed(job'[p]) = {s \in Sectors : FirstSector(j) <= s /\ s < j.sectorNum + 1}
      BY <2>2, <2>5, PlaceOfStep DEF InStep, FirstSector
    <3>. QED BY <2>3, <2>4, <3>1, <3>2 DEF InStep, Sectors
  <2>7. j.buf = base[t]
    BY <2>4, <2>6
  <2>8. \A s \in Sectors : Transform(job'[p], base[s], s) = Transform(j, base[s], s)
    BY <2>2, SameTransform
  <2>9. data' = [s \in Sectors |-> IF s \in Processed(job'[p])
                                  THEN Transform(job'[p], base'[s], s) ELSE base'[s]]
    BY <1>3, <2>1, <2>4, <2>6, <2>7, <2>8
  <2>10. TransformedOnce(p)'
    BY <2>1, <2>9 DEF TransformedOnce, InLoop
  <2>11. KeysNamed(job'[p], Decode(sector0'))
    BY <1>1, <1>3, <2>2 DEF IInv, LoopInv, InLoop, KeysNamed
  <2>12. LoopInv(p)'
    BY <2>1, <2>5, <2>10, <2>11 DEF LoopInv, Placed, InLoop
  <2>. QED BY <1>1, <1>3, <2>12, StepWithin DEF Locations
<1>. QED BY <1>2, <1>3 DEF WriteSector

LEMMA KillInv ==
  ASSUME IInv, TypeOK', NEW p \in Procs, Kill(p)
  PROVE  IInv'
BY StepReturns DEF Kill

LEMMA NextInv ==
  ASSUME ExclusiveOpen, IInv, TypeOK', [Next]_vars
  PROVE  IInv'
<1>1. ASSUME NEW p \in Procs, NEW password \in Passwords, StartEncryptPro(p, password)
      PROVE  IInv'
  BY <1>1, StartInv DEF StartEncryptPro
<1>2. ASSUME NEW p \in Procs, NEW password \in Passwords, StartDecryptPro(p, password)
      PROVE  IInv'
  BY <1>2, StartInv DEF StartDecryptPro
<1>3. ASSUME NEW p \in Procs, NEW password \in Passwords, NEW other \in Passwords,
             StartChangePasswordPro(p, password, other)
      PROVE  IInv'
  BY <1>3, StartInv DEF StartChangePasswordPro
<1>4. ASSUME NEW p \in Procs, NEW password \in Passwords, NEW other \in Passwords,
             StartEncryptWithHidden(p, password, other)
      PROVE  IInv'
  BY <1>4, StartInv DEF StartEncryptWithHidden
<1>5. ASSUME NEW p \in Procs, Proceed(p) PROVE IInv'
  BY <1>5, CheckNotEncryptedInv, AuthenticateInv, WriteHeaderInv, ReadSectorInv,
     LeaveLoopInv, WriteSectorInv DEF Proceed
<1>6. ASSUME NEW p \in Procs, Kill(p) PROVE IInv'
  BY <1>6, KillInv
<1>7. CASE UNCHANGED vars
  BY <1>7 DEF vars, env, history, IInv, OneHolder, Settled, LoopInv, Placed, TransformedOnce, InLoop
<1>. QED BY <1>1, <1>2, <1>3, <1>4, <1>5, <1>6, <1>7 DEF Next

LEMMA Inductive == ExclusiveOpen => (Spec => []IInv)
<1>. SUFFICES ASSUME ExclusiveOpen PROVE Spec => []IInv
  OBVIOUS
<1>1. Init => IInv
  BY InitInv
<1>2. IInv /\ TypeOK' /\ [Next]_vars => IInv'
  BY NextInv
<1>. QED BY <1>1, <1>2, TypeCorrect, PTL DEF Spec

(* Where the OS makes O_EXCL opens exclusive, every loop transforms every  *)
(* sector of its range once, under the number of the sector's place on the *)
(* drive although number and offset are counted apart, whatever is killed  *)
(* or fails. (The four loops of drive.go.)                                 *)
THEOREM LoopsTransformOnce == ExclusiveOpen => (Spec => []EachSectorOnce)
<1>1. IInv => EachSectorOnce
  BY DEF IInv, LoopInv, EachSectorOnce
<1>. QED BY <1>1, Inductive, PTL

(* Where opens are exclusive, the header on the drive names every key a    *)
(* loop is writing under, at every step. (writeHeader before the loops.)   *)
THEOREM LoopsNamedByHeader == ExclusiveOpen => (Spec => []HeaderNamesKey)
<1>1. IInv => HeaderNamesKey
  BY DEF IInv, LoopInv, HeaderNamesKey
<1>. QED BY <1>1, Inductive, PTL

=============================================================================
