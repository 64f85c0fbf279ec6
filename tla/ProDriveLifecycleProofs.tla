---------------------- MODULE ProDriveLifecycleProofs ----------------------
(***************************************************************************)
(* ProDrive implements DriveLifecycle, for every number of processes,      *)
(* passwords and sectors, every set of commands and every bound.           *)
(***************************************************************************)
EXTENDS ProDriveLifecycle, ProDriveKeyProofs

USE DriveAssumption, NoPasswordAssumption

-----------------------------------------------------------------------------
(* What a layer does to the contents of a sector.                          *)

(* The keys the header names. A sector is lost to the header's owner if a  *)
(* layer on it is under another key, or takes away what was never put on.  *)
NamedKeys(h) == {h.hashedKey} \union {k \in {h.hashedHiddenKey} : h.hasHidden}

Lost(contents, h) ==
  \E i \in DOMAIN contents : contents[i].op = "Decrypt" \/ contents[i].key \notin NamedKeys(h)

LayersBefore(contents, salt) == \A key \in KeysOf(contents) : key.salt < salt
OldLayer(contents, salt) == \E i \in DOMAIN contents : contents[i].key.salt < salt

LEMMA LayerType ==
  ASSUME NEW key \in Keys, NEW sectorNum \in Nat
  PROVE  /\ Layer("Encrypt", key, sectorNum) \in Layers
         /\ Layer("Decrypt", key, sectorNum) \in Layers
BY DEF Layer, Layers

LEMMA LayerKey ==
  ASSUME NEW contents \in Contents, NEW i \in DOMAIN contents
  PROVE  contents[i] \in Layers /\ contents[i].key \in Keys /\ contents[i].key.salt \in Nat
<1>1. contents[i] \in Layers
  BY DEF Contents
<1>. QED BY <1>1 DEF Layers, Keys

(* A layer that is not the inverse of the next one stays.                  *)
LEMMA LayerStays ==
  ASSUME NEW layer \in Layers, NEW inverse, NEW contents \in Contents,
         NEW i \in DOMAIN contents, contents[i] # inverse
  PROVE  /\ i \in DOMAIN Apply(layer, inverse, contents)
         /\ Apply(layer, inverse, contents)[i] = contents[i]
<1>. DEFINE result == Apply(layer, inverse, contents)
<1>1. result \in Contents
  BY ApplyType
<1>. HIDE DEF result
<1>2. /\ Len(contents) \in Nat /\ DOMAIN contents = 1 .. Len(contents)
      /\ Len(result) \in Nat /\ DOMAIN result = 1 .. Len(result)
  BY <1>1 DEF Contents
<1>3. \/ /\ Len(result) = Len(contents) - 1
         /\ contents[Len(contents)] = inverse
         /\ \A k \in 1 .. (Len(contents) - 1) : result[k] = contents[k]
      \/ /\ Len(result) = Len(contents) + 1
         /\ \A k \in 1 .. Len(contents) : result[k] = contents[k]
  BY ApplyLayers DEF result
<1>4. i \in DOMAIN result /\ result[i] = contents[i]
  <2>1. CASE /\ Len(result) = Len(contents) - 1
             /\ contents[Len(contents)] = inverse
             /\ \A k \in 1 .. (Len(contents) - 1) : result[k] = contents[k]
    <3>1. i \in 1 .. (Len(contents) - 1)
      BY <1>2, <2>1
    <3>. QED BY <1>2, <2>1, <3>1
  <2>2. CASE /\ Len(result) = Len(contents) + 1
             /\ \A k \in 1 .. Len(contents) : result[k] = contents[k]
    BY <1>2, <2>2
  <2>. QED BY <1>3, <2>1, <2>2
<1>. QED BY <1>4 DEF result

(* A lost sector stays lost under the commands that use the header's key.  *)
LEMMA LostStays ==
  ASSUME NEW h \in Header, NEW contents \in Contents, NEW sectorNum \in Nat, Lost(contents, h)
  PROVE  Lost(Decrypt(contents, h.hashedKey, sectorNum), h)
<1>1. PICK i \in DOMAIN contents : contents[i].op = "Decrypt" \/ contents[i].key \notin NamedKeys(h)
  BY DEF Lost
<1>2. h.hashedKey \in Keys
  BY DEF Header
<1>3. contents[i] # Layer("Encrypt", h.hashedKey, sectorNum)
  BY <1>1 DEF Layer, NamedKeys
<1>. QED BY <1>1, <1>2, <1>3, LayerType, LayerStays DEF Lost, Decrypt

(* What a layer older than the header's salts leaves, no header names.     *)
LEMMA OldLayerStays ==
  ASSUME NEW contents \in Contents, NEW key \in Keys, NEW sectorNum \in Nat,
         NEW salt \in Nat, salt <= key.salt, OldLayer(contents, salt)
  PROVE  OldLayer(Encrypt(contents, key, sectorNum), salt)
<1>1. PICK i \in DOMAIN contents : contents[i].key.salt < salt
  BY DEF OldLayer
<1>2. contents[i].key.salt \in Nat /\ key.salt \in Nat
  BY LayerKey DEF Keys
<1>3. contents[i] # Layer("Decrypt", key, sectorNum)
  BY <1>1, <1>2 DEF Layer
<1>. QED BY <1>1, <1>3, LayerType, LayerStays DEF OldLayer, Encrypt

LEMMA OldLayerLost ==
  ASSUME NEW contents \in Contents, NEW h \in Header, NEW salt \in Nat, OldLayer(contents, salt),
         \A key \in NamedKeys(h) : salt <= key.salt
  PROVE  Lost(contents, h)
<1>1. PICK i \in DOMAIN contents : contents[i].key.salt < salt
  BY DEF OldLayer
<1>2. contents[i].key.salt \in Nat
  BY LayerKey
<1>3. \A key \in NamedKeys(h) : key.salt \in Nat
  BY DEF NamedKeys, Header, Keys
<1>4. contents[i].key \notin NamedKeys(h)
  BY <1>1, <1>2, <1>3
<1>. QED BY <1>1, <1>4 DEF Lost

(* The stacks of layers that the commands build and take down.             *)
LEMMA Stacks ==
  ASSUME NEW key, NEW s
  PROVE  /\ Encrypt(Plaintext, key, s) = <<Layer("Encrypt", key, s)>>
         /\ Decrypt(Plaintext, key, s) = <<Layer("Decrypt", key, s)>>
         /\ Decrypt(Encrypt(Plaintext, key, s), key, s) = Plaintext
<1>1. /\ Encrypt(Plaintext, key, s) = <<Layer("Encrypt", key, s)>>
      /\ Decrypt(Plaintext, key, s) = <<Layer("Decrypt", key, s)>>
  BY DEF Encrypt, Decrypt, Apply, Plaintext
<1>2. Decrypt(<<Layer("Encrypt", key, s)>>, key, s) = Plaintext
  BY DEF Decrypt, Apply, Plaintext, Last, Front
<1>. QED BY <1>1, <1>2

LEMMA StackOfTwo ==
  ASSUME NEW key, NEW other, NEW s
  PROVE  /\ Encrypt(Encrypt(Plaintext, key, s), other, s)
              = Append(<<Layer("Encrypt", key, s)>>, Layer("Encrypt", other, s))
         /\ Encrypt(Encrypt(Plaintext, key, s), other, s) # Plaintext
<1>. DEFINE a == Layer("Encrypt", key, s)
            b == Layer("Encrypt", other, s)
<1>1. Encrypt(Plaintext, key, s) = <<a>>
  BY Stacks
<1>2. a # Layer("Decrypt", other, s)
  BY DEF Layer
<1>. HIDE DEF a
<1>3. Last(<<a>>) = a /\ <<a>> # <<>>
  BY DEF Last
<1>4. Encrypt(<<a>>, other, s) = Append(<<a>>, b)
  BY <1>2, <1>3, Zenon DEF Encrypt, Apply
<1>5. Append(<<a>>, b) # Plaintext
  <2>. HIDE DEF b
  <2>. QED BY DEF Plaintext
<1>. QED BY <1>1, <1>4, <1>5 DEF a

(* The header's key takes one layer off a sector sealed under it; of any   *)
(* other stack under the header's keys it makes a lost sector.             *)
LEMMA OpenedLost ==
  ASSUME NEW key, NEW other, NEW s, NEW h
  PROVE  /\ Lost(Decrypt(Plaintext, key, s), h)
         /\ key # other => Lost(Decrypt(Encrypt(Encrypt(Plaintext, key, s), other, s), key, s), h)
<1>. DEFINE a == Layer("Encrypt", key, s)
            b == Layer("Encrypt", other, s)
            c == Layer("Decrypt", key, s)
            two == Append(<<a>>, b)
<1>1. c.op = "Decrypt" /\ (key # other => b # a)
  BY DEF Layer
<1>2. Lost(<<c>>, h)
  BY <1>1 DEF Lost
<1>. HIDE DEF a, b, c
<1>3. Last(two) = b /\ two # <<>>
  BY DEF Last
<1>4. key # other => Apply(c, a, two) = Append(two, c)
  BY <1>1, <1>3, Zenon DEF Apply
<1>5. 3 \in DOMAIN Append(two, c) /\ Append(two, c)[3] = c
  OBVIOUS
<1>6. Lost(Append(two, c), h)
  BY <1>1, <1>5 DEF Lost
<1>. QED BY <1>2, <1>4, <1>6, Stacks, StackOfTwo DEF Decrypt, a, b, c

(* What the header promises to be readable is not lost.                    *)
LEMMA SealedNotLost ==
  ASSUME NEW h, NEW s
  PROVE  /\ ~Lost(Plaintext, h)
         /\ ~Lost(Encrypt(Plaintext, h.hashedKey, s), h)
         /\ h.hasHidden => ~Lost(Encrypt(Encrypt(Plaintext, h.hashedKey, s), h.hashedHiddenKey, s), h)
<1>. DEFINE a == Layer("Encrypt", h.hashedKey, s)
            b == Layer("Encrypt", h.hashedHiddenKey, s)
<1>1. /\ a.op = "Encrypt" /\ a.key = h.hashedKey
      /\ b.op = "Encrypt" /\ b.key = h.hashedHiddenKey
  BY DEF Layer
<1>2. ~Lost(Plaintext, h)
  BY DEF Lost, Plaintext
<1>. HIDE DEF a, b
<1>3. ~Lost(<<a>>, h)
  BY <1>1 DEF Lost, NamedKeys
<1>4. ASSUME h.hasHidden PROVE ~Lost(Append(<<a>>, b), h)
  <2>1. \A i \in DOMAIN Append(<<a>>, b) : Append(<<a>>, b)[i] \in {a, b}
    OBVIOUS
  <2>2. a.key \in NamedKeys(h) /\ b.key \in NamedKeys(h)
    BY <1>1, <1>4 DEF NamedKeys
  <2>. QED BY <1>1, <2>1, <2>2 DEF Lost
<1>. QED BY <1>2, <1>3, <1>4, Stacks, StackOfTwo DEF a, b

LEMMA LayersStayBefore ==
  ASSUME NEW contents \in Contents, NEW key \in Keys, NEW sectorNum \in Nat, NEW salt \in Nat,
         LayersBefore(contents, salt), key.salt < salt
  PROVE  /\ LayersBefore(Encrypt(contents, key, sectorNum), salt)
         /\ LayersBefore(Decrypt(contents, key, sectorNum), salt)
BY CipherKeys DEF LayersBefore

LEMMA SomeLayer ==
  ASSUME NEW contents \in Contents, contents # Plaintext, NEW salt, LayersBefore(contents, salt)
  PROVE  OldLayer(contents, salt)
<1>1. 1 \in DOMAIN contents
  BY DEF Contents, Plaintext
<1>. QED BY <1>1 DEF LayersBefore, KeysOf, OldLayer

LEMMA LostNotEmpty ==
  ASSUME NEW contents, NEW h, Lost(contents, h)
  PROVE  contents # Plaintext
BY DEF Lost, Plaintext

-----------------------------------------------------------------------------
(* What a whole command does to the sectors.                               *)

(* A drive is readable in one of three ways, or its last sector, which is  *)
(* in the hidden region, is lost.                                          *)
Large == HiddenStart <= NumSectors

Readable(contents, h) ==
  \/ contents = Original
  \/ h.magic /\ ~h.hasHidden /\ contents = Once(h)
  \/ h.magic /\ h.hasHidden /\ contents = Twice(h)

DriveInv(contents, h) ==
  /\ h.hasHidden => h.hashedKey # h.hashedHiddenKey
  /\ Readable(contents, h) \/ (h.magic /\ Lost(contents[NumSectors], h))

Sealed(contents, h) == ~h.hasHidden /\ contents = Once(h)

LEMMA LastSector ==
  ASSUME Large, NEW h
  PROVE  /\ NumSectors \in Sectors /\ NumSectors \in Nat /\ ~(NumSectors < HiddenStart)
         /\ Original[NumSectors] = Plaintext
         /\ Once(h)[NumSectors] = Encrypt(Plaintext, h.hashedKey, NumSectors)
         /\ Twice(h)[NumSectors]
              = Encrypt(Encrypt(Plaintext, h.hashedKey, NumSectors), h.hashedHiddenKey, NumSectors)
<1>1. NumSectors \in Sectors /\ NumSectors \in Nat /\ ~(NumSectors < HiddenStart)
  BY DEF Sectors, Large
<1>. QED BY <1>1 DEF Original, Once, Twice

LEMMA NotOriginal ==
  ASSUME Large, NEW contents, NEW h, DriveInv(contents, h), contents # Original
  PROVE  contents[NumSectors] # Plaintext
<1>1. Encrypt(Plaintext, h.hashedKey, NumSectors) # Plaintext
  BY Stacks DEF Plaintext
<1>2. Encrypt(Encrypt(Plaintext, h.hashedKey, NumSectors), h.hashedHiddenKey, NumSectors) # Plaintext
  BY StackOfTwo
<1>. QED BY <1>1, <1>2, LastSector, LostNotEmpty DEF DriveInv, Readable

(* Each of the five phases is read off the drive as such.                  *)
LEMMA Phases ==
  ASSUME Large, NEW left, NEW h, h = Decode(left.sector0), DriveInv(left.data, h)
  PROVE  /\ ~h.magic => PhaseOf(left) = "plain" /\ left.data = Original
         /\ h.magic /\ left.data = Original => PhaseOf(left) = "opened"
         /\ h.magic /\ Sealed(left.data, h) => PhaseOf(left) = "sealed"
         /\ h.magic /\ h.hasHidden /\ left.data = Twice(h) => PhaseOf(left) = "nested"
         /\ h.magic /\ Lost(left.data[NumSectors], h) => PhaseOf(left) = "scrambled"
<1>1. Original # Once(h) /\ Original # Twice(h)
  <2>1. /\ Encrypt(Plaintext, h.hashedKey, NumSectors) # Plaintext
        /\ Encrypt(Encrypt(Plaintext, h.hashedKey, NumSectors), h.hashedHiddenKey, NumSectors)
             # Plaintext
    BY Stacks, StackOfTwo DEF Plaintext
  <2>. QED BY <2>1, LastSector
<1>2. ASSUME Lost(left.data[NumSectors], h)
      PROVE  /\ left.data # Original /\ left.data # Once(h)
             /\ h.hasHidden => left.data # Twice(h)
  BY <1>2, LastSector, SealedNotLost
<1>3. ~h.magic => left.data = Original
  BY DEF DriveInv, Readable
<1>. QED BY <1>1, <1>2, <1>3 DEF PhaseOf, Sealed

(* decrypt-pro.                                                            *)
LEMMA OpenDrive ==
  ASSUME Large, NEW contents \in [Sectors -> Contents], NEW h \in Header, h.magic,
         DriveInv(contents, h),
         NEW result, result = [s \in Sectors |-> Decrypt(contents[s], h.hashedKey, s)]
  PROVE  /\ Sealed(contents, h) => result = Original
         /\ ~Sealed(contents, h) => Lost(result[NumSectors], h)
<1>1. ASSUME Sealed(contents, h) PROVE result = Original
  BY <1>1, Stacks DEF Sealed, Once, Original
<1>2. ASSUME ~Sealed(contents, h) PROVE Lost(result[NumSectors], h)
  <2>1. NumSectors \in Sectors /\ NumSectors \in Nat
    BY LastSector
  <2>2. result[NumSectors] = Decrypt(contents[NumSectors], h.hashedKey, NumSectors)
    BY <2>1
  <2>3. CASE contents = Original
    BY <2>2, <2>3, LastSector, OpenedLost
  <2>4. CASE h.hasHidden /\ contents = Twice(h)
    BY <2>2, <2>4, LastSector, OpenedLost DEF DriveInv
  <2>5. CASE Lost(contents[NumSectors], h)
    BY <2>1, <2>2, <2>5, LostStays
  <2>. QED BY <1>2, <2>3, <2>4, <2>5 DEF DriveInv, Readable, Sealed
<1>. QED BY <1>1, <1>2

(* change-password-pro, with a salt younger than every key on the drive.   *)
LEMMA RekeyDrive ==
  ASSUME Large, NEW contents \in [Sectors -> Contents], NEW h \in Header, h.magic,
         DriveInv(contents, h), NEW new \in Header, ~new.hasHidden,
         \A s \in Sectors : LayersBefore(contents[s], new.hashedKey.salt),
         h.hashedKey.salt < new.hashedKey.salt,
         NEW result,
         result = [s \in Sectors |-> Encrypt(Decrypt(contents[s], h.hashedKey, s), new.hashedKey, s)]
  PROVE  /\ Sealed(contents, h) => result = Once(new)
         /\ ~Sealed(contents, h) => Lost(result[NumSectors], new)
<1>. DEFINE opened == [s \in Sectors |-> Decrypt(contents[s], h.hashedKey, s)]
<1>1. /\ Sealed(contents, h) => opened = Original
      /\ ~Sealed(contents, h) => Lost(opened[NumSectors], h)
  BY OpenDrive
<1>2. result = [s \in Sectors |-> Encrypt(opened[s], new.hashedKey, s)]
  OBVIOUS
<1>3. ASSUME Sealed(contents, h) PROVE result = Once(new)
  BY <1>1, <1>2, <1>3 DEF Once, Original
<1>4. ASSUME ~Sealed(contents, h) PROVE Lost(result[NumSectors], new)
  <2>. DEFINE last == Decrypt(contents[NumSectors], h.hashedKey, NumSectors)
              salt == new.hashedKey.salt
  <2>1. NumSectors \in Sectors /\ NumSectors \in Nat
    BY LastSector
  <2>2. /\ h.hashedKey \in Keys /\ new.hashedKey \in Keys /\ salt \in Nat
        /\ contents[NumSectors] \in Contents
    BY <2>1 DEF Header, Keys
  <2>3. Lost(last, h) /\ result[NumSectors] = Encrypt(last, new.hashedKey, NumSectors)
    BY <1>1, <1>4, <2>1
  <2>4. last \in Contents /\ LayersBefore(last, salt)
    BY <2>1, <2>2, CipherType, LayersStayBefore
  <2>. HIDE DEF last
  <2>5. OldLayer(last, salt)
    BY <2>3, <2>4, LostNotEmpty, SomeLayer
  <2>6. OldLayer(result[NumSectors], salt) /\ result[NumSectors] \in Contents
    BY <2>1, <2>2, <2>3, <2>4, <2>5, OldLayerStays, CipherType, SMTT(30)
  <2>7. \A key \in NamedKeys(new) : salt <= key.salt
    BY <2>2 DEF NamedKeys
  <2>. QED BY <2>2, <2>6, <2>7, OldLayerLost
<1>. QED BY <1>3, <1>4

(* encrypt-hidden, with two salts younger than every key on the drive.     *)
LEMMA HideDrive ==
  ASSUME Large, NEW contents \in [Sectors -> Contents], NEW h, DriveInv(contents, h),
         NEW new \in Header,
         \A s \in Sectors : LayersBefore(contents[s], new.hashedKey.salt),
         new.hashedKey.salt < new.hashedHiddenKey.salt,
         NEW result,
         result = [s \in Sectors |->
                     IF s < HiddenStart
                     THEN Encrypt(contents[s], new.hashedKey, s)
                     ELSE Encrypt(Encrypt(contents[s], new.hashedKey, s), new.hashedHiddenKey, s)]
  PROVE  /\ contents = Original => result = Twice(new)
         /\ contents # Original => Lost(result[NumSectors], new)
<1>1. ASSUME contents = Original PROVE result = Twice(new)
  <2>1. \A s \in Sectors : contents[s] = Plaintext /\ Once(new)[s] = Encrypt(Plaintext, new.hashedKey, s)
    BY <1>1 DEF Original, Once
  <2>. QED BY <2>1 DEF Twice
<1>2. ASSUME contents # Original PROVE Lost(result[NumSectors], new)
  <2>. DEFINE last == contents[NumSectors]
              one == Encrypt(last, new.hashedKey, NumSectors)
              salt == new.hashedKey.salt
  <2>1. NumSectors \in Sectors /\ NumSectors \in Nat /\ ~(NumSectors < HiddenStart)
    BY LastSector
  <2>2. /\ new.hashedKey \in Keys /\ new.hashedHiddenKey \in Keys
        /\ salt \in Nat /\ new.hashedHiddenKey.salt \in Nat /\ last \in Contents
    BY <2>1 DEF Header, Keys
  <2>3. OldLayer(last, salt)
    BY <1>2, <2>1, <2>2, NotOriginal, SomeLayer
  <2>4. salt <= new.hashedKey.salt /\ salt <= new.hashedHiddenKey.salt
    BY <2>2
  <2>5. OldLayer(one, salt)
    BY <2>1, <2>2, <2>3, <2>4, OldLayerStays
  <2>6. one \in Contents
    BY <2>1, <2>2, CipherType
  <2>7. result[NumSectors] = Encrypt(one, new.hashedHiddenKey, NumSectors)
    BY <2>1
  <2>. HIDE DEF one
  <2>8. OldLayer(result[NumSectors], salt)
    BY <2>1, <2>2, <2>4, <2>5, <2>6, <2>7, OldLayerStays
  <2>9. result[NumSectors] \in Contents
    BY <2>1, <2>2, <2>6, <2>7, CipherType
  <2>10. \A key \in NamedKeys(new) : salt <= key.salt
    BY <2>4 DEF NamedKeys
  <2>. QED BY <2>2, <2>8, <2>9, <2>10, OldLayerLost
<1>. QED BY <1>1, <1>2

-----------------------------------------------------------------------------
(* The invariant.                                                          *)
(*                                                                         *)
(* The phase is read off the drive as the last command left it, while the  *)
(* next one rewrites it. The invariant says what the running command has   *)
(* kept of that drive, that it was given the owner's password if it needed *)
(* one, and that its new keys are younger than all the drive's: a layer    *)
(* under a new key cancels none, and none of the old keys is named by the  *)
(* new header.                                                             *)

Was == Decode(committed.sector0)
Is == Decode(sector0)

Younger(h) ==
  /\ \A s \in Sectors : LayersBefore(committed.data[s], h.hashedKey.salt)
  /\ Was.hashedKey.salt < h.hashedKey.salt
  /\ h.hashedKey.salt < nextSalt
  /\ h.hasHidden =>
       h.hashedKey.salt < h.hashedHiddenKey.salt /\ h.hashedHiddenKey.salt < nextSalt

NewOwner(j, h) ==
  /\ h.hashedKey.password = IF j.command = "ChangePasswordPro" THEN j.other ELSE j.password
  /\ h.hasHidden <=> j.command = "EncryptWithHidden"

(* The command may act on the drive: EncryptPro's check, and Authenticate. *)
Allowed(j) ==
  /\ j.command = "EncryptPro" => ~Was.magic
  /\ j.command \in {"DecryptPro", "ChangePasswordPro"} =>
       Was.magic /\ j.key = Was.hashedKey /\ j.key.password = j.password

Underway(j) ==
  /\ IF j.command = "DecryptPro"
     THEN sector0 = committed.sector0
     ELSE Younger(Is) /\ NewOwner(j, Is)
  /\ base = IF j.pass = 1
            THEN committed.data
            ELSE [s \in Sectors |-> Encrypt(committed.data[s], j.key, s)]

Ready(p) ==
  /\ pc[p] = "stamp" \/ InLoop(p) => Allowed(job[p])
  /\ InLoop(p) => Underway(job[p])

AtRest == (\A p \in Procs : ~InLoop(p)) => sector0 = committed.sector0 /\ data = committed.data

LeftInv ==
  /\ DriveInv(committed.data, Was)
  /\ \A s \in Sectors : LayersBefore(committed.data[s], nextSalt)
  /\ Was.hashedKey.salt < nextSalt

LifeInv ==
  /\ LeftInv
  /\ AtRest
  /\ \A p \in Procs : Ready(p)

NoFaults == FaultKinds = {}

LEMMA FaultFree == NoFaults => \A kind : ~Fault(kind)
BY DEF NoFaults, Fault

LEMMA InitLife == Init => LifeInv
<1>. SUFFICES ASSUME Init PROVE LifeInv
  OBVIOUS
<1>1. ~Was.hasHidden
  <2>1. committed.sector0.flags = 0
    BY DEF Init, PartitionTable
  <2>2. Was.hasHidden <=> committed.sector0.flags = 1
    BY Zenon DEF Was, Decode
  <2>. QED BY <2>1, <2>2
<1>2. Was.hashedKey.salt = 0
  BY DEF Init, Was, Decode, PartitionTable, ZeroKey, ZeroSalt, DeriveKey
<1>3. committed.data = Original
  BY DEF Init, Original
<1>4. \A s \in Sectors : LayersBefore(committed.data[s], nextSalt)
  BY <1>3 DEF Original, LayersBefore, KeysOf, Plaintext
<1>5. LeftInv
  BY <1>1, <1>2, <1>3, <1>4 DEF LeftInv, DriveInv, Readable, Init
<1>. QED BY <1>5 DEF Init, LifeInv, AtRest, Ready, InLoop

LEMMA IdleReady ==
  ASSUME NEW p \in Procs, pc[p] \in {"idle", "opened"}
  PROVE  Ready(p)
BY DEF Ready, InLoop

(* Before its loop a command finds the drive as the last one left it.      *)
LEMMA Undisturbed ==
  ASSUME IInv, LifeInv, NEW p \in Procs, pc[p] \in {"opened", "stamp"}
  PROVE  sector0 = committed.sector0 /\ data = committed.data
BY Alone DEF LifeInv, AtRest, InLoop

(* A step of p inside its command re-establishes the invariant if it does  *)
(* so for p.                                                               *)
LEMMA LifeWithin ==
  ASSUME IInv, IInv', LifeInv, NEW p \in Procs, pc[p] # "idle",
         NEW to \in Locations \ {"idle"}, Goto(p, to), UNCHANGED committed,
         nextSalt' = nextSalt \/ nextSalt' = nextSalt + 2,
         InLoop(p)' \/ (pc[p] \in {"opened", "stamp"} /\ UNCHANGED drive),
         Ready(p)'
  PROVE  LifeInv'
<1>1. pc'[p] = to /\ \A q \in Procs \ {p} : pc'[q] = "idle"
  BY Alone DEF Goto, IInv, TypeOK
<1>2. \A q \in Procs : Ready(q)'
  BY <1>1 DEF Ready, InLoop
<1>3. nextSalt \in Nat /\ nextSalt <= nextSalt' /\ Was' = Was
  BY DEF IInv, TypeOK, Was
<1>4. \A s \in Sectors : LayersBefore(committed.data[s], nextSalt')
  <2>. SUFFICES ASSUME NEW s \in Sectors, NEW key \in KeysOf(committed.data[s])
                PROVE  key.salt < nextSalt'
    BY DEF LayersBefore
  <2>1. key.salt < nextSalt
    BY DEF LifeInv, LeftInv, LayersBefore
  <2>2. key.salt \in Nat
    <3>1. committed.data[s] \in Contents
      BY DEF IInv, TypeOK
    <3>. QED BY <3>1, LayerKey DEF KeysOf
  <2>. QED BY <1>3, <2>1, <2>2
<1>5. Was.hashedKey.salt < nextSalt'
  <2>1. Was.hashedKey.salt \in Nat
    <3>1. Was \in Header
      BY HeaderTypes DEF Was, IInv, TypeOK
    <3>. QED BY <3>1 DEF Header, Keys
  <2>. QED BY <1>3, <2>1 DEF LifeInv, LeftInv
<1>6. LeftInv'
  BY <1>3, <1>4, <1>5 DEF LifeInv, LeftInv
<1>7. AtRest'
  BY Undisturbed DEF AtRest, drive
<1>. QED BY <1>2, <1>6, <1>7 DEF LifeInv

(* A command that ends before its loop leaves everything as it was.        *)
LEMMA LifeRefused ==
  ASSUME IInv, LifeInv, NEW p \in Procs, pc[p] \in {"opened", "stamp"},
         Return(p, "error"), UNCHANGED <<drive, nextSalt>>
  PROVE  LifeInv' /\ UNCHANGED committed
<1>1. \A q \in Procs : pc'[q] = "idle"
  BY Alone DEF Return, Goto, IInv, TypeOK
<1>2. UNCHANGED committed
  <2>1. committed' = [sector0 |-> committed.sector0, data |-> committed.data, last |-> committed.last]
    BY Undisturbed DEF Return, LastSuccess, drive
  <2>. QED BY <2>1 DEF IInv, TypeOK
<1>3. \A q \in Procs : Ready(q)'
  BY <1>1 DEF Ready, InLoop
<1>4. AtRest'
  BY <1>2, Undisturbed DEF AtRest, drive
<1>. QED BY <1>2, <1>3, <1>4 DEF LifeInv, LeftInv, Was

LEMMA LifeStart ==
  ASSUME IInv, IInv', LifeInv, NEW p \in Procs, NEW command \in AllCommands, NEW password, NEW other,
         NEW to \in {"opened", "stamp"}, to = "stamp" => command = "EncryptWithHidden",
         Start(p, command, password, other, to)
  PROVE  LifeInv' /\ UNCHANGED committed
<1>1. UNCHANGED <<sector0, data, nextSalt, base, committed>>
  BY DEF Start, drive, history
<1>2. CASE UNCHANGED <<handles, pc, job>>
  BY <1>1, <1>2 DEF LifeInv, LeftInv, AtRest, Ready, InLoop, Was, Is, Allowed, Underway, Younger
<1>3. CASE ~UNCHANGED <<handles, pc, job>>
  <2>1. /\ pc' = [pc EXCEPT ![p] = to]
        /\ job'[p].command = command
        /\ pc[p] = "idle"
    BY <1>3 DEF Start, Goto, IInv, TypeOK
  <2>2. pc'[p] = to /\ \A q \in Procs \ {p} : pc'[q] = pc[q] /\ job'[q] = job[q]
    BY <1>3, <2>1 DEF Start, IInv, TypeOK
  <2>3. Ready(p)'
    BY <2>1, <2>2 DEF Ready, InLoop, Allowed
  <2>4. \A q \in Procs \ {p} : Ready(q)'
    BY <1>1, <2>2 DEF LifeInv, Ready, InLoop, Allowed, Underway, Younger, Was, Is
  <2>5. AtRest'
    BY <1>1, <2>1, <2>2 DEF LifeInv, AtRest, InLoop
  <2>. QED BY <1>1, <2>3, <2>4, <2>5 DEF LifeInv, LeftInv, Was
<1>. QED BY <1>1, <1>2, <1>3

LEMMA LifeCheckNotEncrypted ==
  ASSUME NoFaults, IInv, IInv', LifeInv, NEW p \in Procs, CheckNotEncrypted(p)
  PROVE  LifeInv' /\ UNCHANGED committed
<1>1. pc[p] = "opened" /\ job[p].command = "EncryptPro" /\ UNCHANGED <<drive, nextSalt>>
  BY DEF CheckNotEncrypted
<1>2. CASE Return(p, "error")
  BY <1>1, <1>2, LifeRefused
<1>3. CASE Goto(p, "stamp") /\ UNCHANGED <<job, outcome, handles, history>>
  <2>1. ~Decode(sector0).magic
    <3>1. CASE Decode(sector0).magic /\ Return(p, "error")
      BY <1>1, <1>3, <3>1 DEF Return, Goto, IInv, TypeOK
    <3>. QED BY <1>3, <3>1, FaultFree DEF CheckNotEncrypted
  <2>2. ~Was'.magic /\ UNCHANGED <<job, committed>>
    BY <1>1, <1>3, <2>1, Undisturbed DEF Was, history
  <2>3. pc'[p] = "stamp"
    BY <1>3 DEF Goto, IInv, TypeOK
  <2>4. Ready(p)'
    BY <1>1, <2>2, <2>3 DEF Ready, InLoop, Allowed
  <2>. QED BY <1>1, <1>3, <2>2, <2>4, LifeWithin DEF Locations
<1>. QED BY <1>2, <1>3 DEF CheckNotEncrypted

(* An accepted key is the owner's.                                         *)
LEMMA AcceptedPassword ==
  ASSUME NEW h, NEW password, NEW key \in AcceptedKeys(password, h)
  PROVE  h.magic /\ key = h.hashedKey /\ key.password = password
BY DEF AcceptedKeys, deriveKeyFromPassword, verifyKey, DeriveKey

LEMMA LifeAuthenticate ==
  ASSUME NoFaults, IInv, IInv', LifeInv, NEW p \in Procs, Authenticate(p)
  PROVE  LifeInv' /\ UNCHANGED committed
<1>1. /\ pc[p] = "opened" /\ UNCHANGED <<drive, nextSalt>>
      /\ job[p].command \in {"DecryptPro", "ChangePasswordPro"}
      /\ job[p] \in Jobs
  BY JobType DEF Authenticate, IInv
<1>2. CASE Return(p, "error")
  BY <1>1, <1>2, LifeRefused
<1>3. ASSUME NEW key \in AcceptedKeys(job[p].password, Decode(sector0)),
             job' = [job EXCEPT ![p].key = key],
             Goto(p, IF job[p].command = "DecryptPro" THEN "read" ELSE "stamp"),
             UNCHANGED <<outcome, handles, faults, history>>
      PROVE  LifeInv' /\ UNCHANGED committed
  <2>1. /\ job'[p].command = job[p].command /\ job'[p].password = job[p].password
        /\ job'[p].key = key /\ job'[p].pass = 1
    BY <1>1, <1>3 DEF IInv, TypeOK, Jobs, LoopInv, Placed, AtStart
  <2>2. sector0 = committed.sector0 /\ base = committed.data /\ UNCHANGED <<sector0, base, committed>>
    BY <1>1, <1>3, Undisturbed DEF IInv, LoopInv, TransformedOnce, drive, history
  <2>3. Was.magic /\ key = Was.hashedKey /\ key.password = job[p].password
    BY <1>3, <2>2, AcceptedPassword DEF Was
  <2>4. Was' = Was
    BY <2>2 DEF Was
  <2>5. Allowed(job[p])'
    BY <1>1, <2>1, <2>3, <2>4 DEF Allowed
  <2>6. job[p].command = "DecryptPro" => Underway(job[p])'
    BY <2>1, <2>2 DEF Underway
  <2>7. pc'[p] = IF job[p].command = "DecryptPro" THEN "read" ELSE "stamp"
    BY <1>3 DEF Goto, IInv, TypeOK
  <2>8. Ready(p)'
    BY <2>5, <2>6, <2>7 DEF Ready, InLoop
  <2>. QED BY <1>1, <1>3, <2>2, <2>8, LifeWithin DEF Locations
<1>. QED BY <1>2, <1>3, FaultFree DEF Authenticate

(* The header a command writes names its owner, under fresh salts.         *)
LEMMA NewHeaderIs ==
  ASSUME NEW j \in Jobs, j.command # "DecryptPro"
  PROVE  LET h == Decode(Encode(NewHeader(j))) IN
         /\ NewOwner(j, h)
         /\ h.hashedKey.salt = nextSalt
         /\ h.hasHidden => h.hashedHiddenKey.salt = nextSalt + 1
<1>1. CASE j.command = "EncryptPro"
  <2>1. NewHeader(j) = createHeader(j.password, nextSalt)
    BY <1>1 DEF NewHeader
  <2>2. Decode(Encode(NewHeader(j))) = createHeader(j.password, nextSalt)
    BY <2>1, HeaderRoundTrip
  <2>. QED BY <1>1, <2>2 DEF createHeader, DeriveKey, NewOwner
<1>2. CASE j.command = "ChangePasswordPro"
  <2>1. NewHeader(j) = createHeader(j.other, nextSalt)
    BY <1>2 DEF NewHeader
  <2>2. Decode(Encode(NewHeader(j))) = createHeader(j.other, nextSalt)
    BY <2>1, HeaderRoundTrip
  <2>. QED BY <1>2, <2>2 DEF createHeader, DeriveKey, NewOwner
<1>3. CASE j.command = "EncryptWithHidden"
  <2>1. NewHeader(j) = createHeaderWithHidden(j.password, nextSalt, j.other, nextSalt + 1)
    BY <1>3 DEF NewHeader
  <2>2. Decode(Encode(NewHeader(j)))
          = createHeaderWithHidden(j.password, nextSalt, j.other, nextSalt + 1)
    BY <2>1, HeaderRoundTrip
  <2>. QED BY <1>3, <2>2 DEF createHeaderWithHidden, DeriveKey, NewOwner
<1>. QED BY <1>1, <1>2, <1>3 DEF Jobs, AllCommands

LEMMA LifeWriteHeader ==
  ASSUME NoFaults, IInv, IInv', LifeInv, NEW p \in Procs, WriteHeader(p)
  PROVE  LifeInv' /\ UNCHANGED committed
<1>. DEFINE j == job[p]
            h == NewHeader(j)
<1>1. pc[p] = "stamp" /\ j \in Jobs /\ j.command # "DecryptPro" /\ j.pass = 1
  BY JobType DEF WriteHeader, IInv, LoopInv, Placed, AtStart
<1>2. /\ sector0' = Encode(h)
      /\ job' = [job EXCEPT ![p] = LoopKeys(j, h)]
      /\ Goto(p, "read")
      /\ UNCHANGED <<base, committed>>
      /\ nextSalt' = nextSalt + 2
  BY FaultFree DEF WriteHeader, history
<1>3. base = committed.data
  BY <1>1, Undisturbed DEF IInv, LoopInv, TransformedOnce
<1>4. pc'[p] = "read" /\ job'[p] = LoopKeys(j, h)
  BY <1>2 DEF Goto, IInv, TypeOK
<1>5. /\ job'[p].command = j.command /\ job'[p].password = j.password
      /\ job'[p].other = j.other /\ job'[p].pass = 1
      /\ j.command = "ChangePasswordPro" => job'[p].key = j.key
  <2>1. j.command = "ChangePasswordPro" => LoopKeys(j, h).key = j.key
    BY <1>1 DEF LoopKeys, Jobs
  <2>. QED BY <1>1, <1>4, <2>1, LoopKeysKeep, LoopKeysPlace
<1>6. /\ NewOwner(j, Is')
      /\ Is'.hashedKey.salt = nextSalt
      /\ Is'.hasHidden => Is'.hashedHiddenKey.salt = nextSalt + 1
  BY <1>1, <1>2, NewHeaderIs DEF Is
<1>7. Was' = Was
  BY <1>2 DEF Was
<1>8. Younger(Is)'
  <2>1. nextSalt \in Nat
    BY DEF IInv, TypeOK
  <2>2. \A s \in Sectors : LayersBefore(committed'.data[s], Is'.hashedKey.salt)
    BY <1>2, <1>6 DEF LifeInv, LeftInv
  <2>3. Was'.hashedKey.salt < Is'.hashedKey.salt
    BY <1>6, <1>7 DEF LifeInv, LeftInv
  <2>. QED BY <1>2, <1>6, <2>1, <2>2, <2>3 DEF Younger
<1>9. NewOwner(job[p], Is)'
  BY <1>5, <1>6 DEF NewOwner
<1>10. Underway(job[p])'
  BY <1>1, <1>2, <1>3, <1>5, <1>8, <1>9 DEF Underway
<1>11. Allowed(job[p])'
  BY <1>1, <1>5, <1>7 DEF LifeInv, Ready, Allowed
<1>12. Ready(p)'
  BY <1>10, <1>11 DEF Ready
<1>13. InLoop(p)' /\ UNCHANGED committed /\ pc[p] # "idle" /\ "read" \in Locations \ {"idle"}
  BY <1>1, <1>2, <1>4 DEF InLoop, Locations
<1>. QED BY <1>2, <1>12, <1>13, LifeWithin

(* A round of a loop changes nothing the invariant speaks of.              *)
LEMMA LifeRound ==
  ASSUME IInv, IInv', LifeInv, NEW p \in Procs, InLoop(p), InLoop(p)',
         NEW to \in {"read", "write"}, Goto(p, to),
         UNCHANGED <<sector0, nextSalt, base, committed>>,
         job'[p].command = job[p].command, job'[p].password = job[p].password,
         job'[p].other = job[p].other, job'[p].key = job[p].key, job'[p].pass = job[p].pass
  PROVE  LifeInv' /\ UNCHANGED committed
<1>1. Allowed(job[p]) /\ Underway(job[p])
  BY DEF LifeInv, Ready
<1>2. Was' = Was /\ Is' = Is
  BY DEF Was, Is
<1>3. Allowed(job[p])'
  BY <1>1, <1>2 DEF Allowed
<1>4. Underway(job[p])'
  BY <1>1, <1>2 DEF Underway, Younger, NewOwner
<1>5. Ready(p)'
  BY <1>3, <1>4 DEF Ready
<1>6. pc[p] # "idle" /\ to \in Locations \ {"idle"} /\ UNCHANGED <<nextSalt, committed>>
  BY DEF InLoop, Locations
<1>. QED BY <1>5, <1>6, LifeWithin

LEMMA LifeReadSector ==
  ASSUME IInv, IInv', LifeInv, NEW p \in Procs, ReadSector(p)
  PROVE  LifeInv' /\ UNCHANGED committed
<1>0. PICK t \in At(job[p].offset) : job' = [job EXCEPT ![p].buf = data[t]]
  BY DEF ReadSector
<1>1. pc[p] = "read" /\ job[p] \in Jobs
  BY JobType DEF ReadSector, IInv
<1>2. /\ pc'[p] = "write" /\ Goto(p, "write")
      /\ job'[p] = [job[p] EXCEPT !.buf = data[t]]
      /\ UNCHANGED <<sector0, nextSalt, base, committed>>
  BY <1>0 DEF ReadSector, Goto, IInv, TypeOK, drive, env, history
<1>3. /\ job'[p].command = job[p].command /\ job'[p].password = job[p].password
      /\ job'[p].other = job[p].other /\ job'[p].key = job[p].key /\ job'[p].pass = job[p].pass
  BY <1>1, <1>2 DEF Jobs
<1>. QED BY <1>1, <1>2, <1>3, LifeRound DEF InLoop

LEMMA LifeWriteSector ==
  ASSUME NoFaults, IInv, IInv', LifeInv, NEW p \in Procs, WriteSector(p)
  PROVE  LifeInv' /\ UNCHANGED committed
<1>1. pc[p] = "write" /\ job[p] \in Jobs
  BY JobType DEF WriteSector, IInv
<1>2. /\ pc'[p] = "read" /\ Goto(p, "read")
      /\ job'[p] = Advance(job[p])
      /\ UNCHANGED <<sector0, nextSalt, base, committed>>
  BY FaultFree DEF WriteSector, Goto, IInv, TypeOK, history
<1>3. /\ job'[p].command = job[p].command /\ job'[p].password = job[p].password
      /\ job'[p].other = job[p].other /\ job'[p].key = job[p].key /\ job'[p].pass = job[p].pass
  BY <1>1, <1>2, AdvancePlace DEF SameCommand
<1>. QED BY <1>1, <1>2, <1>3, LifeRound DEF InLoop

-----------------------------------------------------------------------------
(* The end of a loop.                                                      *)

LEMMA LoopDone ==
  ASSUME IInv, NEW p \in Procs, pc[p] = "read", At(job[p].offset) = {}
  PROVE  data = [s \in Sectors |-> IF FirstSector(job[p]) <= s
                                   THEN Transform(job[p], base[s], s) ELSE base[s]]
<1>. DEFINE j == job[p]
<1>1. j \in Jobs /\ InStep(j)
  BY JobType DEF IInv, LoopInv, Placed, InLoop
<1>2. FirstSector(j) \in Nat \ {0} /\ j.sectorNum \in Nat
  BY <1>1 DEF FirstSector, Jobs
<1>3. \A s \in Sectors : s \in Processed(j) <=> FirstSector(j) <= s
  <2>1. j.sectorNum \notin Sectors
    BY <1>1, <1>2, PlaceOfStep DEF InStep
  <2>2. Processed(j) = {s \in Sectors : FirstSector(j) <= s /\ s < j.sectorNum}
    BY <1>1, <1>2, PlaceOfStep DEF InStep
  <2>. QED BY <1>1, <1>2, <2>1, <2>2 DEF InStep, Sectors
<1>4. data = [s \in Sectors |-> IF s \in Processed(j) THEN Transform(j, base[s], s) ELSE base[s]]
  BY DEF IInv, LoopInv, TransformedOnce, InLoop
<1>. QED BY <1>3, <1>4

LEMMA FirstPassDone ==
  ASSUME IInv, LifeInv, NEW p \in Procs, pc[p] = "read", At(job[p].offset) = {}, job[p].pass = 1
  PROVE  data = [s \in Sectors |-> Transform(job[p], committed.data[s], s)]
<1>1. \A s \in Sectors : FirstSector(job[p]) <= s
  BY DEF FirstSector, Sectors
<1>2. base = committed.data
  BY DEF LifeInv, Ready, InLoop, Underway
<1>. QED BY <1>1, <1>2, LoopDone

LEMMA LifeSecondPass ==
  ASSUME IInv, IInv', LifeInv, NEW p \in Procs, pc[p] = "read", At(job[p].offset) = {},
         job[p].command = "EncryptWithHidden", job[p].pass = 1,
         job' = [job EXCEPT ![p] = SecondPass(job[p])],
         base' = data, UNCHANGED <<drive, pc, nextSalt, committed>>
  PROVE  LifeInv' /\ UNCHANGED committed
<1>. DEFINE j == job[p]
<1>1. j \in Jobs
  BY JobType DEF IInv
<1>2. job'[p] = SecondPass(j)
  BY DEF IInv, TypeOK
<1>3. /\ job'[p].command = j.command /\ job'[p].password = j.password
      /\ job'[p].other = j.other /\ job'[p].key = j.key /\ job'[p].pass = 2
  BY <1>1, <1>2, SecondPassPlace DEF SameCommand
<1>4. data = [s \in Sectors |-> Encrypt(committed.data[s], j.key, s)]
  BY FirstPassDone DEF Transform
<1>5. Was' = Was /\ Is' = Is
  BY DEF Was, Is, drive
<1>6. Younger(Is) /\ NewOwner(j, Is)
  BY DEF LifeInv, Ready, InLoop, Underway
<1>7. Younger(Is)' /\ NewOwner(job[p], Is)'
  BY <1>3, <1>5, <1>6 DEF Younger, NewOwner
<1>8. base' = [s \in Sectors |-> Encrypt(committed'.data[s], job'[p].key, s)]
  BY <1>3, <1>4
<1>9. Underway(job[p])' /\ Allowed(job[p])'
  <2>1. job'[p].command = "EncryptWithHidden" /\ job'[p].pass # 1
    BY <1>3
  <2>2. Underway(job[p])'
    BY <1>7, <1>8, <2>1 DEF Underway
  <2>3. Allowed(job[p])'
    BY <2>1 DEF Allowed
  <2>. QED BY <2>2, <2>3
<1>10. Ready(p)' /\ InLoop(p)'
  BY <1>9 DEF Ready, InLoop
<1>11. Goto(p, "read") /\ "read" \in Locations \ {"idle"} /\ pc[p] # "idle"
  BY DEF Goto, IInv, TypeOK, Locations
<1>12. UNCHANGED <<nextSalt, committed>>
  OBVIOUS
<1>. QED BY <1>10, <1>11, <1>12, LifeWithin

(* Every key on the drive is older than the next salt.                     *)
LEMMA TransformBefore ==
  ASSUME NEW j \in Jobs, NEW contents \in Contents, NEW s \in Nat, NEW salt \in Nat,
         LayersBefore(contents, salt), j.key.salt < salt,
         j.command \in {"ChangePasswordPro", "EncryptWithHidden"} => j.otherKey.salt < salt,
         j.command # "EncryptWithHidden" => j.pass = 1
  PROVE  LayersBefore(Transform(j, contents, s), salt)
<1>1. j.key \in Keys /\ j.otherKey \in Keys
  BY DEF Jobs
<1>2. /\ LayersBefore(Decrypt(contents, j.key, s), salt) /\ Decrypt(contents, j.key, s) \in Contents
      /\ LayersBefore(Encrypt(contents, j.key, s), salt)
  BY <1>1, LayersStayBefore, CipherType
<1>3. CASE j.command = "DecryptPro"
  BY <1>2, <1>3 DEF Transform
<1>4. CASE j.command = "EncryptPro"
  BY <1>2, <1>4 DEF Transform
<1>5. CASE j.command = "ChangePasswordPro"
  BY <1>1, <1>2, <1>5, LayersStayBefore DEF Transform
<1>6. CASE j.command = "EncryptWithHidden"
  BY <1>1, <1>2, <1>6, LayersStayBefore DEF Transform
<1>. QED BY <1>3, <1>4, <1>5, <1>6 DEF Jobs, AllCommands

(* What is known at the end of a command's last pass.                      *)
Ending(p) ==
  /\ IInv /\ KInv /\ LifeInv
  /\ pc[p] = "read"
  /\ At(job[p].offset) = {}
  /\ ~(job[p].command = "EncryptWithHidden" /\ job[p].pass = 1)

LEMMA EndingTypes ==
  ASSUME NEW p \in Procs, Ending(p)
  PROVE  /\ job[p] \in Jobs /\ Is \in Header /\ Was \in Header
         /\ committed.data \in [Sectors -> Contents] /\ base \in [Sectors -> Contents]
         /\ Allowed(job[p]) /\ Underway(job[p]) /\ KeysNamed(job[p], Is)
         /\ DriveInv(committed.data, Was)
         /\ job[p].command # "EncryptWithHidden" => job[p].pass = 1
<1>1. TypeOK
  BY DEF Ending, IInv
<1>2. Is \in Header /\ Was \in Header
  BY <1>1, HeaderTypes DEF TypeOK, Is, Was
<1>. QED
  BY <1>1, <1>2, JobType
     DEF Ending, IInv, LoopInv, InLoop, Is, LifeInv, LeftInv, Ready, TypeOK, KInv, SinglePass

LEMMA EndingKeys ==
  ASSUME NEW p \in Procs, Ending(p)
  PROVE  /\ Is.hashedKey.salt < nextSalt
         /\ job[p].key.salt < nextSalt
         /\ job[p].command \in {"ChangePasswordPro", "EncryptWithHidden"} => job[p].otherKey.salt < nextSalt
<1>. DEFINE j == job[p]
<1>1. /\ j \in Jobs /\ Allowed(j) /\ Underway(j) /\ KeysNamed(j, Is)
      /\ Was.hashedKey.salt < nextSalt
  BY EndingTypes DEF Ending, LifeInv, LeftInv
<1>2. CASE j.command = "DecryptPro"
  BY <1>1, <1>2 DEF Underway, Is, Was, Allowed
<1>3. CASE j.command # "DecryptPro"
  <2>1. Younger(Is) /\ NewOwner(j, Is)
    BY <1>1, <1>3 DEF Underway
  <2>. QED BY <1>1, <1>3, <2>1 DEF Younger, NewOwner, KeysNamed, verifyKey, Allowed, Jobs, AllCommands
<1>. QED BY <1>2, <1>3

LEMMA EndingBefore ==
  ASSUME NEW p \in Procs, Ending(p)
  PROVE  \A s \in Sectors : LayersBefore(data[s], nextSalt)
<1>. DEFINE j == job[p]
<1>. SUFFICES ASSUME NEW s \in Sectors PROVE LayersBefore(data[s], nextSalt)
  OBVIOUS
<1>1. j \in Jobs /\ j.key \in Keys /\ s \in Nat /\ nextSalt \in Nat
  BY EndingTypes DEF Sectors, Ending, IInv, TypeOK, Jobs
<1>2. LayersBefore(base[s], nextSalt) /\ base[s] \in Contents
  <2>1. committed.data[s] \in Contents /\ LayersBefore(committed.data[s], nextSalt)
    BY EndingTypes DEF Ending, LifeInv, LeftInv
  <2>2. base[s] = committed.data[s] \/ base[s] = Encrypt(committed.data[s], j.key, s)
    BY EndingTypes DEF Underway
  <2>3. base[s] \in Contents
    BY EndingTypes
  <2>. QED BY <1>1, <2>1, <2>2, <2>3, EndingKeys, LayersStayBefore
<1>3. LayersBefore(Transform(j, base[s], s), nextSalt)
  BY <1>1, <1>2, EndingKeys, EndingTypes, TransformBefore
<1>4. data[s] = Transform(j, base[s], s) \/ data[s] = base[s]
  BY LoopDone DEF Ending
<1>. QED BY <1>2, <1>3, <1>4

LEMMA EndSeal ==
  ASSUME Large, NEW p \in Procs, Ending(p), job[p].command = "EncryptPro"
  PROVE  ~Was.magic /\ Is.magic /\ ~Is.hasHidden /\ data = Once(Is)
<1>1. /\ ~Was.magic /\ Is.magic /\ ~Is.hasHidden
      /\ job[p].key = Is.hashedKey /\ job[p].pass = 1
  BY EndingTypes DEF Allowed, Underway, NewOwner, KeysNamed, verifyKey
<1>2. committed.data = Original
  BY <1>1, EndingTypes DEF DriveInv, Readable
<1>3. data = [s \in Sectors |-> Transform(job[p], committed.data[s], s)]
  BY <1>1, FirstPassDone DEF Ending
<1>4. data = [s \in Sectors |-> Encrypt(Plaintext, Is.hashedKey, s)]
  BY <1>1, <1>2, <1>3 DEF Original, Transform
<1>. QED BY <1>1, <1>4 DEF Once

LEMMA EndHide ==
  ASSUME Large, NEW p \in Procs, Ending(p), job[p].command = "EncryptWithHidden"
  PROVE  /\ Is.magic /\ Is.hasHidden /\ Is.hashedKey # Is.hashedHiddenKey
         /\ committed.data = Original => data = Twice(Is)
         /\ committed.data # Original => Lost(data[NumSectors], Is)
<1>. DEFINE j == job[p]
<1>1. /\ Is.magic /\ Is.hasHidden /\ j.key = Is.hashedKey /\ j.otherKey = Is.hashedHiddenKey
      /\ j.pass = 2 /\ Younger(Is)
  BY EndingTypes DEF Underway, KeysNamed, verifyKey, Ending, Jobs
<1>2. Is.hashedKey.salt < Is.hashedHiddenKey.salt
  BY <1>1 DEF Younger
<1>3. Is.hashedKey # Is.hashedHiddenKey
  <2>1. Is.hashedKey.salt \in Nat
    BY EndingTypes DEF Header, Keys
  <2>. QED BY <1>2, <2>1
<1>4. base = [s \in Sectors |-> Encrypt(committed.data[s], Is.hashedKey, s)]
  BY <1>1, EndingTypes DEF Underway
<1>5. data = [s \in Sectors |-> IF HiddenStart <= s THEN Transform(j, base[s], s) ELSE base[s]]
  BY <1>1, LoopDone DEF Ending, FirstSector
<1>6. data = [s \in Sectors |->
                IF s < HiddenStart
                THEN Encrypt(committed.data[s], Is.hashedKey, s)
                ELSE Encrypt(Encrypt(committed.data[s], Is.hashedKey, s), Is.hashedHiddenKey, s)]
  <2>1. \A s \in Sectors : Transform(j, base[s], s) = Encrypt(base[s], Is.hashedHiddenKey, s)
    BY <1>1 DEF Transform
  <2>2. \A s \in Sectors : s < HiddenStart <=> ~(HiddenStart <= s)
    BY DEF Sectors
  <2>. QED BY <1>4, <1>5, <2>1, <2>2
<1>7. \A s \in Sectors : LayersBefore(committed.data[s], Is.hashedKey.salt)
  BY <1>1 DEF Younger
<1>. QED BY <1>1, <1>2, <1>3, <1>6, <1>7, EndingTypes, HideDrive

LEMMA EndRekey ==
  ASSUME Large, NEW p \in Procs, Ending(p), job[p].command = "ChangePasswordPro"
  PROVE  /\ Was.magic /\ Is.magic /\ ~Is.hasHidden
         /\ Sealed(committed.data, Was) => data = Once(Is)
         /\ ~Sealed(committed.data, Was) => Lost(data[NumSectors], Is)
<1>. DEFINE j == job[p]
<1>1. /\ Is.magic /\ ~Is.hasHidden /\ j.otherKey = Is.hashedKey /\ j.pass = 1 /\ Younger(Is)
      /\ Was.magic /\ j.key = Was.hashedKey
  BY EndingTypes DEF Underway, NewOwner, KeysNamed, verifyKey, Allowed
<1>2. data = [s \in Sectors |-> Transform(j, committed.data[s], s)]
  BY <1>1, FirstPassDone DEF Ending
<1>3. data = [s \in Sectors |-> Encrypt(Decrypt(committed.data[s], Was.hashedKey, s), Is.hashedKey, s)]
  BY <1>1, <1>2 DEF Transform
<1>4. /\ \A s \in Sectors : LayersBefore(committed.data[s], Is.hashedKey.salt)
      /\ Was.hashedKey.salt < Is.hashedKey.salt
  BY <1>1 DEF Younger
<1>. QED BY <1>1, <1>3, <1>4, EndingTypes, RekeyDrive

LEMMA EndOpen ==
  ASSUME Large, NEW p \in Procs, Ending(p), job[p].command = "DecryptPro"
  PROVE  /\ Was.magic /\ Is = Was
         /\ Sealed(committed.data, Was) => data = Original
         /\ ~Sealed(committed.data, Was) => Lost(data[NumSectors], Was)
<1>1. /\ Is = Was /\ Was.magic /\ job[p].key = Was.hashedKey /\ job[p].pass = 1
  BY EndingTypes DEF Underway, Allowed, Is, Was
<1>2. data = [s \in Sectors |-> Transform(job[p], committed.data[s], s)]
  BY <1>1, FirstPassDone DEF Ending
<1>3. data = [s \in Sectors |-> Decrypt(committed.data[s], Was.hashedKey, s)]
  BY <1>1, <1>2 DEF Transform
<1>. QED BY <1>1, <1>3, EndingTypes, OpenDrive

(* The four commands leave a drive that is readable or lost.               *)
LEMMA EndDrive ==
  ASSUME Large, NEW p \in Procs, Ending(p)
  PROVE  DriveInv(data, Is)
<1>1. CASE job[p].command = "EncryptPro"
  BY <1>1, EndSeal DEF DriveInv, Readable
<1>2. CASE job[p].command = "EncryptWithHidden"
  BY <1>2, EndHide DEF DriveInv, Readable
<1>3. CASE job[p].command = "ChangePasswordPro"
  BY <1>3, EndRekey DEF DriveInv, Readable
<1>4. CASE job[p].command = "DecryptPro"
  BY <1>4, EndOpen, EndingTypes DEF DriveInv, Readable
<1>. QED BY <1>1, <1>2, <1>3, <1>4, EndingTypes DEF Jobs, AllCommands

(* Which phases the commands tell apart.                                   *)
LEMMA PhasesApart ==
  ASSUME Large, NEW left, NEW h, h = Decode(left.sector0), DriveInv(left.data, h)
  PROVE  /\ PhaseOf(left) = "plain" <=> ~h.magic
         /\ h.magic => (PhaseOf(left) = "sealed" <=> Sealed(left.data, h))
         /\ PhaseOf(left) \in {"plain", "opened"} <=> left.data = Original
<1>1. \/ ~h.magic
      \/ h.magic /\ left.data = Original
      \/ h.magic /\ Sealed(left.data, h)
      \/ h.magic /\ h.hasHidden /\ left.data = Twice(h)
      \/ h.magic /\ Lost(left.data[NumSectors], h)
  BY DEF DriveInv, Readable, Sealed
<1>. QED BY <1>1, Phases

LEMMA LifeReturn ==
  ASSUME Large, NEW p \in Procs, Ending(p), Return(p, "ok"), UNCHANGED <<drive, nextSalt>>
  PROVE  LifeInv' /\ Lifecycle!Next
<1>. DEFINE j == job[p]
            left == [sector0 |-> sector0, data |-> data,
                     last |-> [command |-> j.command, password |-> j.password]]
<1>1. committed' = left /\ Was' = Is
  BY DEF Return, LastSuccess, drive, Was, Is
<1>2. \A q \in Procs : pc'[q] = "idle"
  BY Alone DEF Ending, Return, Goto, IInv, TypeOK
<1>3. LifeInv'
  <2>1. \A q \in Procs : Ready(q)'
    BY <1>2 DEF Ready, InLoop
  <2>2. AtRest'
    BY <1>1 DEF AtRest, drive
  <2>3. DriveInv(left.data, Is) /\ \A s \in Sectors : LayersBefore(left.data[s], nextSalt)
    BY EndDrive, EndingBefore
  <2>4. LeftInv'
    BY <1>1, <2>3, EndingKeys DEF LeftInv
  <2>. QED BY <2>1, <2>2, <2>4 DEF LifeInv
<1>4. /\ j \in Jobs /\ j.password \in Passwords /\ j.other \in Passwords
      /\ j.command # "DecryptPro" => NewOwner(j, Is)
      /\ j.command \in {"DecryptPro", "ChangePasswordPro"} => Was.hashedKey.password = j.password
  BY EndingTypes DEF Jobs, Underway, Allowed
<1>5. /\ DriveInv(committed.data, Decode(committed.sector0))
      /\ DriveInv(left.data, Decode(left.sector0))
  BY EndDrive, EndingTypes DEF Was, Is
<1>. DEFINE before == PhaseOf(committed)
            after == PhaseOf(left)
<1>6. /\ Is.magic /\ Sealed(data, Is) => after = "sealed"
      /\ Is.magic /\ data = Original => after = "opened"
      /\ Is.magic /\ Is.hasHidden /\ data = Twice(Is) => after = "nested"
      /\ Is.magic /\ Lost(data[NumSectors], Is) => after = "scrambled"
  BY <1>5, Phases DEF Is
<1>7. /\ before = "plain" <=> ~Was.magic
      /\ Was.magic => (before = "sealed" <=> Sealed(committed.data, Was))
      /\ before \in {"plain", "opened"} <=> committed.data = Original
  BY <1>5, PhasesApart DEF Was
<1>8. /\ PhaseOf(committed)' = after
      /\ (Decode(committed.sector0).hashedKey.password)' = Is.hashedKey.password
      /\ committed'.last = [command |-> j.command, password |-> j.password]
  BY <1>1 DEF Is
<1>9. Was.hashedKey.password = Decode(committed.sector0).hashedKey.password
  BY DEF Was
<1>. HIDE DEF before, after, left
<1>10. CASE j.command = "EncryptPro"
  <2>1. before = "plain" /\ after = "sealed"
    BY <1>6, <1>7, <1>10, EndSeal DEF Sealed
  <2>2. Lifecycle!Seal(j.password)
    BY <1>4, <1>8, <1>10, <2>1 DEF Lifecycle!Seal, Lifecycle!Ran, NewOwner, before
  <2>. QED BY <1>3, <1>4, <2>2 DEF Lifecycle!Next
<1>11. CASE j.command = "EncryptWithHidden"
  <2>1. after = IF before \in {"plain", "opened"} THEN "nested" ELSE "scrambled"
    BY <1>6, <1>7, <1>11, EndHide
  <2>2. Lifecycle!SealHidden(j.password)
    BY <1>4, <1>8, <1>11, <2>1 DEF Lifecycle!SealHidden, Lifecycle!Ran, NewOwner, before
  <2>. QED BY <1>3, <1>4, <2>2 DEF Lifecycle!Next
<1>12. CASE j.command = "ChangePasswordPro"
  <2>1. before # "plain" /\ after = IF before = "sealed" THEN "sealed" ELSE "scrambled"
    BY <1>6, <1>7, <1>12, EndRekey DEF Sealed
  <2>2. Lifecycle!Rekey(j.password, j.other)
    BY <1>4, <1>8, <1>9, <1>12, <2>1 DEF Lifecycle!Rekey, Lifecycle!Ran, NewOwner, before
  <2>. QED BY <1>3, <1>4, <2>2 DEF Lifecycle!Next
<1>13. CASE j.command = "DecryptPro"
  <2>1. before # "plain" /\ after = IF before = "sealed" THEN "opened" ELSE "scrambled"
    BY <1>6, <1>7, <1>13, EndOpen
  <2>2. Is.hashedKey.password = Was.hashedKey.password
    BY <1>13, EndOpen
  <2>3. Lifecycle!Open(j.password)
    BY <1>4, <1>8, <1>9, <1>13, <2>1, <2>2 DEF Lifecycle!Open, Lifecycle!Ran, before
  <2>. QED BY <1>3, <1>4, <2>3 DEF Lifecycle!Next
<1>. QED BY <1>3, <1>4, <1>10, <1>11, <1>12, <1>13 DEF Jobs, AllCommands

LEMMA LifeLeaveLoop ==
  ASSUME NoFaults, Large, IInv, IInv', KInv, LifeInv, NEW p \in Procs, LeaveLoop(p)
  PROVE  LifeInv' /\ (UNCHANGED committed \/ Lifecycle!Next)
<1>1. pc[p] = "read" /\ At(job[p].offset) = {} /\ UNCHANGED <<drive, nextSalt>>
  BY FaultFree DEF LeaveLoop
<1>2. CASE /\ job[p].command = "EncryptWithHidden" /\ job[p].pass = 1
           /\ job' = [job EXCEPT ![p] = SecondPass(job[p])]
           /\ base' = data
           /\ UNCHANGED <<pc, outcome, handles, committed>>
  BY <1>1, <1>2, LifeSecondPass
<1>3. CASE ~(job[p].command = "EncryptWithHidden" /\ job[p].pass = 1) /\ Return(p, "ok")
  BY <1>1, <1>3, LifeReturn DEF Ending
<1>. QED BY <1>2, <1>3 DEF LeaveLoop

LEMMA LifeNext ==
  ASSUME NoFaults, Large, IInv, IInv', KInv, LifeInv, [Next]_vars
  PROVE  LifeInv' /\ (UNCHANGED committed \/ Lifecycle!Next)
<1>1. ASSUME NEW p \in Procs, NEW password \in Passwords, NEW other \in Passwords,
             \/ StartEncryptPro(p, password) \/ StartDecryptPro(p, password)
             \/ StartChangePasswordPro(p, password, other)
             \/ StartEncryptWithHidden(p, password, other)
      PROVE  LifeInv' /\ UNCHANGED committed
  BY <1>1, LifeStart DEF StartEncryptPro, StartDecryptPro, StartChangePasswordPro,
     StartEncryptWithHidden, AllCommands
<1>2. ASSUME NEW p \in Procs, Proceed(p)
      PROVE  LifeInv' /\ (UNCHANGED committed \/ Lifecycle!Next)
  BY <1>2, LifeCheckNotEncrypted, LifeAuthenticate, LifeWriteHeader, LifeReadSector,
     LifeLeaveLoop, LifeWriteSector DEF Proceed
<1>3. ASSUME NEW p \in Procs PROVE ~Kill(p)
  BY FaultFree DEF Kill
<1>4. CASE UNCHANGED vars
  BY <1>4 DEF vars, env, history, LifeInv, LeftInv, AtRest, Ready, InLoop, Was, Is, Allowed,
     Underway, Younger
<1>. QED BY <1>1, <1>2, <1>3, <1>4 DEF Next

(* Where opens are exclusive, nothing fails or is killed, and the drive is *)
(* large enough to have a hidden region, every sequence of the four        *)
(* commands, however they overlap, has exactly the effects of              *)
(* DriveLifecycle: each command that reports success is one abstract step, *)
(* and every other step is invisible. (EncryptPro, EncryptWithHidden,      *)
(* ChangePasswordPro and DecryptPro of drive.go.)                          *)
THEOREM LifecycleImplemented ==
  ExclusiveOpen /\ NoFaults /\ Large => (Spec => ImplementsLifecycle)
<1>. SUFFICES ASSUME ExclusiveOpen, NoFaults, Large PROVE Spec => ImplementsLifecycle
  OBVIOUS
<1>1. Init => LifeInv
  BY InitLife
<1>2. IInv /\ IInv' /\ KInv /\ LifeInv /\ [Next]_vars => LifeInv'
  BY LifeNext
<1>3. (Spec => []IInv) /\ (Spec => []KInv)
  BY Inductive, KInvInductive
<1>4. Spec => []LifeInv
  BY <1>1, <1>2, <1>3, PTL DEF Spec
<1>5. IInv /\ Init => Lifecycle!Init
  <2>. SUFFICES ASSUME IInv, Init PROVE Lifecycle!Init
    OBVIOUS
  <2>1. LifeInv
    BY InitLife
  <2>2. ~Decode(committed.sector0).magic /\ committed.last = NoCommand
    BY DEF Init, Decode, PartitionTable
  <2>3. PhaseOf(committed) = "plain"
    BY <2>1, <2>2, PhasesApart DEF LifeInv, LeftInv, Was
  <2>4. Decode(committed.sector0).hashedKey.password = NoPassword
    BY DEF Init, Decode, PartitionTable, ZeroKey, DeriveKey
  <2>. QED BY <2>2, <2>3, <2>4 DEF Lifecycle!Init, Lifecycle!Ran, NoCommand
<1>6. IInv /\ IInv' /\ KInv /\ LifeInv /\ [Next]_vars => [Lifecycle!Next]_(Lifecycle!vars)
  <2>. SUFFICES ASSUME IInv, IInv', KInv, LifeInv, [Next]_vars
                PROVE  Lifecycle!Next \/ UNCHANGED Lifecycle!vars
    OBVIOUS
  <2>1. UNCHANGED committed => UNCHANGED Lifecycle!vars
    BY DEF Lifecycle!vars
  <2>. QED BY <2>1, LifeNext
<1>. QED BY <1>3, <1>4, <1>5, <1>6, PTL DEF Spec, ImplementsLifecycle, Lifecycle!Spec

=============================================================================
