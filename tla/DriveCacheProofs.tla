-------------------------- MODULE DriveCacheProofs --------------------------
(***************************************************************************)
(* Proofs about DriveCache: a drive with a write cache, any power cuts.    *)
(***************************************************************************)
EXTENDS DriveCache, ProDriveKeyProofs

USE DriveAssumption, NoPasswordAssumption, CacheAssumption

-----------------------------------------------------------------------------
(* Type correctness.                                                       *)

LEMMA MediumType ==
  CacheTypeOK => medium.sector0 \in RawSector /\ medium.data \in [Sectors -> Contents]
BY DEF CacheTypeOK

LEMMA LossType ==
  ASSUME loss \in Losses, Watch
  PROVE  loss' \in Losses
BY DEF Watch, Losses

LEMMA PowerCutType ==
  ASSUME CacheTypeOK, PowerCut
  PROVE  CacheTypeOK'
<1>1. sector0' \in RawSector /\ data' \in [Sectors -> Contents]
  BY MediumType DEF PowerCut
<1>2. committed' \in [sector0 : RawSector, data : [Sectors -> Contents], last : CommandsRun]
  BY <1>1 DEF PowerCut, CacheTypeOK, TypeOK
<1>3. /\ pc' \in [Procs -> Locations]
      /\ job' \in [Procs -> Jobs \union {NoJob}]
      /\ \A p \in Procs : job'[p] = NoJob /\ pc'[p] = "idle"
  BY DEF PowerCut, Locations
<1>4. outcome' \in [Procs -> {"none", "ok", "error", "killed"}]
  BY DEF PowerCut, CacheTypeOK, TypeOK
<1>5. TypeOK'
  BY <1>1, <1>2, <1>3, <1>4 DEF PowerCut, CacheTypeOK, TypeOK, env
<1>6. cuts' \in 0 .. MaxPowerCuts /\ loss' \in Losses
  BY DEF PowerCut, CacheTypeOK, Losses
<1>. QED BY <1>5, <1>6 DEF PowerCut, CacheTypeOK

LEMMA CacheTypeStep ==
  ASSUME CacheTypeOK, [CacheNext]_cacheVars
  PROVE  CacheTypeOK'
<1>1. CASE Command
  <2>1. TypeOK'
    BY <1>1, TypeStep DEF Command, CacheTypeOK
  <2>2. syncing' \subseteq {p \in Procs : pc'[p] = "read"}
    BY <1>1 DEF Command, Wrote, StillSyncing, CacheTypeOK
  <2>. QED BY <1>1, <2>1, <2>2, LossType DEF Command, CacheTypeOK
<1>2. ASSUME NEW p \in Procs, Sync(p)
      PROVE  CacheTypeOK'
  <2>1. TypeOK' /\ UNCHANGED <<vars, cuts>> /\ pc' = pc
    BY <1>2 DEF Sync, CacheTypeOK, vars, env, history, TypeOK
  <2>2. medium' \in [sector0 : RawSector, data : [Sectors -> Contents]]
    BY <1>2 DEF Sync, CacheTypeOK, TypeOK
  <2>. QED BY <1>2, <2>1, <2>2, LossType DEF Sync, CacheTypeOK
<1>3. CASE Destage
  <2>1. TypeOK' /\ UNCHANGED <<syncing, cuts>> /\ pc' = pc
    BY <1>3 DEF Destage, CacheTypeOK, vars, env, history, TypeOK
  <2>2. medium' \in [sector0 : RawSector, data : [Sectors -> Contents]]
    BY <1>3 DEF Destage, CacheTypeOK, TypeOK
  <2>. QED BY <1>3, <2>1, <2>2, LossType DEF Destage, CacheTypeOK
<1>4. CASE PowerCut
  BY <1>4, PowerCutType
<1>5. CASE UNCHANGED cacheVars
  BY <1>5 DEF cacheVars, vars, env, history, CacheTypeOK, TypeOK
<1>. QED BY <1>1, <1>2, <1>3, <1>4, <1>5 DEF CacheNext

(* The types of the drive hold with its cache and its medium, also after   *)
(* power cuts.                                                             *)
THEOREM CacheTypeCorrect == CacheSpec => []CacheTypeOK
<1>1. CacheInit => CacheTypeOK
  BY InitType DEF CacheInit, CacheTypeOK, TypeOK, Losses
<1>2. CacheTypeOK /\ [CacheNext]_cacheVars => CacheTypeOK'
  BY CacheTypeStep
<1>. QED BY <1>1, <1>2, PTL DEF CacheSpec

-----------------------------------------------------------------------------
(* Only a lost header loses keys.                                          *)
(*                                                                         *)
(* The sectors on the medium may be older than those in the cache, each    *)
(* one by itself, and so may its header. Until a header is lost they are   *)
(* under keys that the newest header names, wherever that one is: it was   *)
(* put on a drive of plaintext. And as long as no header is pending, one   *)
(* that is in the cache only is still waited for, so nothing has been      *)
(* rewritten under it. What is true of the drive (KInv, SealInv) is then   *)
(* true of the medium, which a power cut turns into the drive.             *)

AllPlaintext == [s \in Sectors |-> Plaintext]

MediumInv ==
  /\ LET h == Decode(sector0) IN
     \A s \in Sectors : KeysOf(medium.data[s]) \subseteq {h.hashedKey, h.hashedHiddenKey}
  /\ \A s \in Sectors : EncryptedOnce(medium.data[s])
  /\ ~Decode(sector0).magic => medium.data = AllPlaintext
  /\ (loss = "none" /\ medium.sector0 # sector0) =>
       syncing # {} /\ data = AllPlaintext /\ medium.data = AllPlaintext

Kept == loss # "done" => KInv /\ SealInv /\ MediumInv

CacheInv == CacheTypeOK /\ IInv /\ Kept

(* Apart from a power cut, everything is a step of ProDrive or none.       *)
LEMMA CacheSteps ==
  ASSUME [CacheNext]_cacheVars
  PROVE  [Next]_vars \/ PowerCut
BY DEF CacheNext, cacheVars, Command, Sync, Destage

LEMMA PowerCutIInv ==
  ASSUME CacheTypeOK', PowerCut
  PROVE  IInv'
<1>1. \A p \in Procs : pc'[p] = "idle"
  BY DEF PowerCut
<1>2. OneHolder'
  BY <1>1 DEF PowerCut, OneHolder
<1>3. Settled'
  BY DEF PowerCut, Settled
<1>4. \A p \in Procs : LoopInv(p)'
  BY <1>1 DEF LoopInv, Placed, TransformedOnce, InLoop
<1>. QED BY <1>1, <1>2, <1>3, <1>4 DEF IInv, CacheTypeOK

(* Nobody rewrites the drive while an fsync is outstanding.                *)
LEMMA NobodyWaits ==
  ASSUME CacheInv, NEW p \in Procs, Stamps(p) \/ Rewrites(p)
  PROVE  syncing = {}
<1>1. pc[p] \in {"stamp", "write"}
  BY DEF Stamps, Rewrites
<1>2. \A q \in Procs \ {p} : pc[q] = "idle"
  BY <1>1, Alone DEF CacheInv
<1>. QED BY <1>1, <1>2 DEF CacheInv, CacheTypeOK

(* Plaintext is under no keys.                                             *)
LEMMA PlaintextIsFine ==
  ASSUME NEW contents, contents = AllPlaintext
  PROVE  \A s \in Sectors : KeysOf(contents[s]) = {} /\ EncryptedOnce(contents[s])
<1>1. \A s \in Sectors : contents[s] = <<>>
  BY DEF AllPlaintext, Plaintext
<1>. QED BY <1>1 DEF KeysOf, EncryptedOnce

LEMMA MediumCommand ==
  ASSUME CacheInv, loss # "done", KInv, SealInv, MediumInv, Command
  PROVE  MediumInv'
<1>1. /\ UNCHANGED medium /\ Watch
      /\ {q \in Procs : Wrote(q)} \subseteq syncing'
      /\ IInv /\ [Next]_vars
  BY DEF Command, CacheInv
<1>2. CASE UNCHANGED drive
  <2>1. /\ UNCHANGED <<sector0, data>>
        /\ loss' = "none" /\ medium.sector0 # sector0 => loss = "none" /\ syncing \subseteq syncing'
    BY <1>1, <1>2 DEF Watch, drive
  <2>. QED BY <1>1, <2>1 DEF MediumInv
<1>3. ASSUME NEW p \in Procs, Stamps(p)
      PROVE  MediumInv'
  <2>1. ~Decode(sector0).magic /\ data' = data
    BY <1>3 DEF Stamps, SealInv, OnlyThem
  <2>2. data' = AllPlaintext /\ medium'.data = AllPlaintext
    BY <1>1, <2>1 DEF KInv, Untouched, AllPlaintext, MediumInv
  <2>3. p \in syncing'
    BY <1>1, <1>3 DEF Wrote, Stamps
  <2>. QED BY <2>2, <2>3, PlaintextIsFine DEF MediumInv
<1>4. ASSUME NEW p \in Procs, Rewrites(p)
      PROVE  MediumInv'
  <2>1. syncing = {} /\ sector0' = sector0
    BY <1>4, NobodyWaits DEF Rewrites
  <2>2. loss' = "none" => medium.sector0 = sector0
    BY <1>1, <2>1 DEF Watch, MediumInv
  <2>. QED BY <1>1, <2>1, <2>2 DEF MediumInv
<1>. QED BY <1>1, <1>2, <1>3, <1>4, DriveSteps

LEMMA MediumSync ==
  ASSUME CacheInv, loss # "done", KInv, SealInv, MediumInv, NEW p \in Procs, Sync(p)
  PROVE  MediumInv'
<1>1. UNCHANGED <<sector0, data>> /\ Watch /\ syncing \ syncing' # {}
  BY DEF Sync, vars
<1>2. CASE medium' = [sector0 |-> sector0, data |-> data]
  <2>1. medium'.sector0 = sector0' /\ medium'.data = data
    BY <1>1, <1>2
  <2>. QED BY <1>1, <2>1 DEF MediumInv, KInv, Untouched, SealInv, NamedByHeader, AllPlaintext
<1>3. CASE UNCHANGED medium
  <2>1. loss' = "none" => medium'.sector0 = sector0'
    BY <1>1 DEF Watch
  <2>. QED BY <1>1, <1>3, <2>1 DEF MediumInv
<1>. QED BY <1>2, <1>3 DEF Sync

LEMMA MediumDestage ==
  ASSUME CacheInv, loss # "done", KInv, SealInv, MediumInv, Destage
  PROVE  MediumInv'
<1>1. /\ UNCHANGED <<sector0, data, syncing>> /\ Watch
      /\ medium.data \in [Sectors -> Contents] /\ data \in [Sectors -> Contents]
  BY MediumType DEF Destage, vars, CacheInv, CacheTypeOK, TypeOK
<1>2. CASE medium' = [medium EXCEPT !.sector0 = sector0]
  <2>1. medium'.sector0 = sector0' /\ medium'.data = medium.data
    BY <1>1, <1>2, MediumType DEF CacheInv, CacheTypeOK
  <2>. QED BY <1>1, <2>1 DEF MediumInv
<1>3. ASSUME NEW t \in Sectors, medium' = [medium EXCEPT !.data[t] = data[t]]
      PROVE  MediumInv'
  <2>1. /\ medium'.sector0 = medium.sector0
        /\ \A s \in Sectors : medium'.data[s] = IF s = t THEN data[s] ELSE medium.data[s]
        /\ medium'.data \in [Sectors -> Contents]
    BY <1>1, <1>3 DEF CacheInv, CacheTypeOK
  <2>2. data = AllPlaintext /\ medium.data = AllPlaintext => medium'.data = AllPlaintext
    BY <2>1 DEF AllPlaintext
  <2>3. /\ LET h == Decode(sector0') IN
           \A s \in Sectors : KeysOf(medium'.data[s]) \subseteq {h.hashedKey, h.hashedHiddenKey}
        /\ \A s \in Sectors : EncryptedOnce(medium'.data[s])
    BY <1>1, <2>1 DEF MediumInv, SealInv, NamedByHeader
  <2>4. ~Decode(sector0').magic => medium'.data = AllPlaintext
    BY <1>1, <2>2 DEF KInv, Untouched, MediumInv, AllPlaintext
  <2>5. loss' = "none" /\ medium'.sector0 # sector0' => loss = "none" /\ medium.sector0 # sector0
    BY <1>1, <2>1 DEF Watch
  <2>. QED BY <1>1, <2>2, <2>3, <2>4, <2>5 DEF MediumInv
<1>. QED BY <1>2, <1>3 DEF Destage

LEMMA PowerCutKept ==
  ASSUME CacheInv, PowerCut
  PROVE  Kept'
<1>. SUFFICES ASSUME loss' # "done" PROVE (KInv /\ SealInv /\ MediumInv)'
  BY DEF Kept
<1>1. loss = "none" /\ KInv /\ SealInv /\ MediumInv
  BY DEF PowerCut, CacheInv, Kept, CacheTypeOK, Losses
<1>2. /\ sector0' = medium.sector0 /\ data' = medium.data /\ UNCHANGED medium
      /\ \A p \in Procs : pc'[p] = "idle"
  BY DEF PowerCut
<1>3. /\ LET h == Decode(sector0') IN
         \A s \in Sectors : KeysOf(data'[s]) \subseteq {h.hashedKey, h.hashedHiddenKey}
      /\ \A s \in Sectors : EncryptedOnce(data'[s])
      /\ ~Decode(sector0').magic => data' = AllPlaintext
  <2>1. CASE medium.sector0 = sector0
    BY <1>1, <1>2, <2>1 DEF MediumInv
  <2>2. CASE medium.data = AllPlaintext
    BY <1>2, <2>2, PlaintextIsFine
  <2>. QED BY <1>1, <2>1, <2>2 DEF MediumInv
<1>4. KInv'
  BY <1>2, <1>3 DEF KInv, Untouched, SinglePass, AllPlaintext
<1>5. SealInv'
  BY <1>2, <1>3 DEF SealInv, NamedByHeader, OnlyThem, InLoop
<1>6. MediumInv'
  BY <1>2, <1>3 DEF MediumInv
<1>. QED BY <1>4, <1>5, <1>6

LEMMA CacheInvStep ==
  ASSUME ExclusiveOpen, OnlySealAndOpen, CacheInv, [CacheNext]_cacheVars
  PROVE  CacheInv'
<1>1. CacheTypeOK'
  BY CacheTypeStep DEF CacheInv
<1>2. IInv'
  BY <1>1, CacheSteps, PowerCutIInv, NextInv DEF CacheInv, CacheTypeOK
<1>3. CASE PowerCut
  BY <1>1, <1>2, <1>3, PowerCutKept DEF CacheInv
<1>4. CASE ~PowerCut
  <2>. SUFFICES ASSUME loss' # "done" PROVE (KInv /\ SealInv /\ MediumInv)'
    BY <1>1, <1>2 DEF CacheInv, Kept
  <2>1. loss # "done"
    BY <1>4 DEF CacheNext, cacheVars, Command, Sync, Destage, Watch
  <2>2. KInv /\ SealInv /\ MediumInv
    BY <2>1 DEF CacheInv, Kept
  <2>3. KInv' /\ SealInv'
    BY <1>2, <1>4, <2>2, CacheSteps, KInvStep, SealInvStep DEF CacheInv
  <2>4. ASSUME UNCHANGED cacheVars PROVE MediumInv'
    BY <2>2, <2>4 DEF cacheVars, vars, MediumInv
  <2>5. MediumInv'
    BY <1>4, <2>1, <2>2, <2>4, MediumCommand, MediumSync, MediumDestage DEF CacheNext
  <2>. QED BY <2>3, <2>5
<1>. QED BY <1>3, <1>4

LEMMA CacheInductive == ExclusiveOpen /\ OnlySealAndOpen => (CacheSpec => []CacheInv)
<1>. SUFFICES ASSUME ExclusiveOpen, OnlySealAndOpen PROVE CacheSpec => []CacheInv
  OBVIOUS
<1>1. CacheInit => CacheInv
  <2>. SUFFICES ASSUME CacheInit PROVE CacheInv
    OBVIOUS
  <2>1. CacheTypeOK
    BY InitType DEF CacheInit, CacheTypeOK, TypeOK, Losses
  <2>2. IInv /\ \A p \in Procs : pc[p] = "idle"
    BY InitInv DEF CacheInit, Init
  <2>3. data = AllPlaintext /\ medium.sector0 = sector0 /\ medium.data = data
    BY DEF CacheInit, Init, AllPlaintext
  <2>4. KInv
    BY <2>2, <2>3 DEF KInv, Untouched, SinglePass, AllPlaintext
  <2>5. SealInv
    BY <2>2, <2>3, PlaintextIsFine DEF SealInv, NamedByHeader, OnlyThem, InLoop
  <2>6. MediumInv
    BY <2>3, PlaintextIsFine DEF MediumInv
  <2>. QED BY <2>1, <2>2, <2>4, <2>5, <2>6 DEF CacheInv, Kept
<1>2. CacheInv /\ [CacheNext]_cacheVars => CacheInv'
  BY CacheInvStep
<1>. QED BY <1>1, <1>2, PTL DEF CacheSpec

(* Where opens are exclusive and sector 0 can be read, encrypt-pro and     *)
(* decrypt-pro, killed or failing anywhere, through any number of power    *)
(* cuts and whatever the drive does with its cache, leave every sector     *)
(* under a key the header names, unless a power cut took a header that     *)
(* nobody was waiting for any more. No flush is assumed to work.           *)
(* (EncryptPro: writeHeader before the loop; DarwinDriveHandle.Write.)     *)
THEOREM KeysSurvivePowerCuts ==
  ExclusiveOpen /\ OnlySealAndOpen => (CacheSpec => []OnlyLostHeaderLosesKeys)
<1>1. CacheInv => OnlyLostHeaderLosesKeys
  BY DEF CacheInv, Kept, SealInv, OnlyLostHeaderLosesKeys
<1>. QED BY <1>1, CacheInductive, PTL

(* Under the same conditions no sector is encrypted twice, also when       *)
(* encrypt-pro is run again after the power cuts. (drive.go:121.)          *)
THEOREM SealedOnceThroughPowerCuts ==
  ExclusiveOpen /\ OnlySealAndOpen => (CacheSpec => []OnlyLostHeaderSealsTwice)
<1>1. CacheInv => OnlyLostHeaderSealsTwice
  BY SealedOnce DEF CacheInv, Kept, OnlyLostHeaderSealsTwice
<1>. QED BY <1>1, CacheInductive, PTL

=============================================================================
