----------------------------- MODULE DriveCache -----------------------------
(***************************************************************************)
(* ProDrive over a drive with a volatile write cache.  DarwinDriveHandle.  *)
(* Write (darwin_io.go) is a write and an fsync: what was written is read  *)
(* back at once, by any process, but is on the medium only when the drive  *)
(* chose to put it there or a flush made it.  fsync(2) of macOS hands the  *)
(* data to the drive and does not make it flush; F_FULLFSYNC does, and is  *)
(* tried only when fsync failed, its result discarded.  So a Write that    *)
(* returned may still be in the cache, and when the power fails, or the    *)
(* drive is pulled out, the cache is gone.                                 *)
(***************************************************************************)
EXTENDS ProDrive

CONSTANT MaxPowerCuts   \* bound: power cuts

ASSUME CacheAssumption == MaxPowerCuts \in Nat

VARIABLES
  medium,    \* sector 0 and the other sectors as they are on the medium
  syncing,   \* the processes between the write and the end of the fsync
  cuts,      \* power cuts so far
  loss       \* history: what became of a header that nobody waits for

cacheVars == <<vars, medium, syncing, cuts, loss>>

(* "none": it is on the medium. "pending": it is in the cache only.        *)
(* "done": a power cut took it from there.                                 *)
Losses == {"none", "pending", "done"}

CacheTypeOK ==
  /\ TypeOK
  /\ medium \in [sector0 : RawSector, data : [Sectors -> Contents]]
  /\ syncing \subseteq {p \in Procs : pc[p] = "read"}
  /\ cuts \in 0 .. MaxPowerCuts
  /\ loss \in Losses

CacheInit ==
  /\ Init
  /\ medium = [sector0 |-> sector0, data |-> data]
  /\ syncing = {}
  /\ cuts = 0
  /\ loss = "none"

-----------------------------------------------------------------------------
(* The header is pending from when the wait for a Write ends, with the     *)
(* header not on the medium, until it gets there.                          *)
Watch ==
  loss' = CASE loss = "done"                 -> "done"
            [] loss # "done" /\ medium'.sector0 = sector0' -> "none"
            [] loss # "done" /\ medium'.sector0 # sector0' ->
                 IF syncing \ syncing' # {} THEN "pending" ELSE loss

(* A mutant of Wrote: writeHeader does not wait for the drive.             *)
WroteSector(p) == pc[p] = "write" /\ pc'[p] = "read"
Wrote(p) == pc[p] \in {"stamp", "write"} /\ pc'[p] = "read"

(* A mutant of StillSyncing: the wait outlives its process.                *)
StillSyncingDead == syncing
StillSyncing == {p \in syncing : pc'[p] = "read"}

(* A step of ProDrive. A process whose write went through waits for its    *)
(* fsync and does nothing else, unless it is killed.                       *)
Command ==
  /\ Next
  /\ \A p \in syncing : (pc'[p] = pc[p] /\ job'[p] = job[p]) \/ outcome'[p] = "killed"
  /\ syncing' = {p \in Procs : Wrote(p)} \union StillSyncing
  /\ UNCHANGED <<medium, cuts>>
  /\ Watch

(* The end of Write, which returns nil whatever fsync and fcntl returned:  *)
(* whether the drive emptied its cache is not known.                       *)
Sync(p) ==
  /\ p \in syncing
  /\ syncing' = syncing \ {p}
  /\ \/ medium' = [sector0 |-> sector0, data |-> data]
     \/ UNCHANGED medium
  /\ UNCHANGED <<vars, cuts>>
  /\ Watch

(* The drive empties its cache in the order it likes.                      *)
Destage ==
  /\ \/ medium' = [medium EXCEPT !.sector0 = sector0]
     \/ \E s \in Sectors : medium' = [medium EXCEPT !.data[s] = data[s]]
  /\ UNCHANGED <<vars, syncing, cuts>>
  /\ Watch

(* The power fails: the processes die with it, and the cache.              *)
PowerCut ==
  /\ cuts < MaxPowerCuts
  /\ cuts' = cuts + 1
  /\ sector0' = medium.sector0
  /\ data' = medium.data
  /\ handles' = {}
  /\ pc' = [p \in Procs |-> "idle"]
  /\ job' = [p \in Procs |-> NoJob]
  /\ outcome' = [p \in Procs |-> IF pc[p] = "idle" THEN outcome[p] ELSE "killed"]
  /\ base' = data'
  /\ committed' = [committed EXCEPT !.sector0 = sector0', !.data = data']
  /\ syncing' = {}
  /\ loss' = IF loss = "pending" THEN "done" ELSE loss
  /\ UNCHANGED <<env, medium>>

CacheNext == Command \/ (\E p \in Procs : Sync(p)) \/ Destage \/ PowerCut

CacheSpec == CacheInit /\ [][CacheNext]_cacheVars

-----------------------------------------------------------------------------
(* encrypt-pro and decrypt-pro lose keys in one way only: the power fails  *)
(* while a header whose Write had returned, or whose writer was killed, is *)
(* still in the drive's cache. Up to then the header found on the drive    *)
(* names the key of every layer found on a sector, after any kills, failed *)
(* writes and power cuts, in whatever order the cache was emptied.         *)
(* (EncryptPro: writeHeader returns before the loop begins, and every      *)
(* Write of darwin_io.go before the next.)                                 *)
OnlyLostHeaderLosesKeys == loss # "done" => NamedByHeader

(* Nor does encrypt-pro encrypt what is encrypted, under the same          *)
(* condition: a header that is gone after a power cut, with sectors that   *)
(* are not, is what its check cannot see. (drive.go:121.)                  *)
OnlyLostHeaderSealsTwice == loss # "done" => NoDoubleEncryption

=============================================================================
