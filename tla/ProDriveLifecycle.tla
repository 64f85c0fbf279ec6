------------------------- MODULE ProDriveLifecycle -------------------------
(***************************************************************************)
(* ProDrive implements DriveLifecycle: as long as nothing fails, the drive *)
(* that a finished command leaves is one of the abstract phases, and each  *)
(* command moves between them in one step.                                 *)
(***************************************************************************)
EXTENDS ProDrive

(* What the sectors hold under a header: the user's data, the user's data  *)
(* encrypted once, and the hidden region encrypted again.                  *)
Original == [s \in Sectors |-> Plaintext]
Once(h) == [s \in Sectors |-> Encrypt(Plaintext, h.hashedKey, s)]
Twice(h) ==
  [s \in Sectors |->
     IF s < HiddenStart THEN Once(h)[s] ELSE Encrypt(Once(h)[s], h.hashedHiddenKey, s)]

(* The refinement mapping reads the drive as the last command left it.     *)
PhaseOf(left) ==
  LET h == Decode(left.sector0) IN
  CASE ~h.magic /\ left.data = Original               -> "plain"
    [] h.magic /\ left.data = Original                -> "opened"
    [] h.magic /\ ~h.hasHidden /\ left.data = Once(h) -> "sealed"
    [] h.magic /\ h.hasHidden /\ left.data = Twice(h) -> "nested"
    [] OTHER                                          -> "scrambled"

Lifecycle ==
  INSTANCE DriveLifecycle WITH
    phase <- PhaseOf(committed),
    owner <- Decode(committed.sector0).hashedKey.password,
    last  <- committed.last

(* Run to completion one at a time, the commands have exactly the effects  *)
(* DriveLifecycle describes. (EncryptPro, EncryptWithHidden,               *)
(* ChangePasswordPro and DecryptPro of drive.go, without faults.)          *)
ImplementsLifecycle == Lifecycle!Spec

=============================================================================
