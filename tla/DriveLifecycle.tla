--------------------------- MODULE DriveLifecycle ---------------------------
(***************************************************************************)
(* What the four raw-drive commands do to a drive when each one runs to    *)
(* its end undisturbed: the drive as an atomic object.  It is meant to be  *)
(* exact about the sequences of commands the program accepts, also those   *)
(* its documentation does not mention: decrypt-pro leaves the header in    *)
(* place, so an opened drive still takes decrypt-pro and                   *)
(* change-password-pro, and both destroy its contents.  A command that     *)
(* reports failure changes nothing.                                        *)
(***************************************************************************)
CONSTANTS
  Passwords,
  NoPassword   \* the owner of a drive that has no header

VARIABLES
  phase,   \* what a reader with the owner's password finds
  owner,   \* the password the header accepts
  last     \* the command that last reported success, and its password

vars == <<phase, owner, last>>

(* The phases:                                                             *)
(*   "plain"      no header, the user's data;                              *)
(*   "sealed"     every sector encrypted once under the owner's key;       *)
(*   "nested"     sealed, the hidden region encrypted again on top;        *)
(*   "opened"     the user's data, the header still there;                 *)
(*   "scrambled"  not readable with the owner's password.                  *)

Ran(name, password) == [command |-> name, password |-> password]

Init ==
  /\ phase = "plain"
  /\ owner = NoPassword
  /\ last = Ran("none", NoPassword)

(* encrypt-pro takes only a drive without a header.                        *)
Seal(password) ==
  /\ phase = "plain"
  /\ phase' = "sealed"
  /\ owner' = password
  /\ last' = Ran("EncryptPro", password)

(* encrypt-hidden takes any drive. An earlier owner's salt is overwritten. *)
SealHidden(password) ==
  /\ phase' = IF phase \in {"plain", "opened"} THEN "nested" ELSE "scrambled"
  /\ owner' = password
  /\ last' = Ran("EncryptWithHidden", password)

(* change-password-pro and decrypt-pro peel one layer off every sector,    *)
(* which is right only where there is exactly one.                         *)
Rekey(password, newPassword) ==
  /\ phase # "plain"
  /\ owner = password
  /\ phase' = IF phase = "sealed" THEN "sealed" ELSE "scrambled"
  /\ owner' = newPassword
  /\ last' = Ran("ChangePasswordPro", password)

Open(password) ==
  /\ phase # "plain"
  /\ owner = password
  /\ phase' = IF phase = "sealed" THEN "opened" ELSE "scrambled"
  /\ last' = Ran("DecryptPro", password)
  /\ UNCHANGED owner

Next ==
  \E password \in Passwords :
    \/ Seal(password)
    \/ SealHidden(password)
    \/ \E newPassword \in Passwords : Rekey(password, newPassword)
    \/ Open(password)

Spec == Init /\ [][Next]_vars

=============================================================================
