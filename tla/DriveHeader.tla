----------------------------- MODULE DriveHeader -----------------------------
(***************************************************************************)
(* Sector 0 of an encrypt-pro drive: internal/drive/header.go.             *)
(*                                                                         *)
(* A Header is the Go struct; a raw sector is what Encode puts on the      *)
(* drive and Decode reads back.  Version, Nonce, Tag, CreatedAt and the    *)
(* upper bits of Flags are written and never consulted: they are left out. *)
(***************************************************************************)
EXTENDS SectorCipher

(* The struct of header.go:21; magic is "string(h.Magic[:]) = HeaderMagic". *)
Header ==
  [magic : BOOLEAN, salt : Nat, hashedKey : Keys, flags : {0, 1},
   hiddenSalt : Nat, hashedHiddenKey : Keys, hasHidden : BOOLEAN]

RawSector ==
  [magic : BOOLEAN, salt : Nat, hashedKey : Keys, flags : {0, 1},
   hiddenSalt : Nat, hashedHiddenKey : Keys]

(* Sector 0 of a drive encrypto never wrote to: a partition table.         *)
PartitionTable ==
  [magic |-> FALSE, salt |-> ZeroSalt, hashedKey |-> ZeroKey, flags |-> 0,
   hiddenSalt |-> ZeroSalt, hashedHiddenKey |-> ZeroKey]

(* Header.Encode: the hidden fields are copied only when HasHidden.        *)
Encode(h) ==
  [magic |-> h.magic, salt |-> h.salt, hashedKey |-> h.hashedKey, flags |-> h.flags,
   hiddenSalt      |-> IF h.hasHidden THEN h.hiddenSalt ELSE ZeroSalt,
   hashedHiddenKey |-> IF h.hasHidden THEN h.hashedHiddenKey ELSE ZeroKey]

(* Header.Decode into a zero Header: HasHidden comes from Flags&1, and     *)
(* only then are the hidden fields read.                                   *)
Decode(raw) ==
  LET hidden == raw.flags = 1 IN
  [magic |-> raw.magic, salt |-> raw.salt, hashedKey |-> raw.hashedKey, flags |-> raw.flags,
   hiddenSalt      |-> IF hidden THEN raw.hiddenSalt ELSE ZeroSalt,
   hashedHiddenKey |-> IF hidden THEN raw.hashedHiddenKey ELSE ZeroKey,
   hasHidden       |-> hidden]

createHeader(password, salt) ==
  [magic |-> TRUE, salt |-> salt, hashedKey |-> DeriveKey(password, salt), flags |-> 0,
   hiddenSalt |-> ZeroSalt, hashedHiddenKey |-> ZeroKey, hasHidden |-> FALSE]

(* A mutant of createHeaderWithHidden: HasHidden is forgotten, Flags is    *)
(* set, so Encode drops what Decode will look for.                         *)
createHeaderFlagOnly(password, salt, hiddenPassword, hiddenSalt) ==
  [magic |-> TRUE, salt |-> salt, hashedKey |-> DeriveKey(password, salt), flags |-> 1,
   hiddenSalt |-> hiddenSalt, hashedHiddenKey |-> DeriveKey(hiddenPassword, hiddenSalt),
   hasHidden |-> FALSE]

createHeaderWithHidden(password, salt, hiddenPassword, hiddenSalt) ==
  [magic |-> TRUE, salt |-> salt, hashedKey |-> DeriveKey(password, salt), flags |-> 1,
   hiddenSalt |-> hiddenSalt, hashedHiddenKey |-> DeriveKey(hiddenPassword, hiddenSalt),
   hasHidden |-> TRUE]

verifyKey(key, h) == key = h.hashedKey

(* deriveKeyFromPassword returns (key, isHidden, error): the set of its    *)
(* results, empty for the error. The primary password wins over the hidden *)
(* one when both match.                                                    *)
deriveKeyFromPassword(password, h) ==
  LET primaryHashedKey == DeriveKey(password, h.salt)
      hiddenHashedKey  == DeriveKey(password, h.hiddenSalt)
  IN  IF verifyKey(primaryHashedKey, h)
      THEN {[key |-> primaryHashedKey, isHidden |-> FALSE]}
      ELSE {r \in {[key |-> hiddenHashedKey, isHidden |-> TRUE]} :
              h.hasHidden /\ r.key = h.hashedHiddenKey}

=============================================================================
