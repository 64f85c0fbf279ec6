---------------------------- MODULE SectorCipher ----------------------------
(***************************************************************************)
(* The sector cipher of internal/crypto/crypto.go, as an algebra.          *)
(*                                                                         *)
(* Argon2id is an injective function of (password, salt), so a key IS that *)
(* pair.  AES-XTS under one key and one sector number is a permutation of  *)
(* the sector's contents whose inverse is Decrypt under the same two; no   *)
(* other law is assumed.  The contents of a sector are therefore the       *)
(* sequence of cipher layers applied to its original bytes, oldest first,  *)
(* in which a layer next to its inverse has cancelled.  <<>> is the        *)
(* original plaintext.                                                     *)
(***************************************************************************)
EXTENDS SequencesExt

CONSTANTS
  Passwords,   \* the passwords users type
  NoPassword   \* stands for the all-zero bytes of an unset key field

ASSUME NoPasswordAssumption == NoPassword \notin Passwords

(* crypto.DeriveKey. GenerateRandomBytes hands out salts 1, 2, 3, ...;     *)
(* 0 is a salt field that was never filled in.                             *)
DeriveKey(password, salt) == [password |-> password, salt |-> salt]

Keys == [password : Passwords \union {NoPassword}, salt : Nat]

ZeroSalt == 0
ZeroKey == DeriveKey(NoPassword, ZeroSalt)

Layer(op, key, sectorNum) == [op |-> op, key |-> key, sector |-> sectorNum]
Layers == [op : {"Encrypt", "Decrypt"}, key : Keys, sector : Nat]

Plaintext == <<>>
Contents == Seq(Layers)

(* Applying a layer: on top of its inverse both disappear.                 *)
Apply(layer, inverse, contents) ==
  IF contents # <<>> /\ Last(contents) = inverse
  THEN Front(contents)
  ELSE Append(contents, layer)

(* Crypto.Encrypt and Crypto.Decrypt. Every key of the program comes       *)
(* from DeriveKey and has KeySize bytes, so ErrInvalidKey is unreachable.  *)
Encrypt(contents, key, sectorNum) ==
  Apply(Layer("Encrypt", key, sectorNum), Layer("Decrypt", key, sectorNum), contents)

Decrypt(contents, key, sectorNum) ==
  Apply(Layer("Decrypt", key, sectorNum), Layer("Encrypt", key, sectorNum), contents)

(* The keys a reader needs to undo every layer.                            *)
KeysOf(contents) == {contents[i].key : i \in DOMAIN contents}

=============================================================================
