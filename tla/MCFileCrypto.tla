--------------------------- MODULE MCFileCrypto ---------------------------
(* The requests of the file runs, and their symmetry.                      *)
EXTENDS FileCrypto, TLC

CONSTANTS photo, copy, restored

Request(op, input, output) == [op |-> op, input |-> input, output |-> output]

(* A photo is encrypted and decrypted in place and to other names.         *)
OrdinaryRequests ==
  {Request(op, photo, InPlace) : op \in Ops}
    \union {Request("EncryptFile", photo, copy), Request("DecryptFile", copy, restored)}

InPlaceRequests == {Request("EncryptFile", photo, InPlace)}

(* Loops that read what they, or others, write.                            *)
AliasedRequests ==
  {Request("EncryptFile", photo, output) : output \in {photo, copy, InPlace}}
    \union {Request("EncryptFile", copy, photo), Request("DecryptFile", photo, copy)}

Symmetry == Permutations(Procs) \union Permutations(Passwords)

=============================================================================
