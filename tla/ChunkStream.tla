---------------------------- MODULE ChunkStream ----------------------------
(***************************************************************************)
(* How EncryptFile and DecryptFile of internal/crypto/file_crypto.go cut a *)
(* file into chunks.  EncryptFile seals whatever one Read returned, at     *)
(* most ChunkSize bytes; DecryptFile opens whatever one Read returned, at  *)
(* most ChunkSize + TagSize bytes; neither writes down a length.  Between  *)
(* them the encrypted file is stored, and may be damaged.                  *)
(*                                                                         *)
(* A byte of the input is its position. A byte of the encrypted file is    *)
(* its place in the chunk it was sealed in. The 40-byte header is intact.  *)
(***************************************************************************)
EXTENDS Integers, Sequences

CONSTANTS
  ChunkSize,   \* bytes of the buffer of EncryptFile (64 KB)
  TagSize,     \* bytes GCM adds to a chunk (16)
  FileSizes,   \* the sizes of the input
  ShortReads,  \* the loops whose Read may return less than there is
  Damages      \* what may happen to the stored file

ASSUME ChunkAssumption ==
  /\ ChunkSize \in Nat \ {0}
  /\ TagSize \in Nat \ {0}
  /\ FileSizes \subseteq Nat
  /\ ShortReads \subseteq {"encrypt", "decrypt"}
  /\ Damages \subseteq {"truncate", "drop"}

VARIABLES
  size,      \* bytes of the input file
  file,      \* the encrypted file after its header
  pc,        \* where the two commands are
  pos,       \* bytes of its input the running loop has read
  chunkNum,  \* its chunk counter
  written,   \* what DecryptFile has written
  short,     \* history: some Read returned less than there was
  damaged    \* history: the stored file is not what EncryptFile wrote

vars == <<size, file, pc, pos, chunkNum, written, short, damaged>>

Bytes == [nonce : Nat, from : Nat, len : Nat, i : Nat \ {0}]

TypeOK ==
  /\ size \in FileSizes
  /\ file \in Seq(Bytes)
  /\ pc \in {"encrypt", "stored", "decrypt", "ok", "refused"}
  /\ pos \in 0 .. (IF pc = "encrypt" THEN size ELSE Len(file))
  /\ chunkNum \in 0 .. size
  /\ written \in Seq(1 .. size)
  /\ short \in BOOLEAN
  /\ damaged \in BOOLEAN

Init ==
  /\ size \in FileSizes
  /\ file = <<>>
  /\ pc = "encrypt"
  /\ pos = 0
  /\ chunkNum = 0
  /\ written = <<>>
  /\ short = FALSE
  /\ damaged = FALSE

-----------------------------------------------------------------------------
(* What one Read may return: all that is left and fits into the buffer, or *)
(* less where the file is a pipe. 0 bytes is the end of the input.         *)
Most(left, buffer) == IF left < buffer THEN left ELSE buffer

(* A mutant of ReadLengths: the end of the input is not told apart.        *)
ReadLengthsOrNone(loop, left, buffer) == 0 .. Most(left, buffer)

ReadLengths(loop, left, buffer) ==
  IF loop \in ShortReads THEN 1 .. Most(left, buffer) ELSE {Most(left, buffer)} \ {0}

(* The counter is the part of the nonce that differs between chunks. The   *)
(* mutant seals all chunks under the header's nonce.                       *)
NonceOfHeader(num) == 0
Nonce(num) == num

(* aesgcm.Seal of the bytes from + 1 .. from + len of the input.           *)
Sealed(num, from, len) ==
  [i \in 1 .. (len + TagSize) |-> [nonce |-> Nonce(num), from |-> from, len |-> len, i |-> i]]

(* aesgcm.Open accepts exactly one whole chunk under its own nonce.        *)
Authentic(bytes, num) == bytes = Sealed(num, Head(bytes).from, Len(bytes) - TagSize)

Opened(bytes) == [i \in 1 .. (Len(bytes) - TagSize) |-> Head(bytes).from + i]

EncryptChunk ==
  /\ pc = "encrypt"
  /\ \E n \in ReadLengths("encrypt", size - pos, ChunkSize) :
       /\ file' = file \o Sealed(chunkNum, pos, n)
       /\ pos' = pos + n
       /\ short' = (short \/ n < Most(size - pos, ChunkSize))
  /\ chunkNum' = chunkNum + 1
  /\ UNCHANGED <<size, pc, written, damaged>>

EncryptEnd ==
  /\ pc = "encrypt"
  /\ pos = size
  /\ pc' = "stored"
  /\ pos' = 0
  /\ chunkNum' = 0
  /\ UNCHANGED <<size, file, written, short, damaged>>

(* The copy of the file loses its end, or a range of bytes.                *)
Damage ==
  /\ pc = "stored"
  /\ ~damaged
  /\ \/ /\ "truncate" \in Damages
        /\ \E n \in 0 .. (Len(file) - 1) : file' = SubSeq(file, 1, n)
     \/ /\ "drop" \in Damages
        /\ \E i, j \in 1 .. Len(file) :
             i < j /\ file' = SubSeq(file, 1, i - 1) \o SubSeq(file, j, Len(file))
  /\ damaged' = TRUE
  /\ UNCHANGED <<size, pc, pos, chunkNum, written, short>>

DecryptStart ==
  /\ pc = "stored"
  /\ pc' = "decrypt"
  /\ UNCHANGED <<size, file, pos, chunkNum, written, short, damaged>>

(* The buffer of DecryptFile; the mutant forgets the tag.                  *)
DecryptBufferNoTag == ChunkSize
DecryptBuffer == ChunkSize + TagSize

DecryptChunk ==
  /\ pc = "decrypt"
  /\ \E n \in ReadLengths("decrypt", Len(file) - pos, DecryptBuffer) :
       LET bytes == SubSeq(file, pos + 1, pos + n) IN
       /\ short' = (short \/ n < Most(Len(file) - pos, DecryptBuffer))
       /\ \/ /\ Authentic(bytes, chunkNum)
             /\ written' = written \o Opened(bytes)
             /\ pos' = pos + n
             /\ chunkNum' = chunkNum + 1
             /\ UNCHANGED pc
          \/ /\ ~Authentic(bytes, chunkNum)
             /\ pc' = "refused"
             /\ UNCHANGED <<written, pos, chunkNum>>
  /\ UNCHANGED <<size, file, damaged>>

DecryptEnd ==
  /\ pc = "decrypt"
  /\ pos = Len(file)
  /\ pc' = "ok"
  /\ UNCHANGED <<size, file, pos, chunkNum, written, short, damaged>>

Next ==
  \/ EncryptChunk \/ EncryptEnd \/ Damage
  \/ DecryptStart \/ DecryptChunk \/ DecryptEnd

Spec == Init /\ [][Next]_vars

-----------------------------------------------------------------------------
(* Whatever the reads return and whatever happened to the file, DecryptFile *)
(* writes bytes of the input only, in their order and without a gap.       *)
(* (file_crypto.go:78, "Each chunk gets a unique nonce": the counter.)     *)
OutputIsPrefix == written = [i \in 1 .. Len(written) |-> i]

(* A file that is as EncryptFile wrote it is restored to the last byte when *)
(* DecryptFile succeeds, and it does succeed when every Read returned all  *)
(* there was. (The two loops agree on the framing.)                        *)
IntactRestores ==
  ~damaged =>
    /\ pc = "ok" => Len(written) = size
    /\ pc = "refused" => short

=============================================================================
