-------------------------- MODULE ChunkStreamProofs --------------------------
(***************************************************************************)
(* Proofs about ChunkStream, for every chunk and tag size, every input,    *)
(* every way the reads fall and every damage to the stored file.           *)
(***************************************************************************)
EXTENDS ChunkStream, SequenceTheorems, TLAPS

USE ChunkAssumption

-----------------------------------------------------------------------------
(* The inductive invariant.                                                *)

Positions == 1 .. Len(file)

EndOf(b) == b.from + b.len

(* What is left of the file, damaged or not: bytes under one nonce are of  *)
(* one chunk, and chunks with successive nonces are next to each other in  *)
(* the input.                                                              *)
Chained ==
  /\ \A k \in Positions :
       /\ file[k].nonce = 0 => file[k].from = 0
       /\ file[k].nonce < size
       /\ EndOf(file[k]) <= size
  /\ \A k, m \in Positions :
       /\ file[k].nonce = file[m].nonce => EndOf(file[k]) = EndOf(file[m])
       /\ file[m].nonce = file[k].nonce + 1 => file[m].from = EndOf(file[k])

(* EncryptFile has sealed the first pos bytes as chunkNum chunks.          *)
Sealing ==
  /\ written = <<>> /\ ~damaged
  /\ chunkNum <= pos
  /\ chunkNum = 0 => pos = 0 /\ file = <<>>
  /\ chunkNum > 0 => file # <<>>
  /\ \A k \in Positions :
       /\ file[k].nonce < chunkNum
       /\ file[k].nonce + 1 = chunkNum => EndOf(file[k]) = pos

(* DecryptFile has written the input up to the end of the chunk before     *)
(* chunkNum.                                                               *)
Opening ==
  /\ written = [i \in 1 .. Len(written) |-> i]
  /\ chunkNum = 0 => written = <<>> /\ pos = 0
  /\ chunkNum > 0 =>
       \E k \in Positions : file[k].nonce + 1 = chunkNum /\ EndOf(file[k]) = Len(written)

StreamInv ==
  /\ TypeOK
  /\ Chained
  /\ pc = "encrypt" => Sealing
  /\ pc = "stored" => chunkNum = 0 /\ pos = 0
  /\ pc # "encrypt" => Opening

-----------------------------------------------------------------------------
(* Chunks, and what one Read returns.                                      *)

Byte(num, from, len, i) == [nonce |-> num, from |-> from, len |-> len, i |-> i]

LEMMA SealedBytes ==
  ASSUME NEW num \in Nat, NEW from \in Nat, NEW len \in Nat
  PROVE  /\ Sealed(num, from, len) \in Seq(Bytes)
         /\ Len(Sealed(num, from, len)) = len + TagSize
         /\ \A i \in 1 .. (len + TagSize) : Sealed(num, from, len)[i] = Byte(num, from, len, i)
<1>1. len + TagSize \in Nat
  OBVIOUS
<1>2. \A i \in 1 .. (len + TagSize) : Byte(num, from, len, i) \in Bytes
  BY <1>1 DEF Byte, Bytes
<1>3. Sealed(num, from, len) = [i \in 1 .. (len + TagSize) |-> Byte(num, from, len, i)]
  BY DEF Sealed, Nonce, Byte
<1>. QED BY <1>1, <1>2, <1>3

LEMMA Reads ==
  ASSUME NEW loop, NEW left \in Nat, NEW buffer \in Nat \ {0},
         NEW n \in ReadLengths(loop, left, buffer)
  PROVE  /\ n \in Nat /\ 1 <= n /\ n <= left /\ n <= buffer
         /\ n <= Most(left, buffer)
<1>1. Most(left, buffer) \in Nat /\ Most(left, buffer) <= left /\ Most(left, buffer) <= buffer
  BY DEF Most
<1>2. n \in 1 .. Most(left, buffer)
  BY <1>1 DEF ReadLengths
<1>. QED BY <1>1, <1>2

(* Open accepts one whole chunk of the file, and gives back its part of    *)
(* the input.                                                              *)
LEMMA Opens ==
  ASSUME NEW bytes \in Seq(Bytes), bytes # <<>>, NEW num, Authentic(bytes, num)
  PROVE  /\ bytes[1].nonce = num /\ bytes[1].i = 1
         /\ Len(bytes) = bytes[1].len + TagSize
         /\ Opened(bytes) = [i \in 1 .. bytes[1].len |-> bytes[1].from + i]
         /\ \A i \in 1 .. Len(bytes) : bytes[i] = Byte(num, bytes[1].from, bytes[1].len, i)
<1>. DEFINE from == Head(bytes).from  len == Len(bytes) - TagSize
<1>1. /\ Len(bytes) \in Nat /\ Len(bytes) >= 1 /\ Head(bytes) = bytes[1] /\ bytes[1] \in Bytes
      /\ len \in Int /\ len + TagSize = Len(bytes)
  OBVIOUS
<1>2. bytes = [i \in 1 .. (len + TagSize) |-> Byte(num, from, len, i)]
  BY DEF Authentic, Sealed, Nonce, Byte
<1>3. \A i \in 1 .. Len(bytes) : bytes[i] = Byte(num, from, len, i)
  BY <1>1, <1>2
<1>4. bytes[1] = Byte(num, from, len, 1)
  BY <1>1, <1>3
<1>5. /\ bytes[1].nonce = num /\ bytes[1].from = from /\ bytes[1].len = len /\ bytes[1].i = 1
  BY <1>4 DEF Byte
<1>6. len \in Nat
  BY <1>1, <1>5 DEF Bytes
<1>7. Opened(bytes) = [i \in 1 .. len |-> from + i]
  BY DEF Opened
<1>. HIDE DEF from, len
<1>. QED BY <1>1, <1>3, <1>5, <1>7

-----------------------------------------------------------------------------
(* The steps.                                                              *)

LEMMA InitStream == Init => StreamInv
<1>. SUFFICES ASSUME Init PROVE StreamInv
  OBVIOUS
<1>1. file = <<>> /\ written = <<>> /\ Len(file) = 0 /\ Len(written) = 0 /\ size \in Nat
  BY DEF Init
<1>2. TypeOK
  <2>1. file \in Seq(Bytes) /\ written \in Seq(1 .. size)
    BY <1>1
  <2>2. 0 \in 0 .. size
    BY <1>1
  <2>3. pos \in 0 .. (IF pc = "encrypt" THEN size ELSE Len(file)) /\ chunkNum \in 0 .. size
    BY <2>2 DEF Init
  <2>. QED BY <2>1, <2>3 DEF Init, TypeOK
<1>3. Positions = {}
  BY <1>1 DEF Positions
<1>. QED BY <1>1, <1>2, <1>3 DEF Init, StreamInv, Chained, Sealing

LEMMA SizeIsNat == TypeOK => size \in Nat
BY DEF TypeOK

(* What EncryptChunk appends.                                              *)
LEMMA ChunkAppended ==
  ASSUME TypeOK, pc = "encrypt", NEW n \in ReadLengths("encrypt", size - pos, ChunkSize),
         file' = file \o Sealed(chunkNum, pos, n)
  PROVE  /\ file' \in Seq(Bytes)
         /\ Len(file') = Len(file) + n + TagSize
         /\ \A k \in 1 .. Len(file) : file'[k] = file[k]
         /\ \A k \in (Len(file) + 1) .. Len(file') :
              file'[k] = Byte(chunkNum, pos, n, k - Len(file))
         /\ n \in Nat /\ 1 <= n /\ pos + n <= size
<1>1. /\ size \in Nat /\ pos \in Nat /\ chunkNum \in Nat /\ size - pos \in Nat
      /\ file \in Seq(Bytes) /\ Len(file) \in Nat
  BY SizeIsNat DEF TypeOK
<1>2. n \in Nat /\ 1 <= n /\ pos + n <= size
  BY <1>1, Reads
<1>. DEFINE chunk == Sealed(chunkNum, pos, n)
<1>3. /\ chunk \in Seq(Bytes) /\ Len(chunk) = n + TagSize
      /\ \A i \in 1 .. (n + TagSize) : chunk[i] = Byte(chunkNum, pos, n, i)
  BY <1>1, <1>2, SealedBytes
<1>. HIDE DEF chunk
<1>4. /\ file \o chunk \in Seq(Bytes)
      /\ Len(file \o chunk) = Len(file) + Len(chunk)
      /\ \A i \in 1 .. (Len(file) + Len(chunk)) :
           (file \o chunk)[i] = IF i <= Len(file) THEN file[i] ELSE chunk[i - Len(file)]
  BY <1>1, <1>3, ConcatProperties
<1>5. file' = file \o chunk
  BY DEF chunk
<1>6. ASSUME NEW k \in (Len(file) + 1) .. Len(file')
      PROVE  file'[k] = Byte(chunkNum, pos, n, k - Len(file))
  <2>1. /\ k \in 1 .. (Len(file) + Len(chunk)) /\ ~(k <= Len(file))
        /\ k - Len(file) \in 1 .. (n + TagSize)
    BY <1>1, <1>2, <1>3, <1>4, <1>5
  <2>. QED BY <1>3, <1>4, <1>5, <2>1
<1>. QED BY <1>1, <1>2, <1>3, <1>4, <1>5, <1>6

LEMMA EncryptChunkStream ==
  ASSUME StreamInv, EncryptChunk
  PROVE  StreamInv'
<1>1. TypeOK /\ Chained /\ Sealing /\ pc = "encrypt" /\ pc' = "encrypt"
  BY DEF StreamInv, EncryptChunk
<1>2. PICK n \in ReadLengths("encrypt", size - pos, ChunkSize) :
        /\ file' = file \o Sealed(chunkNum, pos, n)
        /\ pos' = pos + n
        /\ short' = (short \/ n < Most(size - pos, ChunkSize))
  BY DEF EncryptChunk
<1>3. /\ file' \in Seq(Bytes)
      /\ Len(file') = Len(file) + n + TagSize
      /\ \A k \in 1 .. Len(file) : file'[k] = file[k]
      /\ \A k \in (Len(file) + 1) .. Len(file') : file'[k] = Byte(chunkNum, pos, n, k - Len(file))
      /\ n \in Nat /\ 1 <= n /\ pos + n <= size
  BY <1>1, <1>2, ChunkAppended
<1>4. /\ size \in Nat /\ pos \in Nat /\ chunkNum \in Nat /\ Len(file) \in Nat
      /\ chunkNum' = chunkNum + 1 /\ UNCHANGED <<size, written, damaged>>
      /\ chunkNum <= pos
  BY <1>1, SizeIsNat DEF TypeOK, EncryptChunk, Sealing
<1>5. TypeOK'
  BY <1>1, <1>2, <1>3, <1>4, SMTT(30) DEF TypeOK
<1>6. \A k \in 1 .. Len(file) : file[k] \in Bytes
  BY <1>1 DEF TypeOK
<1>. DEFINE Old == 1 .. Len(file)
            New == (Len(file) + 1) .. Len(file')
<1>7. Positions' = Old \union New
  BY <1>3, <1>4 DEF Positions
<1>8. \A k \in New : /\ file'[k].nonce = chunkNum /\ file'[k].from = pos
                     /\ EndOf(file'[k]) = pos + n
  <2>. SUFFICES ASSUME NEW k \in New
                PROVE  /\ file'[k].nonce = chunkNum /\ file'[k].from = pos
                       /\ EndOf(file'[k]) = pos + n
    OBVIOUS
  <2>1. file'[k] = Byte(chunkNum, pos, n, k - Len(file))
    BY <1>3
  <2>2. file'[k].nonce = chunkNum /\ file'[k].from = pos /\ file'[k].len = n
    BY <2>1 DEF Byte
  <2>. QED BY <2>2 DEF EndOf
<1>9. \A k \in Old : /\ file'[k] = file[k] /\ file[k] \in Bytes
                     /\ file[k].nonce < chunkNum
                     /\ file[k].nonce + 1 = chunkNum => EndOf(file[k]) = pos
                     /\ file[k].nonce \in Nat /\ EndOf(file[k]) \in Nat
  <2>. SUFFICES ASSUME NEW k \in Old
                PROVE  /\ file'[k] = file[k] /\ file[k] \in Bytes
                       /\ file[k].nonce < chunkNum
                       /\ file[k].nonce + 1 = chunkNum => EndOf(file[k]) = pos
                       /\ file[k].nonce \in Nat /\ EndOf(file[k]) \in Nat
    OBVIOUS
  <2>1. file'[k] = file[k] /\ file[k] \in Bytes
    BY <1>3, <1>6
  <2>2. file[k].nonce < chunkNum /\ (file[k].nonce + 1 = chunkNum => EndOf(file[k]) = pos)
    BY <1>1 DEF Sealing, Positions
  <2>3. file[k].nonce \in Nat /\ EndOf(file[k]) \in Nat
    BY <2>1 DEF Bytes, EndOf
  <2>. QED BY <2>1, <2>2, <2>3
<1>. HIDE DEF Old, New
<1>10. \A k \in Old : /\ file[k].nonce = 0 => file[k].from = 0
                      /\ file[k].nonce < size
                      /\ EndOf(file[k]) <= size
  BY <1>1 DEF Chained, Positions, Old
<1>11. \A k, m \in Old :
         /\ file[k].nonce = file[m].nonce => EndOf(file[k]) = EndOf(file[m])
         /\ file[m].nonce = file[k].nonce + 1 => file[m].from = EndOf(file[k])
  BY <1>1 DEF Chained, Positions, Old
<1>12. chunkNum = 0 => pos = 0
  BY <1>1 DEF Sealing
<1>13. Chained'
  <2>1. \A k \in Positions' :
          /\ file'[k].nonce = 0 => file'[k].from = 0
          /\ file'[k].nonce < size
          /\ EndOf(file'[k]) <= size
    BY <1>3, <1>4, <1>7, <1>8, <1>9, <1>10, <1>12, SMTT(30)
  <2>2. \A k, m \in Positions' :
          /\ file'[k].nonce = file'[m].nonce => EndOf(file'[k]) = EndOf(file'[m])
          /\ file'[m].nonce = file'[k].nonce + 1 => file'[m].from = EndOf(file'[k])
    <3>. SUFFICES ASSUME NEW k \in Positions', NEW m \in Positions'
                  PROVE  /\ file'[k].nonce = file'[m].nonce => EndOf(file'[k]) = EndOf(file'[m])
                         /\ file'[m].nonce = file'[k].nonce + 1 => file'[m].from = EndOf(file'[k])
      OBVIOUS
    <3>1. CASE k \in Old /\ m \in Old
      BY <1>9, <1>11, <3>1
    <3>2. CASE k \in Old /\ m \in New
      BY <1>4, <1>8, <1>9, <3>2, SMTT(30)
    <3>3. CASE k \in New /\ m \in Old
      BY <1>4, <1>8, <1>9, <3>3
    <3>4. CASE k \in New /\ m \in New
      BY <1>4, <1>8, <3>4
    <3>. QED BY <1>7, <3>1, <3>2, <3>3, <3>4
  <2>. QED BY <1>4, <2>1, <2>2 DEF Chained, EndOf
<1>14. Sealing'
  <2>1. \A k \in Positions' :
          /\ file'[k].nonce < chunkNum'
          /\ file'[k].nonce + 1 = chunkNum' => EndOf(file'[k]) = pos'
    <3>. SUFFICES ASSUME NEW k \in Positions'
                  PROVE  /\ file'[k].nonce < chunkNum'
                         /\ file'[k].nonce + 1 = chunkNum' => EndOf(file'[k]) = pos'
      OBVIOUS
    <3>1. CASE k \in Old
      BY <1>4, <1>9, <3>1
    <3>2. CASE k \in New
      <4>1. file'[k].nonce = chunkNum /\ EndOf(file'[k]) = pos + n
        BY <1>8, <3>2
      <4>. QED BY <1>2, <1>4, <4>1
    <3>. QED BY <1>7, <3>1, <3>2
  <2>2. file' # <<>>
    BY <1>3, <1>4
  <2>3. chunkNum' <= pos' /\ chunkNum' > 0
    BY <1>2, <1>3, <1>4
  <2>. QED BY <1>1, <1>4, <2>1, <2>2, <2>3 DEF Sealing, EndOf
<1>. QED BY <1>1, <1>5, <1>13, <1>14 DEF StreamInv

LEMMA EncryptEndStream ==
  ASSUME StreamInv, EncryptEnd
  PROVE  StreamInv'
<1>1. TypeOK /\ Chained /\ Sealing /\ pc = "encrypt"
  BY DEF StreamInv, EncryptEnd
<1>2. TypeOK'
  BY <1>1, SizeIsNat DEF TypeOK, EncryptEnd
<1>3. Chained'
  BY <1>1 DEF Chained, EncryptEnd, Positions, EndOf
<1>4. Opening'
  BY <1>1 DEF Opening, Sealing, EncryptEnd
<1>. QED BY <1>2, <1>3, <1>4 DEF StreamInv, EncryptEnd

(* A function on 1 .. n is a sequence.                                     *)
LEMMA FunctionIsSeq ==
  ASSUME NEW S, NEW n \in Nat, NEW f \in [1 .. n -> S]
  PROVE  f \in Seq(S)
OBVIOUS

(* A part of a sequence.                                                   *)
LEMMA Slice ==
  ASSUME NEW S, NEW seq \in Seq(S), NEW a \in Nat \ {0}, NEW b \in Nat,
         a <= b + 1, b <= Len(seq)
  PROVE  /\ SubSeq(seq, a, b) \in Seq(S)
         /\ Len(SubSeq(seq, a, b)) = b - a + 1
         /\ \A i \in 1 .. (b - a + 1) : SubSeq(seq, a, b)[i] = seq[a + i - 1]
<1>1. a \in Int /\ b \in Int /\ \A k \in a .. b : seq[k] \in S
  OBVIOUS
<1>. DEFINE s == SubSeq(seq, a, b)
<1>2. /\ s \in Seq(S)
      /\ Len(s) = IF a <= b THEN b - a + 1 ELSE 0
      /\ \A i \in 1 .. (b - a + 1) : s[i] = seq[a + i - 1]
  BY <1>1, SubSeqProperties
<1>. HIDE DEF s
<1>3. Len(s) = b - a + 1
  BY <1>2
<1>4. s \in Seq(S) /\ Len(s) = b - a + 1 /\ \A i \in 1 .. (b - a + 1) : s[i] = seq[a + i - 1]
  BY <1>2, <1>3
<1>. QED BY <1>4 DEF s

(* Damage takes bytes away and adds none.                                  *)
LEMMA DamagedBytes ==
  ASSUME TypeOK, Damage
  PROVE  /\ file' \in Seq(Bytes)
         /\ \A k \in 1 .. Len(file') : \E m \in Positions : file'[k] = file[m]
<1>1. file \in Seq(Bytes) /\ Len(file) \in Nat /\ \A k \in 1 .. Len(file) : file[k] \in Bytes
  BY DEF TypeOK
<1>2. ASSUME NEW a \in Nat \ {0}, NEW b \in Nat, a <= b + 1, b <= Len(file)
      PROVE  /\ SubSeq(file, a, b) \in Seq(Bytes)
             /\ \A k \in 1 .. Len(SubSeq(file, a, b)) :
                  \E m \in Positions : SubSeq(file, a, b)[k] = file[m]
  <2>. DEFINE s == SubSeq(file, a, b)
  <2>1. /\ s \in Seq(Bytes) /\ Len(s) = b - a + 1
        /\ \A i \in 1 .. (b - a + 1) : s[i] = file[a + i - 1]
    BY <1>1, <1>2, Slice
  <2>. HIDE DEF s
  <2>2. ASSUME NEW k \in 1 .. Len(s)
        PROVE  \E m \in Positions : s[k] = file[m]
    <3>1. k \in 1 .. (b - a + 1) /\ a + k - 1 \in Positions
      BY <1>1, <1>2, <2>1 DEF Positions
    <3>. QED BY <2>1, <3>1
  <2>3. s \in Seq(Bytes) /\ \A k \in 1 .. Len(s) : \E m \in Positions : s[k] = file[m]
    BY <2>1, <2>2
  <2>. QED BY <2>3 DEF s
<1>3. ASSUME NEW n \in 0 .. (Len(file) - 1), file' = SubSeq(file, 1, n)
      PROVE  /\ file' \in Seq(Bytes)
             /\ \A k \in 1 .. Len(file') : \E m \in Positions : file'[k] = file[m]
  <2>1. 1 \in Nat \ {0} /\ n \in Nat /\ 1 <= n + 1 /\ n <= Len(file)
    BY <1>1
  <2>2. /\ SubSeq(file, 1, n) \in Seq(Bytes)
        /\ \A k \in 1 .. Len(SubSeq(file, 1, n)) :
             \E m \in Positions : SubSeq(file, 1, n)[k] = file[m]
    BY <1>2, <2>1
  <2>. QED BY <1>3, <2>2
<1>4. ASSUME NEW i \in 1 .. Len(file), NEW j \in 1 .. Len(file),
             file' = SubSeq(file, 1, i - 1) \o SubSeq(file, j, Len(file))
      PROVE  /\ file' \in Seq(Bytes)
             /\ \A k \in 1 .. Len(file') : \E m \in Positions : file'[k] = file[m]
  <2>. DEFINE s == SubSeq(file, 1, i - 1)  t == SubSeq(file, j, Len(file))
  <2>1. 1 \in Nat \ {0} /\ i - 1 \in Nat /\ 1 <= (i - 1) + 1 /\ i - 1 <= Len(file)
    BY <1>1
  <2>2. j \in Nat \ {0} /\ Len(file) \in Nat /\ j <= Len(file) + 1 /\ Len(file) <= Len(file)
    BY <1>1
  <2>3. s \in Seq(Bytes) /\ \A k \in 1 .. Len(s) : \E m \in Positions : s[k] = file[m]
    BY <1>2, <2>1
  <2>4. t \in Seq(Bytes) /\ \A k \in 1 .. Len(t) : \E m \in Positions : t[k] = file[m]
    BY <1>2, <2>2
  <2>. HIDE DEF s, t
  <2>5. /\ s \o t \in Seq(Bytes)
        /\ Len(s \o t) = Len(s) + Len(t)
        /\ \A k \in 1 .. (Len(s) + Len(t)) :
             (s \o t)[k] = IF k <= Len(s) THEN s[k] ELSE t[k - Len(s)]
    BY <2>3, <2>4, ConcatProperties
  <2>6. Len(s) \in Nat /\ Len(t) \in Nat
    BY <2>3, <2>4
  <2>7. ASSUME NEW k \in 1 .. Len(s \o t)
        PROVE  \E m \in Positions : (s \o t)[k] = file[m]
    <3>1. CASE k <= Len(s)
      <4>1. k \in 1 .. Len(s) /\ (s \o t)[k] = s[k]
        BY <2>5, <2>6, <3>1
      <4>. QED BY <2>3, <4>1
    <3>2. CASE ~(k <= Len(s))
      <4>1. k - Len(s) \in 1 .. Len(t) /\ (s \o t)[k] = t[k - Len(s)]
        BY <2>5, <2>6, <3>2
      <4>. QED BY <2>4, <4>1
    <3>. QED BY <3>1, <3>2
  <2>8. file' = s \o t
    BY <1>4 DEF s, t
  <2>. QED BY <2>5, <2>7, <2>8
<1>. QED BY <1>3, <1>4 DEF Damage

LEMMA DamageStream ==
  ASSUME StreamInv, Damage
  PROVE  StreamInv'
<1>1. TypeOK /\ Chained /\ pc = "stored" /\ chunkNum = 0 /\ pos = 0 /\ Opening
  BY DEF StreamInv, Damage
<1>2. /\ file' \in Seq(Bytes)
      /\ \A k \in Positions' : \E m \in Positions : file'[k] = file[m]
  BY <1>1, DamagedBytes DEF Positions
<1>3. TypeOK'
  <2>1. pos' \in 0 .. (IF pc' = "encrypt" THEN size' ELSE Len(file'))
    BY <1>1, <1>2 DEF Damage
  <2>. QED BY <1>1, <1>2, <2>1 DEF TypeOK, Damage
<1>4. Chained'
  BY <1>1, <1>2 DEF Chained, Damage
<1>5. Opening'
  BY <1>1 DEF Opening, Damage
<1>. QED BY <1>1, <1>3, <1>4, <1>5 DEF StreamInv, Damage

LEMMA DecryptStartStream ==
  ASSUME StreamInv, DecryptStart
  PROVE  StreamInv'
BY DEF StreamInv, DecryptStart, TypeOK, Chained, Opening, Positions, EndOf

(* What DecryptFile reads.                                                 *)
LEMMA ReadChunk ==
  ASSUME TypeOK, pc = "decrypt", NEW n \in ReadLengths("decrypt", Len(file) - pos, DecryptBuffer)
  PROVE  /\ n \in Nat /\ n >= 1 /\ pos \in Nat /\ pos + n <= Len(file)
         /\ SubSeq(file, pos + 1, pos + n) \in Seq(Bytes)
         /\ Len(SubSeq(file, pos + 1, pos + n)) = n
         /\ \A i \in 1 .. n : SubSeq(file, pos + 1, pos + n)[i] = file[pos + i]
<1>1. /\ pos \in Nat /\ Len(file) \in Nat /\ Len(file) - pos \in Nat /\ DecryptBuffer \in Nat \ {0}
      /\ file \in Seq(Bytes)
  BY SizeIsNat DEF TypeOK, DecryptBuffer
<1>2. n \in Nat /\ 1 <= n /\ pos + n <= Len(file)
  BY <1>1, Reads
<1>. DEFINE a == pos + 1  b == pos + n
<1>3. a \in Nat \ {0} /\ b \in Nat /\ a <= b + 1 /\ b <= Len(file) /\ b - a + 1 = n
  BY <1>1, <1>2
<1>4. \A i \in 1 .. n : a + i - 1 = pos + i
  BY <1>1, <1>2
<1>. HIDE DEF a, b
<1>5. /\ SubSeq(file, a, b) \in Seq(Bytes) /\ Len(SubSeq(file, a, b)) = b - a + 1
      /\ \A i \in 1 .. (b - a + 1) : SubSeq(file, a, b)[i] = file[a + i - 1]
  BY <1>1, <1>3, Slice
<1>6. /\ SubSeq(file, a, b) \in Seq(Bytes) /\ Len(SubSeq(file, a, b)) = n
      /\ \A i \in 1 .. n : SubSeq(file, a, b)[i] = file[pos + i]
  BY <1>3, <1>4, <1>5
<1>. QED BY <1>1, <1>2, <1>6 DEF a, b

(* A chunk that Open accepts starts where the output ends.                 *)
LEMMA AcceptedChunk ==
  ASSUME StreamInv, pc = "decrypt", NEW n \in Nat, n >= 1, pos + n <= Len(file),
         NEW bytes \in Seq(Bytes), Len(bytes) = n, \A i \in 1 .. n : bytes[i] = file[pos + i],
         Authentic(bytes, chunkNum)
  PROVE  /\ file[pos + 1].nonce = chunkNum
         /\ file[pos + 1].from = Len(written)
         /\ file[pos + 1].i = 1
         /\ n = file[pos + 1].len + TagSize
         /\ EndOf(file[pos + 1]) <= size
         /\ Opened(bytes) = [i \in 1 .. file[pos + 1].len |-> Len(written) + i]
         /\ file[pos + n] = Byte(chunkNum, Len(written), file[pos + 1].len, n)
<1>1. /\ TypeOK /\ Chained /\ Opening
      /\ pos \in Nat /\ Len(file) \in Nat /\ file \in Seq(Bytes) /\ chunkNum \in Nat
  BY SizeIsNat DEF StreamInv, TypeOK
<1>2. 1 \in 1 .. n /\ n \in 1 .. n /\ bytes # <<>>
  OBVIOUS
<1>3. bytes[1] = file[pos + 1] /\ bytes[n] = file[pos + n]
  BY <1>2
<1>4. /\ bytes[1].nonce = chunkNum /\ bytes[1].i = 1
      /\ Len(bytes) = bytes[1].len + TagSize
      /\ Opened(bytes) = [i \in 1 .. bytes[1].len |-> bytes[1].from + i]
      /\ \A i \in 1 .. Len(bytes) : bytes[i] = Byte(chunkNum, bytes[1].from, bytes[1].len, i)
  BY <1>2, Opens
<1>5. bytes[n] = Byte(chunkNum, bytes[1].from, bytes[1].len, n)
  BY <1>2, <1>4
<1>6. pos + 1 \in Positions
  BY <1>1 DEF Positions
<1>7. file[pos + 1].nonce = chunkNum
  BY <1>3, <1>4
<1>8. file[pos + 1].from = Len(written)
  <2>1. CASE chunkNum = 0
    <3>1. Len(written) = 0
      BY <1>1, <2>1 DEF Opening
    <3>. QED BY <1>1, <1>6, <1>7, <2>1, <3>1 DEF Chained
  <2>2. CASE chunkNum > 0
    <3>1. PICK k \in Positions : file[k].nonce + 1 = chunkNum /\ EndOf(file[k]) = Len(written)
      BY <1>1, <2>2 DEF Opening
    <3>. QED BY <1>1, <1>6, <1>7, <3>1 DEF Chained
  <2>. QED BY <1>1, <2>1, <2>2
<1>9. EndOf(file[pos + 1]) <= size
  BY <1>1, <1>6 DEF Chained
<1>. QED BY <1>3, <1>4, <1>5, <1>7, <1>8, <1>9

LEMMA DecryptChunkStream ==
  ASSUME StreamInv, DecryptChunk
  PROVE  StreamInv'
<1>1. /\ TypeOK /\ Chained /\ Opening /\ pc = "decrypt"
      /\ UNCHANGED <<size, file, damaged>> /\ size \in Nat /\ chunkNum \in Nat
  BY SizeIsNat DEF StreamInv, DecryptChunk, TypeOK
<1>2. PICK n \in ReadLengths("decrypt", Len(file) - pos, DecryptBuffer) :
        LET bytes == SubSeq(file, pos + 1, pos + n) IN
        /\ short' = (short \/ n < Most(Len(file) - pos, DecryptBuffer))
        /\ \/ /\ Authentic(bytes, chunkNum)
              /\ written' = written \o Opened(bytes)
              /\ pos' = pos + n
              /\ chunkNum' = chunkNum + 1
              /\ UNCHANGED pc
           \/ /\ ~Authentic(bytes, chunkNum)
              /\ pc' = "refused"
              /\ UNCHANGED <<written, pos, chunkNum>>
  BY DEF DecryptChunk
<1>. DEFINE bytes == SubSeq(file, pos + 1, pos + n)
<1>3. /\ n \in Nat /\ n >= 1 /\ pos \in Nat /\ pos + n <= Len(file)
      /\ bytes \in Seq(Bytes) /\ Len(bytes) = n
      /\ \A i \in 1 .. n : bytes[i] = file[pos + i]
  BY <1>1, ReadChunk
<1>4. short' \in BOOLEAN
  BY <1>1, <1>2 DEF TypeOK
<1>5. \/ /\ Authentic(bytes, chunkNum)
         /\ written' = written \o Opened(bytes)
         /\ pos' = pos + n
         /\ chunkNum' = chunkNum + 1
         /\ pc' = pc
      \/ /\ pc' = "refused"
         /\ UNCHANGED <<written, pos, chunkNum>>
  BY <1>2
<1>. HIDE DEF bytes
<1>6. Chained'
  BY <1>1 DEF Chained, Positions, EndOf
<1>7. CASE UNCHANGED <<written, pos, chunkNum>> /\ pc' = "refused"
  BY <1>1, <1>4, <1>6, <1>7 DEF StreamInv, TypeOK, Opening, Positions, EndOf
<1>8. CASE /\ Authentic(bytes, chunkNum)
           /\ written' = written \o Opened(bytes)
           /\ pos' = pos + n
           /\ chunkNum' = chunkNum + 1
           /\ pc' = pc
  <2>. DEFINE first == file[pos + 1]  out == Opened(bytes)
  <2>1. /\ first.nonce = chunkNum
        /\ first.from = Len(written)
        /\ EndOf(first) <= size
        /\ out = [i \in 1 .. first.len |-> Len(written) + i]
    BY <1>1, <1>3, <1>8, AcceptedChunk
  <2>2. /\ pos + 1 \in Positions /\ first \in Bytes
        /\ written \in Seq(1 .. size) /\ Len(written) \in Nat
    BY <1>1, <1>3 DEF TypeOK, Positions
  <2>3. first.len \in Nat /\ EndOf(first) = Len(written) + first.len
    BY <2>1, <2>2 DEF Bytes, EndOf
  <2>. HIDE DEF out, first
  <2>4. /\ out \in Seq(1 .. size) /\ Len(out) = first.len
        /\ \A i \in 1 .. first.len : out[i] = Len(written) + i
    <3>1. \A i \in 1 .. first.len : Len(written) + i \in 1 .. size
      BY <1>1, <2>1, <2>2, <2>3
    <3>2. Len(out) = first.len /\ \A i \in 1 .. first.len : out[i] = Len(written) + i
      BY <2>1, <2>3
    <3>3. out \in Seq(1 .. size)
      <4>1. out \in [1 .. first.len -> 1 .. size]
        BY <2>1, <3>1
      <4>. QED BY <2>3, <4>1, FunctionIsSeq
    <3>. QED BY <3>2, <3>3
  <2>5. /\ written \o out \in Seq(1 .. size)
        /\ Len(written \o out) = Len(written) + Len(out)
        /\ \A i \in 1 .. (Len(written) + Len(out)) :
             (written \o out)[i] = IF i <= Len(written) THEN written[i] ELSE out[i - Len(written)]
    BY <2>2, <2>4, ConcatProperties
  <2>6. /\ written' \in Seq(1 .. size) /\ Len(written') = Len(written) + first.len
        /\ \A i \in 1 .. Len(written') :
             written'[i] = IF i <= Len(written) THEN written[i] ELSE out[i - Len(written)]
    BY <1>8, <2>4, <2>5 DEF out
  <2>7. \A i \in 1 .. Len(written') : written'[i] = i
    <3>. SUFFICES ASSUME NEW i \in 1 .. Len(written') PROVE written'[i] = i
      OBVIOUS
    <3>1. CASE i <= Len(written)
      <4>1. \A k \in 1 .. Len(written) : written[k] = k
        BY <1>1 DEF Opening
      <4>. QED BY <2>2, <2>6, <3>1, <4>1
    <3>2. CASE ~(i <= Len(written))
      <4>1. i - Len(written) \in 1 .. first.len
        BY <2>2, <2>3, <2>6, <3>2
      <4>2. out[i - Len(written)] = Len(written) + (i - Len(written))
        BY <2>4, <4>1
      <4>. QED BY <2>2, <2>6, <3>2, <4>2
    <3>. QED BY <3>1, <3>2
  <2>8. written' = [i \in 1 .. Len(written') |-> i]
    BY <2>6, <2>7
  <2>9. chunkNum' \in 0 .. size'
    <3>1. first.nonce < size
      BY <1>1, <2>2 DEF Chained, first
    <3>. QED BY <1>1, <1>8, <2>1, <3>1
  <2>10. TypeOK'
    <3>1. pos' \in 0 .. (IF pc' = "encrypt" THEN size' ELSE Len(file'))
      BY <1>1, <1>3, <1>8
    <3>. QED BY <1>1, <1>4, <1>8, <2>6, <2>9, <3>1 DEF TypeOK
  <2>11. Opening'
    <3>1. file[pos + 1].nonce + 1 = chunkNum' /\ EndOf(file[pos + 1]) = Len(written')
      BY <1>8, <2>1, <2>3, <2>6 DEF first
    <3>2. chunkNum' # 0
      BY <1>1, <1>8
    <3>. QED BY <1>1, <2>2, <2>8, <3>1, <3>2 DEF Opening, Positions, EndOf
  <2>. QED BY <1>1, <1>6, <1>8, <2>10, <2>11 DEF StreamInv
<1>. QED BY <1>5, <1>7, <1>8

LEMMA DecryptEndStream ==
  ASSUME StreamInv, DecryptEnd
  PROVE  StreamInv'
BY DEF StreamInv, DecryptEnd, TypeOK, Chained, Opening, Positions, EndOf

LEMMA StreamStep == StreamInv /\ [Next]_vars => StreamInv'
<1>. SUFFICES ASSUME StreamInv, [Next]_vars PROVE StreamInv'
  OBVIOUS
<1>1. CASE UNCHANGED vars
  BY <1>1 DEF StreamInv, vars, TypeOK, Chained, Sealing, Opening, Positions, EndOf
<1>. QED
  BY <1>1, EncryptChunkStream, EncryptEndStream, DamageStream, DecryptStartStream,
     DecryptChunkStream, DecryptEndStream
  DEF Next

LEMMA StreamInvariant == Spec => []StreamInv
BY InitStream, StreamStep, PTL DEF Spec

(* Every value of the two commands has its type: the counters do not run   *)
(* past the input, whatever the reads return (EncryptFile, DecryptFile).   *)
THEOREM ChunkTypeCorrect == Spec => []TypeOK
<1>1. StreamInv => TypeOK
  BY DEF StreamInv
<1>. QED BY <1>1, StreamInvariant, PTL

(* For every chunk size, every file, every way the reads fall and every    *)
(* truncation or loss of a range, what DecryptFile has written is the      *)
(* beginning of the input: the counter nonce admits no other chunk at its  *)
(* place.                                                                  *)
THEOREM OutputAlwaysPrefix == Spec => []OutputIsPrefix
<1>1. StreamInv => OutputIsPrefix
  <2>1. StreamInv /\ pc = "encrypt" => OutputIsPrefix
    <3>1. <<>> = [i \in 1 .. Len(<<>>) |-> i]
      OBVIOUS
    <3>. QED BY <3>1 DEF StreamInv, Sealing, OutputIsPrefix
  <2>2. StreamInv /\ pc # "encrypt" => OutputIsPrefix
    BY DEF StreamInv, Opening, OutputIsPrefix
  <2>. QED BY <2>1, <2>2
<1>. QED BY <1>1, StreamInvariant, PTL

-----------------------------------------------------------------------------
(* The file as EncryptFile wrote it.                                       *)

(* The chunk that the byte at k was sealed in is whole, around k.          *)
Whole(k) ==
  /\ file[k].len \in 1 .. ChunkSize
  /\ file[k].i <= k
  /\ file[k].i <= file[k].len + TagSize
  /\ k - file[k].i + file[k].len + TagSize <= Len(file)
  /\ \A m \in 1 .. (file[k].len + TagSize) :
       file[k - file[k].i + m] = Byte(file[k].nonce, file[k].from, file[k].len, m)

EndsChunk(k) == file[k].i = file[k].len + TagSize

(* Chunks in the order of their nonces, without a gap between them.        *)
InOrder ==
  /\ \A k \in Positions : Whole(k)
  /\ \A k \in Positions : k > 1 /\ EndsChunk(k - 1) =>
       file[k].i = 1 /\ file[k].nonce = file[k - 1].nonce + 1
  /\ file # <<>> => file[1].i = 1 /\ file[1].nonce = 0 /\ EndsChunk(Len(file))

(* The last chunk ends where EncryptFile is, and then at the end of the    *)
(* input.                                                                  *)
Complete ==
  /\ pc = "encrypt" /\ file # <<>> => file[Len(file)].nonce + 1 = chunkNum
  /\ pc # "encrypt" /\ file # <<>> => EndOf(file[Len(file)]) = size
  /\ pc # "encrypt" /\ file = <<>> => size = 0

(* Only the last chunk is smaller than the buffer.                         *)
FullChunks == ~short => \A k \in Positions : file[k].len = ChunkSize \/ EndOf(file[k]) = size

(* DecryptFile stands at the end of a chunk.                               *)
BetweenChunks ==
  /\ pc \in {"decrypt", "ok", "refused"} =>
       IF pos = 0 THEN chunkNum = 0 ELSE file[pos].nonce + 1 = chunkNum /\ EndsChunk(pos)
  /\ pc = "ok" => pos = Len(file)
  /\ pc = "refused" => short

FrameInv == ~damaged => InOrder /\ Complete /\ FullChunks /\ BetweenChunks

LEMMA InitFrame == Init => FrameInv
BY DEF Init, FrameInv, InOrder, Complete, FullChunks, BetweenChunks, Positions

LEMMA EncryptChunkFrame ==
  ASSUME StreamInv, FrameInv, EncryptChunk
  PROVE  FrameInv'
<1>1. TypeOK /\ Sealing /\ pc = "encrypt" /\ pc' = "encrypt"
  BY DEF StreamInv, EncryptChunk
<1>2. PICK n \in ReadLengths("encrypt", size - pos, ChunkSize) :
        /\ file' = file \o Sealed(chunkNum, pos, n)
        /\ pos' = pos + n
        /\ short' = (short \/ n < Most(size - pos, ChunkSize))
  BY DEF EncryptChunk
<1>3. /\ file' \in Seq(Bytes)
      /\ Len(file') = Len(file) + n + TagSize
      /\ \A k \in 1 .. Len(file) : file'[k] = file[k]
      /\ \A k \in (Len(file) + 1) .. Len(file') : file'[k] = Byte(chunkNum, pos, n, k - Len(file))
      /\ n \in Nat /\ 1 <= n /\ pos + n <= size
  BY <1>1, <1>2, ChunkAppended
<1>4. /\ size \in Nat /\ pos \in Nat /\ chunkNum \in Nat /\ Len(file) \in Nat /\ file \in Seq(Bytes)
      /\ size - pos \in Nat
      /\ chunkNum' = chunkNum + 1 /\ UNCHANGED <<size, written, damaged>> /\ ~damaged
  BY <1>1, SizeIsNat DEF TypeOK, EncryptChunk, Sealing
<1>5. InOrder /\ Complete /\ FullChunks
  BY <1>4 DEF FrameInv
<1>6. n <= ChunkSize
  BY <1>4, Reads
<1>. DEFINE Old == 1 .. Len(file)
            New == (Len(file) + 1) .. Len(file')
<1>7. Positions' = Old \union New
  BY <1>3, <1>4 DEF Positions
<1>8. \A k \in New : /\ file'[k] = Byte(chunkNum, pos, n, k - Len(file))
                     /\ file'[k].nonce = chunkNum /\ file'[k].from = pos
                     /\ file'[k].len = n /\ file'[k].i = k - Len(file)
  BY <1>3 DEF Byte
<1>9. \A k \in Old : file'[k] = file[k] /\ file[k] \in Bytes
  BY <1>3, <1>4
<1>10. \A k \in Positions' : Whole(k)'
  <2>1. ASSUME NEW k \in Old PROVE Whole(k)'
    <3>1. Whole(k) /\ file'[k] = file[k] /\ file[k] \in Bytes
      BY <1>5, <1>9 DEF InOrder, Positions
    <3>2. file[k].len \in Nat /\ file[k].i \in Nat
      BY <3>1 DEF Bytes
    <3>3. ASSUME NEW m \in 1 .. (file[k].len + TagSize)
          PROVE  file'[k - file[k].i + m] = Byte(file[k].nonce, file[k].from, file[k].len, m)
      <4>1. k - file[k].i + m \in Old
        BY <1>4, <3>1, <3>2, SMTT(30) DEF Whole
      <4>. QED BY <1>9, <3>1, <4>1 DEF Whole
    <3>. QED BY <1>3, <1>4, <3>1, <3>2, <3>3, SMTT(30) DEF Whole, Byte
  <2>2. ASSUME NEW k \in New PROVE Whole(k)'
    <3>1. /\ file'[k].nonce = chunkNum /\ file'[k].from = pos
          /\ file'[k].len = n /\ file'[k].i = k - Len(file) /\ k \in Int
      BY <1>8, <1>3, <1>4
    <3>2. ASSUME NEW m \in 1 .. (n + TagSize)
          PROVE  file'[Len(file) + m] = Byte(chunkNum, pos, n, m)
      <4>1. Len(file) + m \in New /\ Len(file) + m - Len(file) = m
        BY <1>3, <1>4
      <4>. QED BY <1>8, <4>1
    <3>3. /\ file'[k].len \in 1 .. ChunkSize /\ file'[k].i <= k
          /\ file'[k].i <= file'[k].len + TagSize /\ k - file'[k].i = Len(file)
          /\ k - file'[k].i + file'[k].len + TagSize <= Len(file')
      BY <1>3, <1>4, <1>6, <3>1
    <3>. QED BY <3>1, <3>2, <3>3 DEF Whole, Byte
  <2>. QED BY <1>7, <2>1, <2>2
<1>11. \A k \in Positions' : k > 1 /\ EndsChunk(k - 1)' =>
         file'[k].i = 1 /\ file'[k].nonce = file'[k - 1].nonce + 1
  <2>1. ASSUME NEW k \in Old, k > 1, EndsChunk(k - 1)'
        PROVE  file'[k].i = 1 /\ file'[k].nonce = file'[k - 1].nonce + 1
    <3>1. k - 1 \in Old
      BY <1>4, <2>1
    <3>. QED BY <1>5, <1>9, <2>1, <3>1 DEF InOrder, Positions, EndsChunk
  <2>2. ASSUME NEW k \in New, k > 1, EndsChunk(k - 1)'
        PROVE  file'[k].i = 1 /\ file'[k].nonce = file'[k - 1].nonce + 1
    <3>1. CASE k = Len(file) + 1
      <4>1. file # <<>> /\ k - 1 = Len(file) /\ Len(file) \in Old
        BY <1>4, <2>2, <3>1
      <4>2. file'[k].i = 1 /\ file'[k].nonce = chunkNum
        BY <1>4, <1>8, <3>1
      <4>3. file'[k - 1] = file[Len(file)]
        BY <1>9, <4>1
      <4>4. file[Len(file)].nonce + 1 = chunkNum
        BY <1>1, <1>5, <4>1 DEF Complete
      <4>. QED BY <4>2, <4>3, <4>4
    <3>2. CASE k # Len(file) + 1
      <4>1. k - 1 \in New /\ k <= Len(file) + n + TagSize
        BY <1>3, <1>4, <2>2, <3>2, SMTT(30)
      <4>2. file'[k - 1].i = n + TagSize /\ file'[k - 1].i = k - 1 - Len(file)
        BY <1>8, <2>2, <4>1 DEF EndsChunk
      <4>3. FALSE
        <5>. DEFINE i == file'[k - 1].i  length == Len(file)
        <5>1. i = n + TagSize /\ i = k - 1 - length
          BY <4>2
        <5>2. k <= length + n + TagSize
          BY <4>1
        <5>3. length \in Nat /\ n \in Nat /\ TagSize \in Nat /\ k \in Int
          BY <1>3, <1>4
        <5>. HIDE DEF i, length
        <5>. QED BY <5>1, <5>2, <5>3
      <4>. QED BY <4>3
    <3>. QED BY <3>1, <3>2
  <2>. QED BY <1>7, <2>1, <2>2
<1>12. Len(file') \in New /\ Len(file) + 1 \in New /\ file' # <<>>
  BY <1>3, <1>4
<1>13. file'[1].i = 1 /\ file'[1].nonce = 0
  <2>1. CASE file = <<>>
    <3>1. Len(file) = 0 /\ chunkNum = 0 /\ 1 \in New
      BY <1>1, <1>3, <1>4, <2>1 DEF Sealing
    <3>. QED BY <1>8, <3>1
  <2>2. CASE file # <<>>
    <3>1. 1 \in Old
      BY <1>4, <2>2
    <3>. QED BY <1>5, <1>9, <2>2, <3>1 DEF InOrder
  <2>. QED BY <2>1, <2>2
<1>14. file'[Len(file')].nonce + 1 = chunkNum' /\ EndsChunk(Len(file))'
  BY <1>3, <1>4, <1>8, <1>12, SMTT(30) DEF EndsChunk
<1>15. ~short' => \A k \in Positions' : file'[k].len = ChunkSize \/ EndOf(file'[k]) = size
  <2>1. ASSUME ~short', NEW k \in Old PROVE file'[k].len = ChunkSize \/ EndOf(file'[k]) = size
    BY <1>2, <1>5, <1>9, <2>1 DEF FullChunks, Positions
  <2>2. ASSUME ~short', NEW k \in New PROVE file'[k].len = ChunkSize \/ EndOf(file'[k]) = size
    <3>1. ~(n < Most(size - pos, ChunkSize)) /\ n <= Most(size - pos, ChunkSize)
      BY <1>2, <1>4, <2>2, Reads
    <3>2. n = ChunkSize \/ n = size - pos
      BY <1>3, <1>4, <3>1 DEF Most
    <3>3. file'[k].len = n /\ file'[k].from = pos
      BY <1>8
    <3>. QED BY <1>3, <1>4, <3>2, <3>3 DEF EndOf
  <2>. QED BY <1>7, <2>1, <2>2
<1>. HIDE DEF Old, New
<1>16. InOrder'
  BY <1>10, <1>11, <1>13, <1>14 DEF InOrder, EndsChunk
<1>17. Complete'
  BY <1>1, <1>14 DEF Complete
<1>18. FullChunks'
  BY <1>4, <1>15 DEF FullChunks, EndOf
<1>. QED BY <1>1, <1>16, <1>17, <1>18 DEF FrameInv, BetweenChunks

LEMMA EncryptEndFrame ==
  ASSUME StreamInv, FrameInv, EncryptEnd
  PROVE  FrameInv'
<1>1. TypeOK /\ Sealing /\ pc = "encrypt" /\ pos = size /\ pc' = "stored" /\ pos' = 0 /\ chunkNum' = 0
      /\ UNCHANGED <<size, file, written, short, damaged>> /\ ~damaged
  BY DEF StreamInv, EncryptEnd, Sealing
<1>2. InOrder /\ Complete /\ FullChunks
  BY <1>1 DEF FrameInv
<1>3. Complete'
  <2>1. CASE file = <<>>
    <3>1. size = 0
      BY <1>1, <2>1 DEF Sealing, TypeOK
    <3>. QED BY <1>1, <2>1, <3>1 DEF Complete
  <2>2. CASE file # <<>>
    <3>1. Len(file) \in Positions
      BY <1>1, <2>2 DEF TypeOK, Positions
    <3>2. EndOf(file[Len(file)]) = size
      BY <1>1, <1>2, <2>2, <3>1 DEF Complete, Sealing
    <3>. QED BY <1>1, <2>2, <3>2 DEF Complete, EndOf
  <2>. QED BY <2>1, <2>2
<1>4. InOrder' /\ FullChunks' /\ BetweenChunks'
  BY <1>1, <1>2 DEF InOrder, FullChunks, BetweenChunks, Positions, Whole, EndsChunk, EndOf, Byte
<1>. QED BY <1>3, <1>4 DEF FrameInv

LEMMA DecryptStartFrame ==
  ASSUME StreamInv, FrameInv, DecryptStart
  PROVE  FrameInv'
<1>1. pc = "stored" /\ pc' = "decrypt" /\ pos = 0 /\ chunkNum = 0
      /\ UNCHANGED <<size, file, pos, chunkNum, written, short, damaged>>
  BY DEF StreamInv, DecryptStart
<1>. SUFFICES ASSUME ~damaged' PROVE InOrder' /\ Complete' /\ FullChunks' /\ BetweenChunks'
  BY DEF FrameInv
<1>2. InOrder /\ Complete /\ FullChunks
  BY <1>1 DEF FrameInv
<1>3. InOrder' /\ FullChunks'
  BY <1>1, <1>2 DEF InOrder, FullChunks, Positions, Whole, EndsChunk, EndOf, Byte
<1>4. Complete' /\ BetweenChunks'
  BY <1>1, <1>2 DEF Complete, BetweenChunks, EndOf
<1>. QED BY <1>3, <1>4

(* Where DecryptFile reads next, a chunk begins.                           *)
LEMMA ChunkBegins ==
  ASSUME TypeOK, InOrder, BetweenChunks, pc = "decrypt", pos < Len(file)
  PROVE  /\ pos + 1 \in Positions
         /\ file[pos + 1].i = 1 /\ file[pos + 1].nonce = chunkNum
<1>1. pos \in Nat /\ Len(file) \in Nat /\ file # <<>> /\ pos + 1 \in Positions
  BY DEF TypeOK, Positions
<1>2. CASE pos = 0
  BY <1>1, <1>2 DEF InOrder, BetweenChunks
<1>3. CASE pos # 0
  <2>1. pos + 1 > 1 /\ pos + 1 - 1 = pos
    BY <1>1, <1>3
  <2>2. EndsChunk(pos) /\ file[pos].nonce + 1 = chunkNum
    BY <1>3 DEF BetweenChunks
  <2>. QED BY <1>1, <2>1, <2>2 DEF InOrder
<1>. QED BY <1>2, <1>3

(* After a chunk that is smaller than the buffer of EncryptFile and ends   *)
(* the input, the file ends.                                               *)
LEMMA NothingAfterTheEnd ==
  ASSUME TypeOK, Chained, InOrder, NEW p \in Positions, file[p].i = 1, EndOf(file[p]) = size
  PROVE  p - 1 + file[p].len + TagSize = Len(file)
<1>. DEFINE b == file[p]  last == p - 1 + b.len + TagSize
<1>1. /\ Whole(p) /\ Len(file) \in Nat /\ p \in Nat /\ p >= 1 /\ b \in Bytes
      /\ file \in Seq(Bytes) /\ size \in Nat
  BY SizeIsNat DEF InOrder, TypeOK, Positions
<1>2. b.len \in Nat /\ b.from \in Nat /\ b.nonce \in Nat /\ b.len >= 1
  BY <1>1 DEF Bytes, Whole
<1>3. last \in Nat /\ last <= Len(file) /\ last \in Positions
  BY <1>1, <1>2 DEF Whole, Positions
<1>4. b.len + TagSize \in 1 .. (b.len + TagSize) /\ p - b.i + (b.len + TagSize) = last
  BY <1>1, <1>2, SMTT(30)
<1>5. file[last] = Byte(b.nonce, b.from, b.len, b.len + TagSize)
  BY <1>1, <1>4 DEF Whole
<1>6. EndsChunk(last) /\ file[last].nonce = b.nonce /\ EndOf(file[last]) = size
  BY <1>5 DEF EndsChunk, Byte, EndOf
<1>. HIDE DEF last
<1>7. ASSUME last < Len(file) PROVE FALSE
  <2>1. last + 1 \in Positions /\ last + 1 > 1 /\ last + 1 - 1 = last
    BY <1>1, <1>3, <1>7 DEF Positions
  <2>2. file[last + 1].nonce = file[last].nonce + 1
    <3>. DEFINE k == last + 1
    <3>1. k \in Positions /\ k > 1 /\ k - 1 = last
      BY <1>1, <1>3, <2>1
    <3>. HIDE DEF k
    <3>2. EndsChunk(k - 1)
      BY <1>6, <3>1
    <3>3. file[k].nonce = file[k - 1].nonce + 1
      BY <3>1, <3>2 DEF InOrder
    <3>. QED BY <3>1, <3>3 DEF k
  <2>3. file[last + 1].from = size
    BY <1>3, <1>6, <2>1, <2>2 DEF Chained
  <2>4. EndOf(file[last + 1]) <= size
    BY <2>1 DEF Chained
  <2>5. file[last + 1].len \in Nat /\ file[last + 1].len >= 1
    BY <2>1 DEF InOrder, Whole
  <2>. QED BY <1>1, <2>3, <2>4, <2>5 DEF EndOf
<1>8. last = Len(file)
  BY <1>1, <1>3, <1>7
<1>. QED BY <1>8 DEF last

(* A Read that returned all there was returned one whole chunk.            *)
LEMMA WholeChunkOpens ==
  ASSUME StreamInv, InOrder, FullChunks, BetweenChunks, pc = "decrypt", ~short,
         NEW n \in Nat, n >= 1, pos + n <= Len(file),
         n = Most(Len(file) - pos, DecryptBuffer),
         NEW bytes \in Seq(Bytes), Len(bytes) = n, \A i \in 1 .. n : bytes[i] = file[pos + i]
  PROVE  Authentic(bytes, chunkNum)
<1>. DEFINE p == pos + 1  b == file[p]
<1>1. /\ TypeOK /\ Chained /\ pos \in Nat /\ Len(file) \in Nat /\ file \in Seq(Bytes) /\ pos < Len(file)
      /\ chunkNum \in Nat
  BY SizeIsNat DEF StreamInv, TypeOK
<1>2. p \in Positions /\ b.i = 1 /\ b.nonce = chunkNum /\ b \in Bytes
  BY <1>1, ChunkBegins DEF Positions
<1>3. Whole(p) /\ b.len \in Nat /\ (b.len = ChunkSize \/ EndOf(b) = size)
  BY <1>2 DEF InOrder, FullChunks, Bytes
<1>4. /\ b.len <= ChunkSize /\ pos + b.len + TagSize <= Len(file)
      /\ \A m \in 1 .. (b.len + TagSize) : file[pos + m] = Byte(chunkNum, b.from, b.len, m)
  <2>1. p - b.i = pos
    BY <1>1, <1>2
  <2>. HIDE DEF b
  <2>. QED BY <1>1, <1>2, <1>3, <2>1 DEF Whole, b
<1>5. n = b.len + TagSize
  <2>1. CASE b.len = ChunkSize
    BY <1>1, <1>4, <2>1 DEF Most, DecryptBuffer
  <2>2. CASE EndOf(b) = size
    <3>1. p - 1 + b.len + TagSize = Len(file)
      BY <1>1, <1>2, <2>2, NothingAfterTheEnd
    <3>. QED BY <1>1, <1>3, <1>4, <3>1, SMTT(30) DEF Most, DecryptBuffer
  <2>. QED BY <1>3, <2>1, <2>2
<1>6. \A i \in 1 .. n : bytes[i] = Byte(chunkNum, b.from, b.len, i)
  BY <1>4, <1>5
<1>7. Head(bytes) = bytes[1] /\ 1 \in 1 .. n /\ Head(bytes).from = b.from
  BY <1>6 DEF Byte
<1>8. Len(bytes) - TagSize = b.len
  BY <1>3, <1>5
<1>9. bytes = [i \in 1 .. n |-> bytes[i]]
  OBVIOUS
<1>. HIDE DEF b
<1>10. bytes = [i \in 1 .. (b.len + TagSize) |-> Byte(chunkNum, b.from, b.len, i)]
  BY <1>5, <1>6, <1>9
<1>11. bytes = Sealed(chunkNum, b.from, b.len)
  BY <1>10 DEF Sealed, Nonce, Byte
<1>. QED BY <1>7, <1>8, <1>11 DEF Authentic

LEMMA DecryptChunkFrame ==
  ASSUME StreamInv, FrameInv, DecryptChunk
  PROVE  FrameInv'
<1>. SUFFICES ASSUME ~damaged' PROVE InOrder' /\ Complete' /\ FullChunks' /\ BetweenChunks'
  BY DEF FrameInv
<1>1. /\ TypeOK /\ pc = "decrypt" /\ UNCHANGED <<size, file, damaged>> /\ ~damaged
      /\ chunkNum \in Nat
  BY SizeIsNat DEF StreamInv, DecryptChunk, TypeOK
<1>2. InOrder /\ Complete /\ FullChunks /\ BetweenChunks
  BY <1>1 DEF FrameInv
<1>3. PICK n \in ReadLengths("decrypt", Len(file) - pos, DecryptBuffer) :
        LET bytes == SubSeq(file, pos + 1, pos + n) IN
        /\ short' = (short \/ n < Most(Len(file) - pos, DecryptBuffer))
        /\ \/ /\ Authentic(bytes, chunkNum)
              /\ written' = written \o Opened(bytes)
              /\ pos' = pos + n
              /\ chunkNum' = chunkNum + 1
              /\ UNCHANGED pc
           \/ /\ ~Authentic(bytes, chunkNum)
              /\ pc' = "refused"
              /\ UNCHANGED <<written, pos, chunkNum>>
  BY DEF DecryptChunk
<1>. DEFINE bytes == SubSeq(file, pos + 1, pos + n)
<1>4. /\ n \in Nat /\ n >= 1 /\ pos \in Nat /\ pos + n <= Len(file)
      /\ bytes \in Seq(Bytes) /\ Len(bytes) = n
      /\ \A i \in 1 .. n : bytes[i] = file[pos + i]
  BY <1>1, ReadChunk
<1>5. short' = (short \/ n < Most(Len(file) - pos, DecryptBuffer))
  BY <1>3
<1>6. \/ /\ Authentic(bytes, chunkNum)
         /\ pos' = pos + n
         /\ chunkNum' = chunkNum + 1
         /\ pc' = pc
      \/ /\ ~Authentic(bytes, chunkNum)
         /\ pc' = "refused"
         /\ UNCHANGED <<pos, chunkNum>>
  BY <1>3
<1>. HIDE DEF bytes
<1>7. ~short' => ~short
  BY <1>5
<1>8. InOrder'
  BY <1>1, <1>2 DEF InOrder, Positions, Whole, EndsChunk, Byte
<1>9. FullChunks'
  BY <1>1, <1>2, <1>7 DEF FullChunks, Positions, EndOf
<1>10. Complete'
  BY <1>1, <1>2, <1>6 DEF Complete, EndOf
<1>11. BetweenChunks'
  <2>1. CASE Authentic(bytes, chunkNum) /\ pos' = pos + n /\ chunkNum' = chunkNum + 1 /\ pc' = pc
    <3>1. /\ n = file[pos + 1].len + TagSize
          /\ file[pos + n] = Byte(chunkNum, Len(written), file[pos + 1].len, n)
      BY <1>1, <1>4, <2>1, AcceptedChunk
    <3>2. file[pos + n].nonce = chunkNum /\ EndsChunk(pos + n)
      BY <3>1 DEF Byte, EndsChunk
    <3>. QED BY <1>1, <1>4, <2>1, <3>2 DEF BetweenChunks, EndsChunk
  <2>2. CASE ~Authentic(bytes, chunkNum) /\ pc' = "refused" /\ UNCHANGED <<pos, chunkNum>>
    <3>1. short'
      <4>1. SUFFICES ASSUME ~short' PROVE FALSE
        OBVIOUS
      <4>2. /\ Len(file) - pos \in Nat /\ DecryptBuffer \in Nat \ {0}
            /\ n <= Most(Len(file) - pos, DecryptBuffer)
            /\ Most(Len(file) - pos, DecryptBuffer) \in Nat
        BY <1>1, <1>4, Reads DEF DecryptBuffer, TypeOK, Most
      <4>3. ~short /\ n = Most(Len(file) - pos, DecryptBuffer)
        <5>1. ~short /\ ~(n < Most(Len(file) - pos, DecryptBuffer))
          BY <1>5, <4>1
        <5>. QED BY <1>4, <4>2, <5>1
      <4>. QED BY <1>1, <1>2, <1>4, <2>2, <4>3, WholeChunkOpens
    <3>. QED BY <1>1, <1>2, <2>2, <3>1 DEF BetweenChunks, EndsChunk
  <2>. QED BY <1>6, <2>1, <2>2
<1>. QED BY <1>8, <1>9, <1>10, <1>11

LEMMA DecryptEndFrame ==
  ASSUME StreamInv, FrameInv, DecryptEnd
  PROVE  FrameInv'
BY DEF DecryptEnd, FrameInv, InOrder, Complete, FullChunks, BetweenChunks, Positions, Whole,
       EndsChunk, EndOf, Byte

LEMMA FrameStep == StreamInv /\ FrameInv /\ [Next]_vars => FrameInv'
<1>. SUFFICES ASSUME StreamInv, FrameInv, [Next]_vars PROVE FrameInv'
  OBVIOUS
<1>1. CASE UNCHANGED vars
  BY <1>1 DEF vars, FrameInv, InOrder, Complete, FullChunks, BetweenChunks, Positions, Whole,
              EndsChunk, EndOf, Byte
<1>2. CASE Damage
  BY <1>2 DEF Damage, FrameInv
<1>. QED
  BY <1>1, <1>2, EncryptChunkFrame, EncryptEndFrame, DecryptStartFrame, DecryptChunkFrame,
     DecryptEndFrame
  DEF Next

LEMMA FrameInvariant == Spec => [](StreamInv /\ FrameInv)
<1>1. StreamInv /\ FrameInv /\ [Next]_vars => (StreamInv /\ FrameInv)'
  BY StreamStep, FrameStep
<1>. QED BY InitStream, InitFrame, <1>1, PTL DEF Spec

(* A stored file that nobody damaged comes back whole when DecryptFile     *)
(* succeeds, for every chunk size, every file and every way the reads of   *)
(* both loops fall; and DecryptFile can refuse it only if some Read        *)
(* returned less than there was: the buffer of ChunkSize + TagSize bytes   *)
(* meets the chunks of EncryptFile exactly.                                *)
THEOREM IntactAlwaysRestores == Spec => []IntactRestores
<1>1. StreamInv /\ FrameInv => IntactRestores
  <2>. SUFFICES ASSUME StreamInv, FrameInv, ~damaged
                PROVE  (pc = "ok" => Len(written) = size) /\ (pc = "refused" => short)
    BY DEF IntactRestores
  <2>1. TypeOK /\ InOrder /\ Complete /\ BetweenChunks /\ Chained /\ file \in Seq(Bytes)
    BY DEF FrameInv, StreamInv, TypeOK
  <2>2. ASSUME pc = "ok" PROVE Len(written) = size
    <3>1. pos = Len(file) /\ Opening /\ chunkNum \in Nat /\ Len(file) \in Nat
      BY <2>1, <2>2, SizeIsNat DEF BetweenChunks, StreamInv, TypeOK
    <3>2. CASE file = <<>>
      <4>1. pos = 0 /\ chunkNum = 0 /\ size = 0
        BY <2>1, <2>2, <3>1, <3>2 DEF BetweenChunks, Complete
      <4>. QED BY <3>1, <4>1 DEF Opening
    <3>3. CASE file # <<>>
      <4>1. Len(file) \in Positions /\ pos # 0 /\ file[pos] \in Bytes
        BY <2>1, <3>1, <3>3 DEF Positions
      <4>2. file[pos].nonce + 1 = chunkNum /\ EndOf(file[pos]) = size
        BY <2>1, <2>2, <3>1, <3>3, <4>1 DEF BetweenChunks, Complete
      <4>3. chunkNum > 0
        BY <4>1, <4>2 DEF Bytes
      <4>4. PICK k \in Positions : file[k].nonce + 1 = chunkNum /\ EndOf(file[k]) = Len(written)
        BY <3>1, <4>3 DEF Opening
      <4>5. file[k].nonce = file[pos].nonce
        <5>1. file[k].nonce \in Nat /\ file[pos].nonce \in Nat
          <6>1. \A j \in Positions : file[j] \in Bytes
            BY <2>1 DEF Positions
          <6>. QED BY <3>1, <4>1, <4>4, <6>1 DEF Bytes
        <5>. QED BY <4>2, <4>4, <5>1
      <4>. QED BY <2>1, <3>1, <4>1, <4>2, <4>4, <4>5 DEF Chained
    <3>. QED BY <3>2, <3>3
  <2>3. pc = "refused" => short
    BY <2>1 DEF BetweenChunks
  <2>. QED BY <2>2, <2>3
<1>. QED BY <1>1, FrameInvariant, PTL

=============================================================================
