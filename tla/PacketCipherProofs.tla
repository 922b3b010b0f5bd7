-------------------------- MODULE PacketCipherProofs --------------------------
(***************************************************************************)
(* Proofs about PacketCipher, for every hash function on blocks and every  *)
(* invertible block cipher, every key and every packet.                    *)
(***************************************************************************)
EXTENDS PacketCipher, TLAPS

------------------------------------------------------------------------------
(* What the proofs ask of the algorithms that are parameters.              *)

(* hashBlock() is given a state and a block and leaves both. *)
HashBlockTyped ==
    /\ \A s \in States, b \in Block : Compress(s, b) \in States
    /\ \A b \in Block : Expand(b) \in Block

(* A digest is as long as a key. *)
DigestIsKey == \A s \in States : Digest(s) \in HashedKeys

(* decryptBlock() undoes encryptBlock() under the same schedule. *)
CipherInverts ==
    \A k \in HashedKeys, b \in Blocks :
        /\ Encipher(SetKey(k), b) \in Blocks
        /\ Decipher(SetKey(k), b) \in Blocks
        /\ Decipher(SetKey(k), Encipher(SetKey(k), b)) = b

(* Scrambling twice with the same block restores what was scrambled. *)
XorInverts ==
    \A a, b \in Blocks : XorBlock(a, b) \in Blocks /\ XorBlock(XorBlock(a, b), b) = a

Algorithms == HashBlockTyped /\ DigestIsKey /\ CipherInverts /\ XorInverts

------------------------------------------------------------------------------
(* Arithmetic of the padding.                                              *)

(* The fewest whole blocks that hold n bytes, the mark and the length. *)
LEMMA PaddedLengthFacts ==
    ASSUME NEW n \in Nat
    PROVE  /\ PaddedLength(n) \in Nat
           /\ PaddedLength(n) >= n + 9 /\ PaddedLength(n) <= n + 72
           /\ PaddedLength(n) % 64 = 0
           /\ (PaddedLength(n) - 8) % 64 = 56
  BY DEF PaddedLength

(* The zeros end where they should: within the last block, offset 56 is met
   there and nowhere before. *)
LEMMA ZerosEnd ==
    ASSUME NEW n \in Nat, NEW l \in Nat, l >= n + 1, l <= PaddedLength(n) - 8
    PROVE  l % 64 = 56 <=> l = PaddedLength(n) - 8
  BY DEF PaddedLength

(* One more byte: the offset goes up by one and from the last place to 0. *)
LEMMA NextOffset ==
    ASSUME NEW l \in Nat
    PROVE  (l + 1) % 64 = IF (l % 64) + 1 = 64 THEN 0 ELSE (l % 64) + 1
  OBVIOUS

(* The last bytes of the padding are bytes, and read as one number they are
   the number of bits: nothing is lost by shifting a 32-bit count. *)
LEMMA FieldBytes ==
    ASSUME NEW n \in Nat, n \div 65536 < 65536
    PROVE  /\ LengthField(n) \in Seq(Byte) /\ Len(LengthField(n)) = 8
           /\ \A k \in 1 .. 8 : LengthField(n)[k] \in Byte
  <1>1. n < 65536 * 65536
    OBVIOUS
  <1>2. n \div 536870912 \in Byte
    BY <1>1 DEF Byte
  <1>3. /\ (n \div 2097152) % 256 \in Byte /\ (n \div 8192) % 256 \in Byte
        /\ (n \div 32) % 256 \in Byte /\ (8 * n) % 256 \in Byte /\ 0 \in Byte
    BY DEF Byte
  <1> QED
    BY <1>2, <1>3 DEF LengthField

(* Read as one number, the length field is the number of bits. *)
LEMMA FieldIsBitLength ==
    ASSUME NEW n \in Nat
    PROVE  BigEndian(LengthField(n)) = 8 * n
  <1>1. n \div 2097152 = 256 * (n \div 536870912) + ((n \div 2097152) % 256)
    OBVIOUS
  <1>2. n \div 8192 = 256 * (n \div 2097152) + ((n \div 8192) % 256)
    OBVIOUS
  <1>3. n \div 32 = 256 * (n \div 8192) + ((n \div 32) % 256)
    OBVIOUS
  <1>4. 8 * n = 256 * (n \div 32) + ((8 * n) % 256)
    OBVIOUS
  <1>5. BigEndian(LengthField(n)) =
            ((((n \div 536870912) * 256 + ((n \div 2097152) % 256)) * 256
                  + ((n \div 8192) % 256)) * 256 + ((n \div 32) % 256)) * 256
              + ((8 * n) % 256)
    BY DEF BigEndian, LengthField
  <1> QED
    BY <1>1, <1>2, <1>3, <1>4, <1>5

------------------------------------------------------------------------------
(* The hash.                                                               *)

(* push() keeps the buffer a copy of the end of the stream, and hashes it when
   and only when it is the whole block that ends there. *)
HashStep ==
    state' = IF stream' # stream /\ Len(stream') % BLOCK_LENGTH = 0
             THEN Compress(state, LastBlock(stream')) ELSE state

(* push(): the buffer holds the bytes since the last whole block. *)
LEMMA PushKeeps ==
    ASSUME HashBlockTyped, ShaTypeOK, BufferHeld, NEW data \in Byte, push(data)
    PROVE  /\ state' \in States /\ buffer' \in Block
           /\ bufferOffset' \in 0 .. BLOCK_LENGTH - 1
           /\ stream' \in Seq(Byte) /\ stream' = Append(stream, data)
           /\ Len(stream') = Len(stream) + 1
           /\ BufferHeld' /\ HashStep
  <1> DEFINE filled == [buffer EXCEPT ![bufferOffset] = data]
  <1> DEFINE l == Len(stream)
  <1>1. /\ bufferOffset \in 0 .. 63 /\ buffer \in Block /\ state \in States
        /\ stream \in Seq(Byte) /\ l \in Nat
        /\ bufferOffset = l % 64
    <2>1. buffer \in Block /\ state \in States /\ stream \in Seq(Byte)
      BY DEF ShaTypeOK
    <2>2. bufferOffset \in 0 .. 63
      BY DEF ShaTypeOK, BLOCK_LENGTH
    <2>3. bufferOffset = l % 64
      BY DEF BufferHeld, BLOCK_LENGTH
    <2>4. l \in Nat
      BY <2>1
    <2> QED
      BY <2>1, <2>2, <2>3, <2>4
  <1>2. /\ stream' = Append(stream, data) /\ stream' \in Seq(Byte)
        /\ Len(stream') = l + 1 /\ stream' # stream
        /\ \A k \in 1 .. l : stream'[k] = stream[k]
        /\ stream'[l + 1] = data
    BY <1>1 DEF push
  <1>3. /\ filled \in Block
        /\ filled[bufferOffset] = data
        /\ \A o \in 0 .. 63 : o # bufferOffset => filled[o] = buffer[o]
    <2>1. buffer \in [0 .. 63 -> Byte]
      BY <1>1 DEF Block, BLOCK_LENGTH
    <2>2. filled \in [0 .. 63 -> Byte]
      BY <2>1
    <2>3. filled \in Block
      BY <2>2 DEF Block, BLOCK_LENGTH
    <2> QED
      BY <1>1, <2>1, <2>3
  <1>4. bufferOffset <= l
    BY <1>1
  <1>5. \A o \in 0 .. bufferOffset : filled[o] = stream'[l - bufferOffset + 1 + o]
    <2> SUFFICES ASSUME NEW o \in 0 .. bufferOffset
                 PROVE  filled[o] = stream'[l - bufferOffset + 1 + o]
      OBVIOUS
    <2>1. CASE o = bufferOffset
      BY <2>1, <1>1, <1>2, <1>3
    <2>2. CASE o < bufferOffset
      <3>1. o \in 0 .. bufferOffset - 1 /\ o \in 0 .. 63 /\ o # bufferOffset
        BY <2>2, <1>1
      <3>2. buffer[o] = stream[l - bufferOffset + 1 + o]
        BY <3>1 DEF BufferHeld
      <3>3. l - bufferOffset + 1 + o \in 1 .. l
        BY <3>1, <1>1, <1>4
      <3> QED
        BY <3>1, <3>2, <3>3, <1>2, <1>3
    <2> QED
      BY <2>1, <2>2, <1>1
  <1>6. (l + 1) % 64 = IF bufferOffset + 1 = 64 THEN 0 ELSE bufferOffset + 1
    BY <1>1, NextOffset
  <1>7. CASE bufferOffset + 1 = 64
    <2>1. /\ bufferOffset' = 0 /\ state' = Compress(state, filled)
          /\ buffer' = Expand(filled)
      BY <1>7 DEF push, BLOCK_LENGTH
    <2>2. state' \in States /\ buffer' \in Block
      BY <2>1, <1>1, <1>3 DEF HashBlockTyped
    <2>3. Len(stream') % 64 = 0
      BY <1>7, <1>2, <1>6
    <2>4. LastBlock(stream') = filled
      <3> HIDE DEF filled
      <3>1. \A o \in 0 .. 63 : filled[o] = stream'[Len(stream') - 64 + 1 + o]
        <4> SUFFICES ASSUME NEW o \in 0 .. 63
                     PROVE  filled[o] = stream'[Len(stream') - 64 + 1 + o]
          OBVIOUS
        <4>1. o \in 0 .. bufferOffset
          BY <1>1, <1>7
        <4>2. Len(stream') - 64 + 1 + o = l - bufferOffset + 1 + o
          BY <1>1, <1>2, <1>7
        <4> QED
          BY <4>1, <4>2, <1>5
      <3>2. LastBlock(stream') = [o \in 0 .. 63 |-> stream'[Len(stream') - 64 + 1 + o]]
        BY DEF LastBlock, BLOCK_LENGTH
      <3>3. filled = [o \in 0 .. 63 |-> filled[o]]
        BY <1>3 DEF Block, BLOCK_LENGTH
      <3> QED
        BY <3>1, <3>2, <3>3
    <2>5. HashStep
      BY <2>1, <2>3, <2>4, <1>2 DEF HashStep, BLOCK_LENGTH
    <2>6. BufferHeld'
      BY <2>1, <2>3 DEF BufferHeld, BLOCK_LENGTH
    <2> QED
      BY <2>1, <2>2, <2>5, <2>6, <1>2 DEF BLOCK_LENGTH
  <1>8. CASE bufferOffset + 1 # 64
    <2>1. bufferOffset' = bufferOffset + 1 /\ state' = state /\ buffer' = filled
      BY <1>8 DEF push, BLOCK_LENGTH
    <2>2. Len(stream') % 64 = bufferOffset + 1 /\ bufferOffset + 1 \in 1 .. 63
      <3>1. (l + 1) % 64 = bufferOffset + 1
        BY <1>8, <1>6
      <3>2. bufferOffset \in 0 .. 63
        BY <1>1
      <3>3. bufferOffset + 1 \in 1 .. 63
        BY <1>8, <3>2
      <3> QED
        BY <3>1, <3>3, <1>2
    <2>3. HashStep
      <3>1. bufferOffset \in 0 .. 63
        BY <1>1
      <3>2. bufferOffset + 1 # 0
        BY <3>1
      <3>3. Len(stream') % 64 # 0
        BY <2>2, <3>2
      <3> QED
        BY <3>3, <2>1 DEF HashStep, BLOCK_LENGTH
    <2>4. BufferHeld'
      <3> SUFFICES ASSUME NEW o \in 0 .. bufferOffset
                   PROVE  filled[o] = stream'[Len(stream') - (bufferOffset + 1) + 1 + o]
        BY <2>1, <2>2, <1>1 DEF BufferHeld, BLOCK_LENGTH
      <3>1. Len(stream') - (bufferOffset + 1) + 1 + o = l - bufferOffset + 1 + o
        BY <1>1, <1>2
      <3> QED
        BY <3>1, <1>5
    <2> QED
      BY <2>1, <2>2, <2>3, <2>4, <1>1, <1>2, <1>3 DEF BLOCK_LENGTH
  <1> QED
    BY <1>7, <1>8

(* The stream grows along the padded text when the byte pushed is the next of
   it. *)
LEMMA StreamGrows ==
    ASSUME stream \in Seq(Byte), StreamKnown, UNCHANGED text, NEW data,
           stream' = Append(stream, data),
           data = PaddedByte(text, Len(stream) + 1)
    PROVE  StreamKnown'
  <1>1. Len(stream) \in Nat /\ Len(stream') = Len(stream) + 1
    OBVIOUS
  <1> SUFFICES ASSUME NEW k \in 1 .. Len(stream')
               PROVE  stream'[k] = PaddedByte(text, k)
    BY DEF StreamKnown
  <1>2. CASE k = Len(stream) + 1
    BY <1>1, <1>2
  <1>3. CASE k \in 1 .. Len(stream)
    BY <1>3 DEF StreamKnown
  <1> QED
    BY <1>1, <1>2, <1>3

------------------------------------------------------------------------------
(* ShaInv is inductive.                                                    *)

LEMMA ShaInitInv == ShaInit => ShaInv
  <1> SUFFICES ASSUME ShaInit PROVE ShaInv
    OBVIOUS
  <1>1. text \in Seq(Byte) /\ Len(text) \in Nat
    BY TextAssumption DEF ShaInit
  <1>2. stream = <<>> /\ Len(stream) = 0 /\ stream \in Seq(Byte)
    BY DEF ShaInit
  <1>3. ShaTypeOK
    BY <1>2, StateAssumption, TextAssumption DEF ShaInit, ShaTypeOK, BLOCK_LENGTH
  <1>4. BufferHeld
    BY <1>2 DEF ShaInit, BufferHeld, BLOCK_LENGTH
  <1>5. StreamLength
    BY <1>1, <1>2 DEF ShaInit, StreamLength
  <1>6. StreamKnown
    BY <1>2 DEF StreamKnown
  <1> QED
    BY <1>3, <1>4, <1>5, <1>6 DEF ShaInv

(* Past the zeros, the padding is the length field. *)
LEMMA FieldByte ==
    ASSUME NEW t, NEW m, ~(m <= Len(t)), m # Len(t) + 1, ~(m <= PaddedLength(Len(t)) - 8)
    PROVE  PaddedByte(t, m) = LengthField(Len(t))[m - (PaddedLength(Len(t)) - 8)]
  BY ZenonT(30) DEF PaddedByte

(* Each step of hashed_key() keeps the hash's invariant, and hashes whole
   blocks. *)
LEMMA ShaInvStep ==
    ASSUME HashBlockTyped, ShaInv, ShaNext
    PROVE  ShaInv' /\ HashStep
  <1> DEFINE n == Len(text)
  <1> DEFINE last == PaddedLength(n) - 8
  <1>1. /\ ShaTypeOK /\ BufferHeld /\ StreamLength /\ StreamKnown
        /\ text \in Texts /\ text \in Seq(Byte) /\ n \in Nat /\ n \div 65536 < 65536
        /\ stream \in Seq(Byte) /\ Len(stream) \in Nat /\ byteCount \in Nat
        /\ spc \in {"write", "zeros", "length", "done"} /\ lengthByte \in 0 .. 8
    BY TextAssumption DEF ShaInv, ShaTypeOK
  <1>2. /\ last \in Nat /\ last >= n + 1 /\ last <= n + 64 /\ last % 64 = 56
    <2>1. /\ PaddedLength(n) \in Nat
          /\ PaddedLength(n) >= n + 9 /\ PaddedLength(n) <= n + 72
          /\ (PaddedLength(n) - 8) % 64 = 56
      <3>1. n \in Nat
        BY <1>1
      <3> HIDE DEF n
      <3> QED
        BY <3>1, PaddedLengthFacts
    <2>2. n \in Nat
      BY <1>1
    <2> HIDE DEF n
    <2> QED
      BY <2>1, <2>2
  <1>3. CASE Write
    <2>1. /\ spc = "write" /\ byteCount < n /\ byteCount' = byteCount + 1
          /\ push(text[byteCount + 1])
          /\ text' = text /\ spc' = spc /\ lengthByte' = lengthByte
      BY <1>3 DEF Write
    <2>2. Len(stream) = byteCount /\ byteCount <= n /\ lengthByte = 0
      BY <1>1, <2>1 DEF StreamLength
    <2>3. byteCount + 1 \in 1 .. n /\ text[byteCount + 1] \in Byte
      BY <1>1, <2>1
    <2>4. /\ state' \in States /\ buffer' \in Block
          /\ bufferOffset' \in 0 .. BLOCK_LENGTH - 1
          /\ stream' \in Seq(Byte) /\ stream' = Append(stream, text[byteCount + 1])
          /\ Len(stream') = Len(stream) + 1
          /\ BufferHeld' /\ HashStep
      BY <1>1, <2>1, <2>3, PushKeeps
    <2>5. ShaTypeOK'
      BY <1>1, <2>1, <2>4 DEF ShaTypeOK
    <2>6. StreamLength'
      BY <1>1, <2>1, <2>2, <2>3, <2>4 DEF StreamLength
    <2>7. text[byteCount + 1] = PaddedByte(text, Len(stream) + 1)
      BY <2>2, <2>3 DEF PaddedByte
    <2>8. StreamKnown'
      BY <1>1, <2>1, <2>4, <2>7, StreamGrows
    <2> QED
      BY <2>4, <2>5, <2>6, <2>8 DEF ShaInv
  <1>4. CASE PadMark
    <2>1. /\ spc = "write" /\ byteCount = n /\ byteCount' = byteCount
          /\ push(128)
          /\ text' = text /\ spc' = "zeros" /\ lengthByte' = lengthByte
      BY <1>4 DEF PadMark
    <2>2. Len(stream) = n /\ lengthByte = 0
      BY <1>1, <2>1 DEF StreamLength
    <2>3. 128 \in Byte
      BY DEF Byte
    <2>4. /\ state' \in States /\ buffer' \in Block
          /\ bufferOffset' \in 0 .. BLOCK_LENGTH - 1
          /\ stream' \in Seq(Byte) /\ stream' = Append(stream, 128)
          /\ Len(stream') = Len(stream) + 1
          /\ BufferHeld' /\ HashStep
      BY <1>1, <2>1, <2>3, PushKeeps
    <2>5. ShaTypeOK'
      BY <1>1, <2>1, <2>4 DEF ShaTypeOK
    <2>6. StreamLength'
      BY <1>1, <1>2, <2>1, <2>2, <2>4 DEF StreamLength
    <2>7. 128 = PaddedByte(text, Len(stream) + 1)
      BY <1>1, <2>2 DEF PaddedByte
    <2>8. StreamKnown'
      BY <1>1, <2>1, <2>4, <2>7, StreamGrows
    <2> QED
      BY <2>4, <2>5, <2>6, <2>8 DEF ShaInv
  <1>5. CASE PadZero
    <2>1. /\ spc = "zeros" /\ bufferOffset # 56 /\ byteCount' = byteCount
          /\ push(0)
          /\ text' = text /\ spc' = spc /\ lengthByte' = lengthByte
      BY <1>5 DEF PadZero, ZerosLeft
    <2>2. Len(stream) \in n + 1 .. last /\ byteCount = n /\ lengthByte = 0
      BY <1>1, <2>1 DEF StreamLength
    <2>3. 0 \in Byte
      BY DEF Byte
    <2>4. /\ state' \in States /\ buffer' \in Block
          /\ bufferOffset' \in 0 .. BLOCK_LENGTH - 1
          /\ stream' \in Seq(Byte) /\ stream' = Append(stream, 0)
          /\ Len(stream') = Len(stream) + 1
          /\ BufferHeld' /\ HashStep
      BY <1>1, <2>1, <2>3, PushKeeps
    <2>5. Len(stream) # last
      BY <1>1, <1>2, <2>1, SMTT(30) DEF BufferHeld, BLOCK_LENGTH
    <2>6. ShaTypeOK'
      BY <1>1, <2>1, <2>4 DEF ShaTypeOK
    <2>7. StreamLength'
      <3>1. Len(stream') = Len(stream) + 1 /\ byteCount' = n /\ lengthByte' = 0
        BY <2>1, <2>2, <2>4
      <3>2. Len(stream') \in n + 1 .. last
        <4> HIDE DEF n, last
        <4> QED
          BY <1>1, <1>2, <2>2, <2>5, <3>1
      <3> QED
        BY <2>1, <3>1, <3>2 DEF StreamLength
    <2>8. 0 = PaddedByte(text, Len(stream) + 1)
      BY <1>1, <1>2, <2>2, <2>5 DEF PaddedByte
    <2>9. StreamKnown'
      BY <1>1, <2>1, <2>4, <2>8, StreamGrows
    <2> QED
      BY <2>4, <2>6, <2>7, <2>9 DEF ShaInv
  <1>6. CASE PadEnd
    <2>1. /\ spc = "zeros" /\ bufferOffset = 56 /\ spc' = "length"
          /\ UNCHANGED <<state, buffer, bufferOffset, byteCount, text, lengthByte, stream>>
      BY <1>6 DEF PadEnd, ZerosLeft
    <2>2. Len(stream) \in n + 1 .. last /\ byteCount = n /\ lengthByte = 0
      BY <1>1, <2>1 DEF StreamLength
    <2>3. Len(stream) % 64 = 56
      BY <1>1, <2>1 DEF BufferHeld, BLOCK_LENGTH
    <2>4. Len(stream) = last
      BY <1>1, <1>2, <2>2, <2>3, ZerosEnd, SMTT(30)
    <2>5. ShaTypeOK' /\ BufferHeld' /\ StreamKnown'
      <3>1. ShaTypeOK'
        BY <1>1, <2>1 DEF ShaTypeOK
      <3>2. BufferHeld' <=> BufferHeld
        BY <2>1 DEF BufferHeld
      <3>3. StreamKnown'
        BY <1>1, <2>1 DEF StreamKnown
      <3> QED
        BY <1>1, <3>1, <3>2, <3>3
    <2>6. StreamLength'
      BY <1>1, <1>2, <2>1, <2>2, <2>4 DEF StreamLength
    <2>7. HashStep
      BY <2>1 DEF HashStep
    <2> QED
      BY <2>5, <2>6, <2>7 DEF ShaInv
  <1>7. CASE PadLength
    <2> DEFINE data == LengthField(byteCount)[lengthByte + 1]
    <2>1. /\ spc = "length" /\ byteCount' = byteCount
          /\ push(data)
          /\ text' = text /\ lengthByte' = lengthByte + 1
          /\ spc' = IF lengthByte = 7 THEN "done" ELSE "length"
      BY <1>7 DEF PadLength
    <2>2. Len(stream) = last + lengthByte /\ byteCount = n /\ lengthByte \in 0 .. 7
      BY <1>1, <2>1 DEF StreamLength
    <2>3. data \in Byte
      <3>1. n \in Nat /\ n \div 65536 < 65536
        BY <1>1
      <3>2. lengthByte + 1 \in 1 .. 8
        BY <2>2
      <3>3. LengthField(n)[lengthByte + 1] \in Byte
        <4> HIDE DEF n
        <4> QED
          BY <3>1, <3>2, FieldBytes, SMTT(30)
      <3> QED
        BY <2>2, <3>3
    <2>4. /\ state' \in States /\ buffer' \in Block
          /\ bufferOffset' \in 0 .. BLOCK_LENGTH - 1
          /\ stream' \in Seq(Byte) /\ stream' = Append(stream, data)
          /\ Len(stream') = Len(stream) + 1
          /\ BufferHeld' /\ HashStep
      <3> HIDE DEF data
      <3> QED
        BY <1>1, <2>1, <2>3, PushKeeps
    <2>5. ShaTypeOK'
      BY <1>1, <2>1, <2>2, <2>4 DEF ShaTypeOK
    <2>6. StreamLength'
      <3>0. Len(stream') = last + lengthByte + 1 /\ text' = text /\ byteCount' = n
        BY <2>1, <2>2, <2>4, <1>2
      <3>1. CASE lengthByte = 7
        <4>1. Len(stream') = last + 8
          BY <3>0, <3>1, <1>2
        <4> QED
          BY <3>0, <4>1, <2>1, <3>1 DEF StreamLength
      <3>2. CASE lengthByte # 7
        <4>1. lengthByte' \in 0 .. 7 /\ Len(stream') = last + lengthByte'
          <5>1. lengthByte' = lengthByte + 1 /\ lengthByte \in 0 .. 7 /\ last \in Nat
            BY <2>1, <2>2, <1>2
          <5>2. Len(stream') = last + lengthByte + 1
            BY <3>0
          <5> HIDE DEF n, last, data
          <5> QED
            BY <5>1, <5>2, <3>2
        <4>2. spc' = "length"
          BY <3>2, <2>1
        <4> QED
          BY <3>0, <4>1, <4>2 DEF StreamLength
      <3> QED
        BY <3>1, <3>2
    <2>7. data = PaddedByte(text, Len(stream) + 1)
      <3> DEFINE m == Len(stream) + 1
      <3>1. n \in Nat /\ last \in Nat /\ last >= n + 1
        BY <1>1, <1>2
      <3>2. ~(m <= n) /\ m # n + 1 /\ ~(m <= last) /\ m - last = lengthByte + 1
        <4> HIDE DEF n, last, data
        <4> QED
          BY <3>1, <2>2
      <3> HIDE DEF m
      <3>3. PaddedByte(text, m) = LengthField(n)[m - last]
        BY <3>2, FieldByte, Zenon
      <3>4. data = LengthField(n)[lengthByte + 1]
        BY <2>2
      <3>5. PaddedByte(text, m) = data
        <4> HIDE DEF n, last, data
        <4> QED
          BY <3>2, <3>3, <3>4
      <3> QED
        BY <3>5 DEF m
    <2>8. StreamKnown'
      <3> HIDE DEF data
      <3> QED
        BY <1>1, <2>1, <2>4, <2>7, StreamGrows
    <2> QED
      BY <2>4, <2>5, <2>6, <2>8 DEF ShaInv
  <1> QED
    BY <1>3, <1>4, <1>5, <1>6, <1>7 DEF ShaNext

(* The inductive invariant says at the end what the standard says. *)
LEMMA ShaInvConforms ==
    ASSUME ShaInv
    PROVE  PaddingConforms
  <1> SUFFICES ASSUME spc = "done" PROVE Conforms(stream, text)
    BY DEF PaddingConforms
  <1> DEFINE n == Len(text)
  <1> DEFINE size == PaddedLength(n)
  <1> DEFINE field == [k \in 1 .. 8 |-> stream[Len(stream) - 8 + k]]
  <1>1. n \in Nat /\ n \div 65536 < 65536
    BY TextAssumption DEF ShaInv, ShaTypeOK
  <1>2. /\ size \in Nat /\ size >= n + 9 /\ size <= n + 72 /\ size % 64 = 0
    <2>1. n \in Nat
      BY <1>1
    <2> HIDE DEF n
    <2> QED
      BY <2>1, PaddedLengthFacts
  <1>3. Len(stream) = size
    <2>1. Len(stream) = size - 8 + 8
      BY DEF ShaInv, StreamLength
    <2> HIDE DEF size
    <2> QED
      BY <2>1, <1>2
  <1>4. \A k \in 1 .. size : stream[k] = PaddedByte(text, k)
    BY <1>3 DEF ShaInv, StreamKnown
  <1>5. \A k \in 1 .. n : stream[k] = text[k]
    <2> SUFFICES ASSUME NEW k \in 1 .. n PROVE stream[k] = text[k]
      OBVIOUS
    <2>1. k \in 1 .. size /\ k <= n
      BY <1>1, <1>2
    <2> QED
      BY <2>1, <1>4 DEF PaddedByte
  <1>6. stream[n + 1] = 128
    <2>1. n + 1 \in 1 .. size /\ ~(n + 1 <= n)
      BY <1>1, <1>2
    <2> QED
      BY <2>1, <1>4 DEF PaddedByte
  <1>7. \A k \in n + 2 .. size - 8 : stream[k] = 0
    <2> SUFFICES ASSUME NEW k \in n + 2 .. size - 8 PROVE stream[k] = 0
      OBVIOUS
    <2>1. k \in 1 .. size /\ ~(k <= n) /\ k # n + 1 /\ k <= size - 8
      BY <1>1, <1>2
    <2> QED
      BY <2>1, <1>4 DEF PaddedByte
  <1>8. \A k \in 1 .. 8 : field[k] = LengthField(n)[k]
    <2> SUFFICES ASSUME NEW k \in 1 .. 8 PROVE field[k] = LengthField(n)[k]
      OBVIOUS
    <2>1. /\ size - 8 + k \in 1 .. size /\ ~(size - 8 + k <= n)
          /\ size - 8 + k # n + 1 /\ ~(size - 8 + k <= size - 8)
          /\ size - 8 + k - (size - 8) = k
      <3> HIDE DEF n, size
      <3> QED
        BY <1>1, <1>2
    <2>2. \A m : ~(m <= n) /\ m # n + 1 /\ ~(m <= size - 8) =>
               PaddedByte(text, m) = LengthField(n)[m - (size - 8)]
      BY FieldByte, ZenonT(30)
    <2>3. stream[size - 8 + k] = PaddedByte(text, size - 8 + k)
      BY <2>1, <1>4
    <2> HIDE DEF size, n
    <2>4. stream[Len(stream) - 8 + k] = LengthField(n)[k]
      BY <2>1, <2>2, <2>3, <1>3
    <2> QED
      BY <2>4
  <1>9. /\ field[1] = 0 /\ field[2] = 0 /\ field[3] = 0
        /\ BigEndian(field) = 8 * n
    <2>1. LengthField(n)[1] = 0 /\ LengthField(n)[2] = 0 /\ LengthField(n)[3] = 0
      BY DEF LengthField
    <2>2. BigEndian(field) = BigEndian(LengthField(n))
      BY <1>8, SMTT(30) DEF BigEndian
    <2>3. BigEndian(LengthField(n)) = 8 * n
      <3>1. n \in Nat
        BY <1>1
      <3> HIDE DEF n
      <3> QED
        BY <3>1, FieldIsBitLength
    <2> HIDE DEF field, n
    <2>4. field[1] = 0 /\ field[2] = 0 /\ field[3] = 0
      BY <2>1, <1>8
    <2> QED
      BY <2>2, <2>3, <2>4
  <1>10. Len(stream) % 64 = 0 /\ Len(stream) - n \in 9 .. 9 + 64 - 1
    <2> HIDE DEF size, n
    <2> QED
      BY <1>1, <1>2, <1>3
  <1> QED
    BY <1>3, <1>5, <1>6, <1>7, <1>9, <1>10 DEF Conforms, BLOCK_LENGTH

------------------------------------------------------------------------------
(* The chain.                                                              *)

LEMMA ChainInitInv == ChainInit => ChainInv
  <1> SUFFICES ASSUME ChainInit PROVE ChainInv
    OBVIOUS
  <1>1. ChainTypeOK
    BY DEF ChainInit, ChainTypeOK
  <1> QED
    BY <1>1 DEF ChainInit, ChainInv, EncryptKnown, CipherKnown, DecryptKnown

(* A new key, while no packet is at hand. *)
LEMMA ChainKeyStep ==
    ASSUME ChainInv, NEW k \in HashedKeys, SetHashedKey(k)
    PROVE  ChainInv'
  BY DEF ChainInv, ChainTypeOK, SetHashedKey, EncryptKnown, CipherKnown, DecryptKnown

(* What the blocks are, the algorithms given. *)
LEMMA ScheduledBlocks ==
    ASSUME CipherInverts, XorInverts, ChainInv, cpc \notin {"keyless", "idle"}
    PROVE  /\ schedule = SetKey(hkey) /\ hkey \in HashedKeys
           /\ \A b \in Blocks : /\ Encipher(schedule, b) \in Blocks
                                /\ Decipher(schedule, b) \in Blocks
                                /\ Decipher(schedule, Encipher(schedule, b)) = b
           /\ plain \in Seq(Blocks) /\ Len(plain) \in Nat /\ Len(plain) > 1
           /\ packet \in Seq(Blocks) /\ Len(packet) = Len(plain)
           /\ \A b \in 1 .. Len(plain) : plain[b] \in Blocks /\ packet[b] \in Blocks
           /\ i \in Nat /\ i <= Len(plain)
  <1>1. /\ schedule = SetKey(hkey) /\ hkey \in HashedKeys
        /\ plain \in Messages /\ packet \in Seq(Blocks) /\ Len(packet) = Len(plain)
        /\ i \in Nat /\ i <= Len(packet)
    BY DEF ChainInv, ChainTypeOK
  <1>2. plain \in Seq(Blocks) /\ Len(plain) > 1
    BY <1>1, MessageAssumption
  <1> QED
    BY <1>1, <1>2 DEF CipherInverts

(* encrypt() begins: every block is still in clear. *)
LEMMA EncryptInv ==
    ASSUME ChainInv, NEW m \in Messages, Encrypt(m)
    PROVE  ChainInv'
  <1>1. m \in Seq(Blocks) /\ Len(m) > 1 /\ Len(m) \in Nat
    BY MessageAssumption
  <1>2. cpc' = "encrypt" /\ cpc = "idle" /\ packet' = m /\ plain' = m /\ i' = 1
        /\ schedule' = SetKey(hkey) /\ hkey' = hkey
    BY DEF Encrypt
  <1>3. ChainTypeOK'
    BY <1>1, <1>2 DEF ChainInv, ChainTypeOK
  <1>4. EncryptKnown'
    BY <1>1, <1>2 DEF EncryptKnown
  <1> QED
    BY <1>2, <1>3, <1>4 DEF ChainInv, CipherKnown, DecryptKnown

(* One more block is chained to the ciphered one before it. *)
LEMMA EncryptStepInv ==
    ASSUME CipherInverts, XorInverts, ChainInv, EncryptStep
    PROVE  ChainInv'
  <1> DEFINE done == Encipher(schedule, XorBlock(packet[i + 1], packet[i]))
  <1>1. /\ cpc = "encrypt" /\ cpc' = cpc /\ i < Len(packet) /\ i' = i + 1
        /\ packet' = [packet EXCEPT ![i + 1] = done]
        /\ UNCHANGED <<hkey, schedule, plain, cipher, received>>
    BY DEF EncryptStep
  <1>2. /\ schedule = SetKey(hkey) /\ hkey \in HashedKeys
        /\ \A b \in Blocks : Encipher(schedule, b) \in Blocks
        /\ plain \in Seq(Blocks) /\ Len(plain) \in Nat /\ Len(plain) > 1
        /\ packet \in Seq(Blocks) /\ Len(packet) = Len(plain)
        /\ \A b \in 1 .. Len(plain) : plain[b] \in Blocks /\ packet[b] \in Blocks
        /\ i \in Nat
    BY <1>1, ScheduledBlocks
  <1>3. /\ i >= 1 /\ packet[1] = plain[1]
        /\ \A b \in 2 .. Len(plain) : IF b <= i THEN Chained(packet, b)
                                                ELSE packet[b] = plain[b]
    BY <1>1 DEF ChainInv, EncryptKnown
  <1>4. done \in Blocks
    <2>1. i \in 1 .. Len(plain) /\ i + 1 \in 1 .. Len(plain)
      BY <1>1, <1>2, <1>3
    <2> QED
      BY <2>1, <1>2 DEF XorInverts
  <1>5. /\ packet' \in Seq(Blocks) /\ Len(packet') = Len(packet)
        /\ packet'[i + 1] = done
        /\ \A b \in 1 .. Len(plain) : b # i + 1 => packet'[b] = packet[b]
    <2>1. i + 1 \in 1 .. Len(packet)
      BY <1>1, <1>2
    <2> HIDE DEF done
    <2> QED
      BY <2>1, <1>1, <1>2, <1>4
  <1> HIDE DEF done
  <1>6. ChainTypeOK'
    BY <1>1, <1>2, <1>5 DEF ChainInv, ChainTypeOK
  <1>7. EncryptKnown'
    <2>1. i + 1 >= 1 /\ packet'[1] = plain[1]
      BY <1>2, <1>3, <1>5
    <2>2. ASSUME NEW b \in 2 .. Len(plain)
          PROVE  IF b <= i + 1
                 THEN packet'[b] = Encipher(schedule, XorBlock(plain[b], packet'[b - 1]))
                 ELSE packet'[b] = plain[b]
      <3>1. b \in 1 .. Len(plain) /\ b - 1 \in 1 .. Len(plain)
        BY <1>2
      <3>2. CASE b <= i
        <4>1. packet[b] = Encipher(schedule, XorBlock(plain[b], packet[b - 1]))
          BY <1>3, <3>2 DEF Chained
        <4>2. packet'[b] = packet[b] /\ packet'[b - 1] = packet[b - 1]
          BY <1>2, <1>5, <3>1, <3>2
        <4> QED
          BY <4>1, <4>2, <3>2, <1>2
      <3>3. CASE b = i + 1
        <4>1. packet[b] = plain[b]
          BY <1>2, <1>3, <3>3
        <4>2. packet'[b - 1] = packet[b - 1] /\ b - 1 = i
          BY <1>2, <1>5, <3>1, <3>3
        <4>3. packet'[b] = Encipher(schedule, XorBlock(packet[b], packet[b - 1]))
          BY <1>5, <3>3, <4>2 DEF done
        <4> QED
          BY <4>1, <4>2, <4>3, <3>3, <1>2
      <3>4. CASE b > i + 1
        <4>1. packet[b] = plain[b]
          BY <1>2, <1>3, <3>4
        <4> QED
          BY <4>1, <1>2, <1>5, <3>1, <3>4
      <3> QED
        BY <3>2, <3>3, <3>4, <1>2
    <2> QED
      BY <2>1, <2>2, <1>1 DEF EncryptKnown, Chained
  <1> QED
    BY <1>1, <1>6, <1>7 DEF ChainInv, CipherKnown, DecryptKnown

(* encrypt() ends: the packet on the air is chained throughout. *)
LEMMA EncryptEndInv ==
    ASSUME CipherInverts, XorInverts, ChainInv, EncryptEnd
    PROVE  ChainInv'
  <1>1. /\ cpc = "encrypt" /\ cpc' = "air" /\ i = Len(packet)
        /\ cipher' = packet /\ received' = packet
        /\ UNCHANGED <<hkey, schedule, packet, i, plain>>
    BY DEF EncryptEnd
  <1>2. /\ plain \in Seq(Blocks) /\ Len(plain) \in Nat
        /\ packet \in Seq(Blocks) /\ Len(packet) = Len(plain)
    BY <1>1, ScheduledBlocks
  <1>3. ChainTypeOK'
    BY <1>1, <1>2 DEF ChainInv, ChainTypeOK
  <1>4. /\ packet[1] = plain[1]
        /\ \A b \in 2 .. Len(plain) : Chained(packet, b)
    <2>1. \A b \in 2 .. Len(plain) : b <= i
      BY <1>1, <1>2
    <2> QED
      BY <1>1, <2>1 DEF ChainInv, EncryptKnown
  <1>5. CipherKnown'
    BY <1>1, <1>4 DEF CipherKnown, Chained
  <1> QED
    BY <1>1, <1>3, <1>5 DEF ChainInv, EncryptKnown, DecryptKnown

(* The air damages what is received, not what was sent. *)
LEMMA InterfereInv ==
    ASSUME ChainInv, NEW b \in DOMAIN received, NEW noise \in Noise, Interfere(b, noise)
    PROVE  ChainInv'
  <1>1. /\ cpc = "air" /\ cpc' = cpc
        /\ received' = [received EXCEPT ![b] = noise]
        /\ UNCHANGED <<hkey, schedule, packet, i, plain, cipher>>
    BY DEF Interfere
  <1>2. received \in Seq(Blocks) /\ Len(received) = Len(plain) /\ noise \in Blocks
    BY <1>1, NoiseAssumption DEF ChainInv, ChainTypeOK
  <1>3. received' \in Seq(Blocks) /\ Len(received') = Len(received)
    BY <1>1, <1>2
  <1>4. ChainTypeOK'
    BY <1>1, <1>2, <1>3 DEF ChainInv, ChainTypeOK
  <1>5. CipherKnown'
    BY <1>1 DEF ChainInv, CipherKnown, Chained
  <1> QED
    BY <1>1, <1>4, <1>5 DEF ChainInv, EncryptKnown, DecryptKnown

(* decrypt() begins at the end of the packet received. *)
LEMMA DecryptInv ==
    ASSUME ChainInv, Decrypt
    PROVE  ChainInv'
  <1>1. /\ cpc = "air" /\ cpc' = "decrypt"
        /\ schedule' = SetKey(hkey) /\ packet' = received /\ i' = Len(received) - 1
        /\ UNCHANGED <<hkey, plain, cipher, received>>
    BY DEF Decrypt
  <1>2. /\ schedule = SetKey(hkey) /\ plain \in Messages
        /\ received \in Seq(Blocks) /\ Len(received) = Len(plain)
    BY <1>1 DEF ChainInv, ChainTypeOK
  <1>3. Len(plain) \in Nat /\ Len(plain) > 1
    BY <1>2, MessageAssumption
  <1>4. ChainTypeOK'
    BY <1>1, <1>2, <1>3 DEF ChainInv, ChainTypeOK
  <1>5. CipherKnown'
    BY <1>1, <1>2 DEF ChainInv, CipherKnown, Chained
  <1>6. DecryptKnown'
    BY <1>1, <1>2, <1>3 DEF DecryptKnown
  <1> QED
    BY <1>1, <1>4, <1>5, <1>6 DEF ChainInv, EncryptKnown

(* One block more is clear again, if it and the one before it are as sent. *)
LEMMA DecryptStepInv ==
    ASSUME CipherInverts, XorInverts, ChainInv, DecryptStep
    PROVE  ChainInv'
  <1> DEFINE clear == XorBlock(Decipher(schedule, packet[i + 1]), packet[i])
  <1>1. /\ cpc = "decrypt" /\ cpc' = cpc /\ i >= 1 /\ i' = i - 1
        /\ packet' = [packet EXCEPT ![i + 1] = clear]
        /\ UNCHANGED <<hkey, schedule, plain, cipher, received>>
    BY DEF DecryptStep
  <1>2. /\ \A b \in Blocks : Decipher(schedule, b) \in Blocks
        /\ plain \in Seq(Blocks) /\ Len(plain) \in Nat /\ Len(plain) > 1
        /\ packet \in Seq(Blocks) /\ Len(packet) = Len(plain)
        /\ \A b \in 1 .. Len(plain) : packet[b] \in Blocks
        /\ i \in Nat
    BY <1>1, ScheduledBlocks
  <1>3. /\ i < Len(plain)
        /\ packet[1] = received[1]
        /\ \A b \in 2 .. Len(plain) :
              packet[b] = IF b <= i + 1 THEN received[b]
                          ELSE XorBlock(Decipher(schedule, received[b]), received[b - 1])
    BY <1>1 DEF ChainInv, DecryptKnown
  <1>4. i \in 1 .. Len(plain) /\ i + 1 \in 1 .. Len(plain) /\ i + 1 # 1 /\ i + 1 \in 2 .. Len(plain)
    BY <1>1, <1>2, <1>3
  <1>5. clear \in Blocks
    BY <1>2, <1>4 DEF XorInverts
  <1>6. clear = XorBlock(Decipher(schedule, received[i + 1]), received[i])
    <2>1. packet[i + 1] = received[i + 1]
      BY <1>2, <1>3, <1>4
    <2>2. packet[i] = received[i]
      <3>1. CASE i = 1
        BY <3>1, <1>3
      <3>2. CASE i # 1
        <4>1. i \in 2 .. Len(plain) /\ i <= i + 1
          BY <3>2, <1>2, <1>4
        <4> QED
          BY <4>1, <1>3
      <3> QED
        BY <3>1, <3>2
    <2> QED
      BY <2>1, <2>2
  <1> HIDE DEF clear
  <1>7. /\ packet' \in Seq(Blocks) /\ Len(packet') = Len(packet)
        /\ packet'[i + 1] = clear
        /\ \A b \in 1 .. Len(plain) : b # i + 1 => packet'[b] = packet[b]
    BY <1>1, <1>2, <1>4, <1>5
  <1>8. ChainTypeOK'
    BY <1>1, <1>2, <1>3, <1>7 DEF ChainInv, ChainTypeOK
  <1>9. DecryptKnown'
    <2>1. packet'[1] = received[1] /\ i - 1 < Len(plain)
      BY <1>2, <1>3, <1>4, <1>7
    <2>2. ASSUME NEW b \in 2 .. Len(plain)
          PROVE  packet'[b] = IF b <= i - 1 + 1 THEN received[b]
                              ELSE XorBlock(Decipher(schedule, received[b]), received[b - 1])
      <3>1. CASE b = i + 1
        BY <3>1, <1>2, <1>6, <1>7
      <3>2. CASE b # i + 1
        <4>1. packet'[b] = packet[b]
          BY <3>2, <1>2, <1>7
        <4>2. b <= i + 1 <=> b <= i - 1 + 1
          BY <3>2, <1>2
        <4> QED
          BY <4>1, <4>2, <1>3
      <3> QED
        BY <3>1, <3>2
    <2> QED
      BY <2>1, <2>2, <1>1 DEF DecryptKnown
  <1>10. CipherKnown'
    BY <1>1 DEF ChainInv, CipherKnown, Chained
  <1> QED
    BY <1>1, <1>8, <1>9, <1>10 DEF ChainInv, EncryptKnown

(* Each step of encrypt() and decrypt() keeps the chain's invariant. *)
LEMMA ChainInvStep ==
    ASSUME CipherInverts, XorInverts, ChainInv, ChainNext
    PROVE  ChainInv'
  <1>1. CASE DecryptEnd
    BY <1>1 DEF DecryptEnd, ChainInv, ChainTypeOK, EncryptKnown, CipherKnown, DecryptKnown, Chained
  <1>2. CASE Return
    BY <1>2 DEF Return, ChainInv, ChainTypeOK, EncryptKnown, CipherKnown, DecryptKnown
  <1> QED
    BY <1>1, <1>2, EncryptInv, EncryptStepInv, EncryptEndInv, InterfereInv, DecryptInv,
       DecryptStepInv DEF ChainNext

(* The hash's steps leave the chain's invariant alone. *)
LEMMA ChainUnchanged ==
    ASSUME ChainInv, UNCHANGED chainVars
    PROVE  ChainInv'
  BY DEF ChainInv, chainVars, ChainTypeOK, EncryptKnown, CipherKnown, DecryptKnown, Chained

(* The chain's steps leave the hash's invariant alone. *)
LEMMA ShaUnchanged ==
    ASSUME ShaInv, UNCHANGED shaVars
    PROVE  ShaInv' /\ HashStep
  <1>1. ShaTypeOK' /\ (BufferHeld' <=> BufferHeld) /\ (StreamLength' <=> StreamLength)
        /\ (StreamKnown' <=> StreamKnown)
    <2>1. ShaTypeOK'
      BY DEF ShaInv, ShaTypeOK, shaVars
    <2>2. BufferHeld' <=> BufferHeld
      BY DEF BufferHeld, shaVars
    <2>3. StreamLength' <=> StreamLength
      BY DEF StreamLength, shaVars
    <2>4. StreamKnown' <=> StreamKnown
      BY DEF StreamKnown, shaVars
    <2> QED
      BY <2>1, <2>2, <2>3, <2>4
  <1>2. HashStep
    BY DEF HashStep, shaVars
  <1> QED
    BY <1>1, <1>2 DEF ShaInv

(* When decrypt() is done, the invariant is what DamageConfined says. *)
LEMMA ChainInvConfines ==
    ASSUME CipherInverts, XorInverts, ChainInv
    PROVE  DamageConfined
  <1> SUFFICES ASSUME cpc = "done"
               PROVE  /\ Intact(1) => packet[1] = plain[1]
                      /\ \A b \in 2 .. Len(plain) :
                            Intact(b - 1) /\ Intact(b) => packet[b] = plain[b]
    BY DEF DamageConfined
  <1>1. /\ \A b \in Blocks : /\ Encipher(schedule, b) \in Blocks
                             /\ Decipher(schedule, Encipher(schedule, b)) = b
        /\ \A b \in 1 .. Len(plain) : plain[b] \in Blocks
        /\ Len(plain) \in Nat
    BY ScheduledBlocks
  <1>2. cipher \in Seq(Blocks) /\ Len(cipher) = Len(plain)
    BY DEF ChainInv, ChainTypeOK
  <1>3. /\ cipher[1] = plain[1]
        /\ \A b \in 2 .. Len(plain) :
              cipher[b] = Encipher(schedule, XorBlock(plain[b], cipher[b - 1]))
    BY DEF ChainInv, CipherKnown, Chained
  <1>4. /\ i = 0 /\ packet[1] = received[1]
        /\ \A b \in 2 .. Len(plain) :
              packet[b] = XorBlock(Decipher(schedule, received[b]), received[b - 1])
    BY DEF ChainInv, DecryptKnown
  <1>5. Intact(1) => packet[1] = plain[1]
    BY <1>3, <1>4 DEF Intact
  <1>6. ASSUME NEW b \in 2 .. Len(plain), Intact(b - 1), Intact(b)
        PROVE  packet[b] = plain[b]
    <2>1. b \in 1 .. Len(plain) /\ b - 1 \in 1 .. Len(plain)
      BY <1>1
    <2>2. plain[b] \in Blocks /\ cipher[b - 1] \in Blocks
      BY <2>1, <1>1, <1>2
    <2>3. XorBlock(plain[b], cipher[b - 1]) \in Blocks
      BY <2>2 DEF XorInverts
    <2>4. Decipher(schedule, cipher[b]) = XorBlock(plain[b], cipher[b - 1])
      BY <2>3, <1>1, <1>3
    <2>5. packet[b] = XorBlock(XorBlock(plain[b], cipher[b - 1]), cipher[b - 1])
      BY <2>4, <1>4, <1>6 DEF Intact
    <2> QED
      BY <2>2, <2>5 DEF XorInverts
  <1> QED
    BY <1>5, <1>6

------------------------------------------------------------------------------
(* Theorems.                                                               *)

(* The two inductive invariants hold together, and every step hashes a whole
   block or nothing. *)
LEMMA CipherStep ==
    ASSUME Algorithms, ShaInv, ChainInv, [CipherNext]_cipherVars
    PROVE  ShaInv' /\ ChainInv' /\ HashStep
  <1>1. CASE ShaNext /\ UNCHANGED chainVars
    BY <1>1, ShaInvStep, ChainUnchanged DEF Algorithms
  <1>2. CASE HashedKey
    <2>1. SetHashedKey(Digest(state)) /\ UNCHANGED shaVars /\ Digest(state) \in HashedKeys
      BY <1>2 DEF HashedKey, Algorithms, DigestIsKey, ShaInv, ShaTypeOK
    <2> QED
      BY <2>1, ChainKeyStep, ShaUnchanged
  <1>3. CASE ChainNext /\ UNCHANGED shaVars
    BY <1>3, ChainInvStep, ShaUnchanged DEF Algorithms
  <1>4. CASE UNCHANGED cipherVars
    BY <1>4, ChainUnchanged, ShaUnchanged DEF cipherVars
  <1> QED
    BY <1>1, <1>2, <1>3, <1>4 DEF CipherNext

(* The hash's and the chain's invariants, for every key, every packet, every
   pattern of damage and every content of the uninitialised buffer. *)
THEOREM CipherInvariance ==
    ASSUME Algorithms
    PROVE  CipherSpec => []CipherInv
  <1>1. CipherInit => CipherInv
    BY ShaInitInv, ChainInitInv DEF CipherInit, CipherInv
  <1>2. CipherInv /\ [CipherNext]_cipherVars => CipherInv'
    BY CipherStep DEF CipherInv
  <1> QED
    BY <1>1, <1>2, PTL DEF CipherSpec

(* hashed_key() hashes the key padded as FIPS 180-2 says, whatever its length
   below 2^32 bytes: padBlock() never writes the length into the wrong place. *)
THEOREM PaddingIsStandard ==
    ASSUME Algorithms
    PROVE  CipherSpec => []PaddingConforms
  <1>1. CipherInv => PaddingConforms
    BY ShaInvConforms DEF CipherInv
  <1> QED
    BY <1>1, CipherInvariance, PTL

(* Only whole blocks of the bytes pushed are hashed, each once and in order:
   what hashBlock() leaves in the buffer is never hashed. *)
THEOREM WholeBlocksHashed ==
    ASSUME Algorithms
    PROVE  CipherSpec => HashesWholeBlocks
  <1>1. CipherInv /\ [CipherNext]_cipherVars => [HashStep]_<<state, stream>>
    BY CipherStep DEF CipherInv
  <1> QED
    BY <1>1, CipherInvariance, PTL DEF CipherSpec, HashesWholeBlocks, HashStep

(* decrypt() undoes encrypt() on every block that arrived with the block
   before it intact. *)
THEOREM DamageIsConfined ==
    ASSUME Algorithms
    PROVE  CipherSpec => []DamageConfined
  <1>1. CipherInv => DamageConfined
    BY ChainInvConfines DEF Algorithms, CipherInv
  <1> QED
    BY <1>1, CipherInvariance, PTL

(* Type correctness of both parts. *)
THEOREM CipherTypeCorrect ==
    ASSUME Algorithms
    PROVE  CipherSpec => []CipherTypeOK
  <1>1. CipherInv => CipherTypeOK
    BY DEF CipherInv, CipherTypeOK, ShaInv, ChainInv
  <1> QED
    BY <1>1, CipherInvariance, PTL
==============================================================================
