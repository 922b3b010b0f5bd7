-------------------------------- MODULE Sha256 --------------------------------
(***************************************************************************)
(* The Sha256 class (sha256.cpp) as hashed_key() in LoRaL2.cpp drives it:  *)
(* init(), write() for a byte 2 and for every byte of the key, result().   *)
(* The bytes go through push() into a buffer of one block, which           *)
(* hashBlock() folds into the state whenever it is full.                   *)
(*                                                                         *)
(* What hashBlock() computes is a parameter: Compress is the new state,    *)
(* Expand the message schedule it leaves behind in the buffer.  The index  *)
(* "offset ^ 3" only puts the bytes of a word in the order of a            *)
(* little-endian processor; here cell o holds the o-th byte of the block.  *)
(***************************************************************************)
EXTENDS Bytes

CONSTANTS
    Compress(_, _),  \* hashBlock(): the new state, from the old and a block
    Expand(_),       \* hashBlock(): what it leaves in the buffer
    States,          \* the values of the state,
    InitState,       \*   and SHA256_INIT_STATE
    Leftovers,       \* what the buffer may hold when the object is made
    Texts            \* what is hashed

BLOCK_LENGTH == 64
Block == [0 .. BLOCK_LENGTH - 1 -> Byte]

ASSUME StateAssumption == InitState \in States
ASSUME TextAssumption ==
    /\ Leftovers \subseteq Block
    /\ \A t \in Texts : t \in Seq(Byte) /\ Len(t) \div 65536 < 65536

VARIABLES
    state, buffer, bufferOffset, byteCount,
    text,        \* what is being hashed
    spc,         \* "write", "zeros", "length", "done"
    lengthByte,  \* how many bytes of the length padBlock() has pushed
    stream       \* history: every byte given to push()

shaVars == <<state, buffer, bufferOffset, byteCount, text, spc, lengthByte, stream>>

(* init() leaves the buffer as it is. *)
ShaInit ==
    /\ state = InitState /\ bufferOffset = 0 /\ byteCount = 0
    /\ buffer \in Leftovers
    /\ text \in Texts
    /\ spc = "write" /\ lengthByte = 0 /\ stream = <<>>

(* Seeded fault: the block is taken for full one byte early. *)
PushEarly(data) ==
    LET filled == [buffer EXCEPT ![bufferOffset] = data]
        full == bufferOffset + 2 = BLOCK_LENGTH
    IN  /\ bufferOffset' = IF full THEN 0 ELSE bufferOffset + 1
        /\ state' = IF full THEN Compress(state, filled) ELSE state
        /\ buffer' = IF full THEN Expand(filled) ELSE filled
        /\ stream' = Append(stream, data)

(* Seeded fault: the offset is not set back when the block has been hashed. *)
PushOn(data) ==
    LET filled == [buffer EXCEPT ![bufferOffset] = data]
        full == bufferOffset + 1 = BLOCK_LENGTH
    IN  /\ bufferOffset' = bufferOffset + 1
        /\ state' = IF full THEN Compress(state, filled) ELSE state
        /\ buffer' = IF full THEN Expand(filled) ELSE filled
        /\ stream' = Append(stream, data)

push(data) ==
    LET filled == [buffer EXCEPT ![bufferOffset] = data]
        full == bufferOffset + 1 = BLOCK_LENGTH
    IN  /\ bufferOffset' = IF full THEN 0 ELSE bufferOffset + 1
        /\ state' = IF full THEN Compress(state, filled) ELSE state
        /\ buffer' = IF full THEN Expand(filled) ELSE filled
        /\ stream' = Append(stream, data)

Write ==
    /\ spc = "write" /\ byteCount < Len(text)
    /\ byteCount' = byteCount + 1
    /\ push(text[byteCount + 1])
    /\ UNCHANGED <<text, spc, lengthByte>>

(* padBlock(): the mark, zeros up to the last eight bytes of a block, and the
   length in bits; the 32-bit count is shifted, each byte keeps the low bits. *)
PadMark ==
    /\ spc = "write" /\ byteCount = Len(text)
    /\ push(128)
    /\ spc' = "zeros"
    /\ UNCHANGED <<byteCount, text, lengthByte>>

(* Seeded fault: the padding never runs over into another block. *)
ZerosBelow == bufferOffset < 56
ZerosLeft == bufferOffset # 56

PadZero ==
    /\ spc = "zeros" /\ ZerosLeft
    /\ push(0)
    /\ UNCHANGED <<byteCount, text, spc, lengthByte>>

PadEnd ==
    /\ spc = "zeros" /\ ~ZerosLeft
    /\ spc' = "length"
    /\ UNCHANGED <<state, buffer, bufferOffset, byteCount, text, lengthByte, stream>>

LengthField(n) ==
    <<0, 0, 0, n \div 536870912, (n \div 2097152) % 256, (n \div 8192) % 256,
      (n \div 32) % 256, (8 * n) % 256>>

PadLength ==
    /\ spc = "length"
    /\ push(LengthField(byteCount)[lengthByte + 1])
    /\ lengthByte' = lengthByte + 1
    /\ spc' = IF lengthByte = 7 THEN "done" ELSE "length"
    /\ UNCHANGED <<byteCount, text>>

ShaNext == Write \/ PadMark \/ PadZero \/ PadEnd \/ PadLength
ShaSpec == ShaInit /\ [][ShaNext]_shaVars

------------------------------------------------------------------------------
(* Properties.                                                             *)

ShaTypeOK ==
    /\ state \in States
    /\ buffer \in Block
    /\ bufferOffset \in 0 .. BLOCK_LENGTH - 1
    /\ byteCount \in Nat
    /\ text \in Texts
    /\ spc \in {"write", "zeros", "length", "done"}
    /\ lengthByte \in 0 .. 8
    /\ stream \in Seq(Byte)

(* A text and its padding as FIPS 180-2, which padBlock() names, has them: a
   bit one, the fewest zeros that leave eight bytes at the end of a block, and
   there the number of bits of the text, the highest byte first. *)
BigEndian(b) ==
    ((((b[4] * 256 + b[5]) * 256 + b[6]) * 256) + b[7]) * 256 + b[8]

Conforms(s, t) ==
    /\ Len(s) % BLOCK_LENGTH = 0
    /\ Len(s) - Len(t) \in 9 .. 9 + BLOCK_LENGTH - 1
    /\ \A i \in 1 .. Len(t) : s[i] = t[i]
    /\ s[Len(t) + 1] = 128
    /\ \A i \in Len(t) + 2 .. Len(s) - 8 : s[i] = 0
    /\ LET field == [i \in 1 .. 8 |-> s[Len(s) - 8 + i]]
       IN  field[1] = 0 /\ field[2] = 0 /\ field[3] = 0
               /\ BigEndian(field) = 8 * Len(t)

(* What result() has hashed is the key padded as the standard says, wherever
   its end falls in a block. *)
PaddingConforms == spc = "done" => Conforms(stream, text)

(* The state changes with every 64th byte and by the block of those 64 bytes:
   no byte of an earlier block, of the schedule that hashBlock() leaves in the
   buffer or of the uninitialised buffer is ever hashed. *)
LastBlock(s) == [o \in 0 .. BLOCK_LENGTH - 1 |-> s[Len(s) - BLOCK_LENGTH + 1 + o]]

HashesWholeBlocks ==
    [][state' = IF stream' # stream /\ Len(stream') % BLOCK_LENGTH = 0
                THEN Compress(state, LastBlock(stream')) ELSE state]_<<state, stream>>

(* The inductive strengthening: the buffer holds the end of the stream, and
   the stream is a beginning of the padded text, as long as the place in
   padBlock() says. *)
PaddedLength(n) == 64 * ((n + 72) \div 64)

PaddedByte(t, i) ==
    IF i <= Len(t) THEN t[i]
    ELSE IF i = Len(t) + 1 THEN 128
    ELSE IF i <= PaddedLength(Len(t)) - 8 THEN 0
    ELSE LengthField(Len(t))[i - (PaddedLength(Len(t)) - 8)]

BufferHeld ==
    /\ bufferOffset = Len(stream) % BLOCK_LENGTH
    /\ \A o \in 0 .. bufferOffset - 1 :
          buffer[o] = stream[Len(stream) - bufferOffset + 1 + o]

StreamLength ==
    LET n == Len(text)
        last == PaddedLength(n) - 8
    IN  CASE spc = "write" -> Len(stream) = byteCount /\ byteCount <= n /\ lengthByte = 0
          [] spc = "zeros" -> /\ Len(stream) \in n + 1 .. last
                              /\ byteCount = n /\ lengthByte = 0
          [] spc = "length" -> /\ Len(stream) = last + lengthByte
                               /\ byteCount = n /\ lengthByte \in 0 .. 7
          [] OTHER -> Len(stream) = last + 8 /\ byteCount = n

StreamKnown == \A i \in 1 .. Len(stream) : stream[i] = PaddedByte(text, i)

ShaInv == ShaTypeOK /\ BufferHeld /\ StreamLength /\ StreamKnown
==============================================================================
