-------------------------------- MODULE Aes256 --------------------------------
(***************************************************************************)
(* The AES256 class (AESCommon.cpp, AES256.cpp) as LoRaL2 uses it: a key   *)
(* of 32 bytes is expanded to 15 round keys, and a block of 16 bytes is    *)
(* encrypted and decrypted with them.  A block is a sequence of bytes, its *)
(* columns one after the other.  Input and output of the code may be the   *)
(* same memory, as they are in LoRaL2: both routines work on copies.       *)
(***************************************************************************)
EXTENDS Bytes

CipherBlock == [1 .. 16 -> Byte]
Key == [1 .. 32 -> Byte]
Word == [1 .. 4 -> Byte]

sbox == <<
    99, 124, 119, 123, 242, 107, 111, 197, 48, 1, 103, 43, 254, 215, 171, 118,
    202, 130, 201, 125, 250, 89, 71, 240, 173, 212, 162, 175, 156, 164, 114, 192,
    183, 253, 147, 38, 54, 63, 247, 204, 52, 165, 229, 241, 113, 216, 49, 21,
    4, 199, 35, 195, 24, 150, 5, 154, 7, 18, 128, 226, 235, 39, 178, 117,
    9, 131, 44, 26, 27, 110, 90, 160, 82, 59, 214, 179, 41, 227, 47, 132,
    83, 209, 0, 237, 32, 252, 177, 91, 106, 203, 190, 57, 74, 76, 88, 207,
    208, 239, 170, 251, 67, 77, 51, 133, 69, 249, 2, 127, 80, 60, 159, 168,
    81, 163, 64, 143, 146, 157, 56, 245, 188, 182, 218, 33, 16, 255, 243, 210,
    205, 12, 19, 236, 95, 151, 68, 23, 196, 167, 126, 61, 100, 93, 25, 115,
    96, 129, 79, 220, 34, 42, 144, 136, 70, 238, 184, 20, 222, 94, 11, 219,
    224, 50, 58, 10, 73, 6, 36, 92, 194, 211, 172, 98, 145, 149, 228, 121,
    231, 200, 55, 109, 141, 213, 78, 169, 108, 86, 244, 234, 101, 122, 174, 8,
    186, 120, 37, 46, 28, 166, 180, 198, 232, 221, 116, 31, 75, 189, 139, 138,
    112, 62, 181, 102, 72, 3, 246, 14, 97, 53, 87, 185, 134, 193, 29, 158,
    225, 248, 152, 17, 105, 217, 142, 148, 155, 30, 135, 233, 206, 85, 40, 223,
    140, 161, 137, 13, 191, 230, 66, 104, 65, 153, 45, 15, 176, 84, 187, 22>>

sbox_inverse == <<
    82, 9, 106, 213, 48, 54, 165, 56, 191, 64, 163, 158, 129, 243, 215, 251,
    124, 227, 57, 130, 155, 47, 255, 135, 52, 142, 67, 68, 196, 222, 233, 203,
    84, 123, 148, 50, 166, 194, 35, 61, 238, 76, 149, 11, 66, 250, 195, 78,
    8, 46, 161, 102, 40, 217, 36, 178, 118, 91, 162, 73, 109, 139, 209, 37,
    114, 248, 246, 100, 134, 104, 152, 22, 212, 164, 92, 204, 93, 101, 182, 146,
    108, 112, 72, 80, 253, 237, 185, 218, 94, 21, 70, 87, 167, 141, 157, 132,
    144, 216, 171, 0, 140, 188, 211, 10, 247, 228, 88, 5, 184, 179, 69, 6,
    208, 44, 30, 143, 202, 63, 15, 2, 193, 175, 189, 3, 1, 19, 138, 107,
    58, 145, 17, 65, 79, 103, 220, 234, 151, 242, 207, 206, 240, 180, 230, 115,
    150, 172, 116, 34, 231, 173, 53, 133, 226, 249, 55, 232, 28, 117, 223, 110,
    71, 241, 26, 113, 29, 41, 197, 137, 111, 183, 98, 14, 170, 24, 190, 27,
    252, 86, 62, 75, 198, 210, 121, 32, 154, 219, 192, 254, 120, 205, 90, 244,
    31, 221, 168, 51, 136, 7, 199, 49, 177, 18, 16, 89, 39, 128, 236, 95,
    96, 81, 127, 169, 25, 181, 74, 13, 45, 229, 122, 159, 147, 201, 156, 239,
    160, 224, 59, 77, 174, 42, 245, 176, 200, 235, 187, 60, 131, 83, 153, 97,
    23, 43, 4, 126, 186, 119, 214, 38, 225, 105, 20, 99, 85, 33, 12, 125>>

(* Multiplication in the field, by shifting and correcting for the bits
   shifted out.  It distributes over the exclusive or: a byte of
   inverseMixColumn() is written with three products instead of nine, and
   UnmixAsWritten in AlgorithmProofs shows that this is the same. *)
K == <<0, 27, 54, 45, 108, 119, 90, 65>>
gmul2(x) == xor((2 * x) % 256, 27 * ((2 * x) \div 256))
gmul4(x) == xor((4 * x) % 256, K[((4 * x) \div 256) + 1])
gmul8(x) == xor((8 * x) % 256, K[((8 * x) \div 256) + 1])

MixByte(a, b, c, d) == xor(xor(gmul2(a), xor(gmul2(b), b)), xor(c, d))

InverseMixByte(a, b, c, d) ==
    LET both == xor(xor(a, b), xor(c, d))
    IN  xor(xor(xor(gmul8(both), gmul4(xor(a, c))), gmul2(xor(a, b))),
            xor(b, xor(c, d)))

(* Where row "row" of column "col" is, both counted from 0 and round the end. *)
Place(col, row) == (4 * (col % 4)) + (row % 4) + 1
Col(p) == (p - 1) \div 4
Row(p) == (p - 1) % 4

(* The byte of the column of place p that lies d rows below it. *)
Below(s, p, d) == s[Place(Col(p), Row(p) + d)]

(* mixColumn() and inverseMixColumn() on the four columns: each byte is one
   combination of its column, read from its own row on. *)
mixColumns(s) ==
    Tabulated([p \in 1 .. 16 |->
        MixByte(Below(s, p, 0), Below(s, p, 1), Below(s, p, 2), Below(s, p, 3))])
inverseMixColumns(s) ==
    Tabulated([p \in 1 .. 16 |->
        InverseMixByte(Below(s, p, 0), Below(s, p, 1), Below(s, p, 2), Below(s, p, 3))])

(* Row r of the output is row r of the input, turned r columns to one side or
   the other, each byte replaced by the table. *)
subBytesAndShiftRows(s) ==
    Tabulated([p \in 1 .. 16 |-> sbox[s[Place(Col(p) + Row(p), Row(p))] + 1]])
inverseShiftRowsAndSubBytes(s) ==
    Tabulated([p \in 1 .. 16 |-> sbox_inverse[s[Place(Col(p) - Row(p), Row(p))] + 1]])

------------------------------------------------------------------------------
(* The key schedule: words of 4 bytes, each from the one before it and the   *)
(* one 8 words back.                                                        *)
rcon == <<0, 1, 2, 4, 8, 16, 32, 64, 128, 27, 54>>

applySbox(w) == Tabulated([i \in 1 .. 4 |-> sbox[w[i] + 1]])

keyScheduleCore(w, iteration) ==
    XorBytes(applySbox(<<w[2], w[3], w[4], w[1]>>), <<rcon[iteration + 1], 0, 0, 0>>)

(* Seeded fault: the schedule of the shorter keys, with no substitution half
   way. *)
NextWordShort(words, n) ==
    XorBytes(words[n - 7],
             IF n % 8 = 0 THEN keyScheduleCore(words[n], n \div 8) ELSE words[n])

NextWord(words, n) ==
    XorBytes(words[n - 7],
             IF n % 8 = 0 THEN keyScheduleCore(words[n], n \div 8)
             ELSE IF n % 8 = 4 THEN applySbox(words[n]) ELSE words[n])

setKey(key) ==
    Loop([n \in 1 .. 52 |-> [words \in Seq(Word) |-> Append(words, NextWord(words, n + 7))]],
         Tabulated([k \in 1 .. 8 |-> SubSeq(key, 4 * k - 3, 4 * k)]), 52)

rounds == 14

(* The r-th sixteen bytes of the schedule. *)
RoundKey(schedule, r) ==
    Tabulated([p \in 1 .. 16 |-> schedule[4 * r + Col(p) + 1][Row(p) + 1]])

------------------------------------------------------------------------------
(* The two directions, each a loop over the rounds between the first key and *)
(* the last, or the last and the first.                                     *)
encryptBlock(schedule, input) ==
    LET Round == [r \in 1 .. rounds - 1 |-> [s \in CipherBlock |->
            XorBytes(mixColumns(subBytesAndShiftRows(s)), RoundKey(schedule, r))]]
        state1 == Loop(Round, XorBytes(input, RoundKey(schedule, 0)), rounds - 1)
    IN  XorBytes(subBytesAndShiftRows(state1), RoundKey(schedule, rounds))

decryptBlock(schedule, input) ==
    LET Round == [r \in 1 .. rounds - 1 |-> [s \in CipherBlock |->
            inverseShiftRowsAndSubBytes(
                inverseMixColumns(XorBytes(s, RoundKey(schedule, rounds - r))))]]
        first == inverseShiftRowsAndSubBytes(XorBytes(input, RoundKey(schedule, rounds)))
        state2 == Loop(Round, first, rounds - 1)
    IN  XorBytes(state2, RoundKey(schedule, 0))
==============================================================================
