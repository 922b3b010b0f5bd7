---------------------------- MODULE AlgorithmProofs ----------------------------
(***************************************************************************)
(* The cipher and the hash of the code are what PacketCipherProofs asks of *)
(* its parameters: decryptBlock() undoes encryptBlock() for every key and  *)
(* every block, and hashBlock() leaves states and blocks.  So the theorems *)
(* about hashed_key(), encrypt() and decrypt() hold of the code with these *)
(* two algorithms in it.  And the tables of RS-FEC.h are those of a field, *)
(* as ReedSolomonProofs asks: its theorems hold of the coders as compiled. *)
(*                                                                         *)
(* A byte is known by its bits, and the exclusive or by what it does to    *)
(* them.  Doubling in the field distributes over it, so that the columns   *)
(* of a block can be mixed and unmixed; the rows are turned back and the   *)
(* second table inverts the first.  Round r of decryptBlock() then has     *)
(* what encryptBlock() had r rounds before its end.                        *)
(***************************************************************************)
EXTENDS Aes256, Sha256Block, FieldTables, LoopProofs, SequenceTheorems

------------------------------------------------------------------------------
(* Bytes, bit by bit.                                                       *)

(* The weights of the bits of a byte, and the exclusive or of two bits. *)
Weights == {1, 2, 4, 8, 16, 32, 64, 128}
Flip(u, v) == IF u = v THEN 0 ELSE 1

(* A bit is 0 or 1, and so is what two of them leave and carry. *)
LEMMA BitTyped == ASSUME NEW a \in Nat, NEW k \in Weights PROVE Bit(a, k) \in {0, 1}
<1>1. a \div k \in Nat
  BY DEF Weights
<1> DEFINE q == a \div k
<1> HIDE DEF q
<1>2. q \in Nat
  BY <1>1 DEF q
<1>3. q % 2 \in {0, 1}
  BY <1>2
<1> QED BY <1>3 DEF Bit, q

(* Adding two bits. *)
LEMMA FlipIs == ASSUME NEW u \in {0, 1}, NEW v \in {0, 1}
                PROVE /\ Flip(u, v) \in {0, 1} /\ (u + v) % 2 = Flip(u, v)
                      /\ (u + v) \div 2 \in {0, 1}
BY DEF Flip

(* A half byte is the sum of its bits, and any four bits make one. *)
LEMMA HalfIsBits == ASSUME NEW a \in 0 .. 15
    PROVE a = 8 * Bit(a, 8) + 4 * Bit(a, 4) + 2 * Bit(a, 2) + Bit(a, 1)
BY DEF Bit

(* Four bits make a half byte. *)
LEMMA BitsOfHalf == ASSUME NEW p \in {0, 1}, NEW q \in {0, 1}, NEW r \in {0, 1}, NEW s \in {0, 1},
                           NEW a, a = 8 * p + 4 * q + 2 * r + s
    PROVE a \in 0 .. 15 /\ Bit(a, 8) = p /\ Bit(a, 4) = q /\ Bit(a, 2) = r /\ Bit(a, 1) = s
BY DEF Bit

(* A byte is two halves, and its bits are theirs. *)
LEMMA ByteIsHalves == ASSUME NEW a \in Byte
    PROVE /\ a \div 16 \in 0 .. 15 /\ a % 16 \in 0 .. 15 /\ a = 16 * (a \div 16) + (a % 16)
BY DEF Byte

(* The bits of a byte are those of its halves. *)
LEMMA HalvesOfByte == ASSUME NEW h \in 0 .. 15, NEW l \in 0 .. 15
    PROVE /\ 16 * h + l \in Byte
          /\ Bit(16 * h + l, 128) = Bit(h, 8) /\ Bit(16 * h + l, 64) = Bit(h, 4)
          /\ Bit(16 * h + l, 32) = Bit(h, 2) /\ Bit(16 * h + l, 16) = Bit(h, 1)
          /\ Bit(16 * h + l, 8) = Bit(l, 8) /\ Bit(16 * h + l, 4) = Bit(l, 4)
          /\ Bit(16 * h + l, 2) = Bit(l, 2) /\ Bit(16 * h + l, 1) = Bit(l, 1)
<1>0. 16 * h + l \in Byte BY DEF Byte
<1>1. (16 * h + l) \div 128 = h \div 8 OBVIOUS
<1>2. (16 * h + l) \div 64 = h \div 4 OBVIOUS
<1>3. (16 * h + l) \div 32 = h \div 2 OBVIOUS
<1>4. (16 * h + l) \div 16 = h \div 1 OBVIOUS
<1>5. ((16 * h + l) \div 8) % 2 = (l \div 8) % 2 OBVIOUS
<1>6. ((16 * h + l) \div 4) % 2 = (l \div 4) % 2 OBVIOUS
<1>7. ((16 * h + l) \div 2) % 2 = (l \div 2) % 2 OBVIOUS
<1>8. ((16 * h + l) \div 1) % 2 = (l \div 1) % 2 OBVIOUS
<1> QED BY <1>0, <1>1, <1>2, <1>3, <1>4, <1>5, <1>6, <1>7, <1>8 DEF Bit

(* The tables of Bytes, bit by bit. *)
LEMMA XorOfHalves == ASSUME NEW a \in 0 .. 15, NEW b \in 0 .. 15
    PROVE /\ XorHalf[a][b] \in 0 .. 15
          /\ \A k \in {1, 2, 4, 8} : Bit(XorHalf[a][b], k) = Flip(Bit(a, k), Bit(b, k))
<1> DEFINE x(k) == (Bit(a, k) + Bit(b, k)) % 2
<1>1. XorHalf[a][b] = 8 * x(8) + 4 * x(4) + 2 * x(2) + x(1)
  BY SMTT(30) DEF XorHalf
<1>2. \A k \in {1, 2, 4, 8} : x(k) \in {0, 1} /\ x(k) = Flip(Bit(a, k), Bit(b, k))
  BY BitTyped, FlipIs DEF Weights
<1> HIDE DEF x
<1>3. x(8) \in {0, 1} /\ x(4) \in {0, 1} /\ x(2) \in {0, 1} /\ x(1) \in {0, 1}
  BY <1>2
<1>4. /\ XorHalf[a][b] \in 0 .. 15
      /\ Bit(XorHalf[a][b], 8) = x(8) /\ Bit(XorHalf[a][b], 4) = x(4)
      /\ Bit(XorHalf[a][b], 2) = x(2) /\ Bit(XorHalf[a][b], 1) = x(1)
  BY <1>1, <1>3, BitsOfHalf
<1> QED BY <1>2, <1>4, SMTT(30)

(* The table of the conjunction holds half bytes. *)
LEMMA AndOfHalves == ASSUME NEW a \in 0 .. 15, NEW b \in 0 .. 15
    PROVE AndHalf[a][b] \in 0 .. 15
<1> DEFINE x(k) == (Bit(a, k) + Bit(b, k)) \div 2
<1>1. AndHalf[a][b] = 8 * x(8) + 4 * x(4) + 2 * x(2) + x(1)
  BY DEF AndHalf
<1>2. \A k \in {1, 2, 4, 8} : x(k) \in {0, 1}
  BY BitTyped, FlipIs DEF Weights
<1> HIDE DEF x
<1>3. x(8) \in {0, 1} /\ x(4) \in {0, 1} /\ x(2) \in {0, 1} /\ x(1) \in {0, 1}
  BY <1>2, SMTT(30)
<1> QED BY <1>1, <1>3, BitsOfHalf, SMTT(30)

(* The conjunction of two bytes is a byte. *)
LEMMA AndType == ASSUME NEW a \in Byte, NEW b \in Byte PROVE and8(a, b) \in Byte
<1> DEFINE h == AndHalf[a \div 16][b \div 16]
           l == AndHalf[a % 16][b % 16]
<1>1. /\ a \div 16 \in 0 .. 15 /\ a % 16 \in 0 .. 15
      /\ b \div 16 \in 0 .. 15 /\ b % 16 \in 0 .. 15
  BY ByteIsHalves, SMTT(30)
<1>2. h \in 0 .. 15 /\ l \in 0 .. 15
  BY <1>1, AndOfHalves
<1>3. and8(a, b) = 16 * h + l
  BY Zenon DEF and8
<1> HIDE DEF h, l
<1> QED BY <1>2, <1>3, HalvesOfByte

(* The exclusive or of two bytes, bit by bit. *)
LEMMA XorBits == ASSUME NEW a \in Byte, NEW b \in Byte
    PROVE /\ xor(a, b) \in Byte
          /\ \A k \in Weights : Bit(xor(a, b), k) = Flip(Bit(a, k), Bit(b, k))
<1> DEFINE ah == a \div 16
           al == a % 16
           bh == b \div 16
           bl == b % 16
<1>1. /\ ah \in 0 .. 15 /\ al \in 0 .. 15 /\ bh \in 0 .. 15 /\ bl \in 0 .. 15
      /\ a = 16 * ah + al /\ b = 16 * bh + bl
  BY ByteIsHalves
<1>2. xor(a, b) = 16 * XorHalf[ah][bh] + XorHalf[al][bl]
  BY DEF xor
<1> HIDE DEF ah, al, bh, bl
<1>3. /\ XorHalf[ah][bh] \in 0 .. 15 /\ XorHalf[al][bl] \in 0 .. 15
      /\ \A k \in {1, 2, 4, 8} : /\ Bit(XorHalf[ah][bh], k) = Flip(Bit(ah, k), Bit(bh, k))
                                 /\ Bit(XorHalf[al][bl], k) = Flip(Bit(al, k), Bit(bl, k))
  <2>1. ah \in 0 .. 15 /\ al \in 0 .. 15 /\ bh \in 0 .. 15 /\ bl \in 0 .. 15
    BY <1>1
  <2>2. /\ XorHalf[ah][bh] \in 0 .. 15
        /\ \A k \in {1, 2, 4, 8} : Bit(XorHalf[ah][bh], k) = Flip(Bit(ah, k), Bit(bh, k))
    BY <2>1, XorOfHalves, Zenon
  <2>3. /\ XorHalf[al][bl] \in 0 .. 15
        /\ \A k \in {1, 2, 4, 8} : Bit(XorHalf[al][bl], k) = Flip(Bit(al, k), Bit(bl, k))
    BY <2>1, XorOfHalves, Zenon
  <2> QED BY <2>2, <2>3, Zenon
<1>4. xor(a, b) \in Byte
  BY <1>2, <1>3, HalvesOfByte
<1>5. /\ Bit(a, 128) = Bit(ah, 8) /\ Bit(a, 64) = Bit(ah, 4)
      /\ Bit(a, 32) = Bit(ah, 2) /\ Bit(a, 16) = Bit(ah, 1)
      /\ Bit(a, 8) = Bit(al, 8) /\ Bit(a, 4) = Bit(al, 4)
      /\ Bit(a, 2) = Bit(al, 2) /\ Bit(a, 1) = Bit(al, 1)
  BY <1>1, HalvesOfByte
<1>6. /\ Bit(b, 128) = Bit(bh, 8) /\ Bit(b, 64) = Bit(bh, 4)
      /\ Bit(b, 32) = Bit(bh, 2) /\ Bit(b, 16) = Bit(bh, 1)
      /\ Bit(b, 8) = Bit(bl, 8) /\ Bit(b, 4) = Bit(bl, 4)
      /\ Bit(b, 2) = Bit(bl, 2) /\ Bit(b, 1) = Bit(bl, 1)
  BY <1>1, HalvesOfByte
<1> DEFINE h == XorHalf[ah][bh]
           l == XorHalf[al][bl]
           x == xor(a, b)
<1>7. h \in 0 .. 15 /\ l \in 0 .. 15 /\ x = 16 * h + l
  BY <1>2, <1>3
<1> HIDE DEF h, l, x
<1>8. /\ Bit(x, 128) = Bit(h, 8) /\ Bit(x, 64) = Bit(h, 4)
      /\ Bit(x, 32) = Bit(h, 2) /\ Bit(x, 16) = Bit(h, 1)
      /\ Bit(x, 8) = Bit(l, 8) /\ Bit(x, 4) = Bit(l, 4)
      /\ Bit(x, 2) = Bit(l, 2) /\ Bit(x, 1) = Bit(l, 1)
  BY <1>7, HalvesOfByte
<1>9. \A k \in {1, 2, 4, 8} : /\ Bit(h, k) = Flip(Bit(ah, k), Bit(bh, k))
                              /\ Bit(l, k) = Flip(Bit(al, k), Bit(bl, k))
  BY <1>3 DEF h, l
<1>10. \A k \in Weights : Bit(x, k) = Flip(Bit(a, k), Bit(b, k))
  BY <1>5, <1>6, <1>8, <1>9 DEF Weights
<1> QED BY <1>4, <1>10 DEF x

(* Bytes of the same bits are one. *)
LEMMA SameBits == ASSUME NEW a \in Byte, NEW b \in Byte, \A k \in Weights : Bit(a, k) = Bit(b, k)
    PROVE a = b
<1>1. \A x \in Byte : x = 128 * Bit(x, 128) + 64 * Bit(x, 64) + 32 * Bit(x, 32) + 16 * Bit(x, 16)
                           + 8 * Bit(x, 8) + 4 * Bit(x, 4) + 2 * Bit(x, 2) + Bit(x, 1)
  BY SMTT(40) DEF Byte, Bit
<1>2. /\ Bit(a, 128) = Bit(b, 128) /\ Bit(a, 64) = Bit(b, 64) /\ Bit(a, 32) = Bit(b, 32)
      /\ Bit(a, 16) = Bit(b, 16) /\ Bit(a, 8) = Bit(b, 8) /\ Bit(a, 4) = Bit(b, 4)
      /\ Bit(a, 2) = Bit(b, 2) /\ Bit(a, 1) = Bit(b, 1)
  BY DEF Weights
<1> QED BY <1>1, <1>2

(* What the bits of a byte are. *)
LEMMA ByteBits == ASSUME NEW a \in Byte, NEW k \in Weights PROVE Bit(a, k) \in {0, 1}
<1>1. a \in Nat BY DEF Byte
<1> QED BY <1>1, BitTyped

(* The laws of the exclusive or of bytes. *)
LEMMA XorType == \A a, b \in Byte : xor(a, b) \in Byte
BY XorBits

(* It does not matter which byte is first, *)
LEMMA XorComm == \A a, b \in Byte : xor(a, b) = xor(b, a)
<1> SUFFICES ASSUME NEW a \in Byte, NEW b \in Byte PROVE xor(a, b) = xor(b, a) OBVIOUS
<1>1. \A k \in Weights : Bit(xor(a, b), k) = Bit(xor(b, a), k)
  BY XorBits DEF Flip
<1> QED BY <1>1, XorBits, SameBits

(* nor which two of three are taken first, *)
LEMMA XorAssoc == \A a, b, c \in Byte : xor(a, xor(b, c)) = xor(xor(a, b), c)
<1> SUFFICES ASSUME NEW a \in Byte, NEW b \in Byte, NEW c \in Byte
             PROVE xor(a, xor(b, c)) = xor(xor(a, b), c) OBVIOUS
<1>0. xor(a, b) \in Byte /\ xor(b, c) \in Byte /\ xor(a, xor(b, c)) \in Byte /\ xor(xor(a, b), c) \in Byte
  BY XorType
<1>1. ASSUME NEW k \in Weights PROVE Bit(xor(a, xor(b, c)), k) = Bit(xor(xor(a, b), c), k)
  <2>1. Bit(xor(a, xor(b, c)), k) = Flip(Bit(a, k), Flip(Bit(b, k), Bit(c, k)))
    BY <1>0, XorBits
  <2>2. Bit(xor(xor(a, b), c), k) = Flip(Flip(Bit(a, k), Bit(b, k)), Bit(c, k))
    BY <1>0, XorBits
  <2>3. Bit(a, k) \in {0, 1} /\ Bit(b, k) \in {0, 1} /\ Bit(c, k) \in {0, 1}
    BY ByteBits
  <2> QED BY <2>1, <2>2, <2>3 DEF Flip
<1> QED BY <1>0, <1>1, SameBits

(* and doing it twice changes nothing. *)
LEMMA XorCancel == \A a, b \in Byte : xor(xor(a, b), b) = a
<1> SUFFICES ASSUME NEW a \in Byte, NEW b \in Byte
             PROVE xor(xor(a, b), b) = a OBVIOUS
<1>0. xor(a, b) \in Byte /\ xor(xor(a, b), b) \in Byte
  BY XorType
<1>1. ASSUME NEW k \in Weights PROVE Bit(xor(xor(a, b), b), k) = Bit(a, k)
  <2>2. Bit(xor(xor(a, b), b), k) = Flip(Flip(Bit(a, k), Bit(b, k)), Bit(b, k))
    BY <1>0, XorBits
  <2>3. Bit(a, k) \in {0, 1} /\ Bit(b, k) \in {0, 1}
    BY ByteBits
  <2> QED BY <2>2, <2>3 DEF Flip
<1> QED BY <1>0, <1>1, SameBits

------------------------------------------------------------------------------
(* AES-256: the field.                                                      *)

(* A byte shifted to the left by one, two and three bits: the bits that stay
   and the number that is shifted out. *)
LEMMA ShiftOnce == ASSUME NEW a \in Byte
    PROVE /\ (2 * a) % 256 \in Byte /\ (2 * a) \div 256 = Bit(a, 128)
          /\ Bit((2 * a) % 256, 1) = 0
          /\ Bit((2 * a) % 256, 2) = Bit(a, 1) /\ Bit((2 * a) % 256, 4) = Bit(a, 2)
          /\ Bit((2 * a) % 256, 8) = Bit(a, 4) /\ Bit((2 * a) % 256, 16) = Bit(a, 8)
          /\ Bit((2 * a) % 256, 32) = Bit(a, 16) /\ Bit((2 * a) % 256, 64) = Bit(a, 32)
          /\ Bit((2 * a) % 256, 128) = Bit(a, 64)
BY SMTT(40) DEF Byte, Bit

(* Eight bits make a byte. *)
LEMMA ByteOfBits == ASSUME NEW a, NEW p \in {0, 1}, NEW q \in {0, 1}, NEW r \in {0, 1}, NEW s \in {0, 1},
                           NEW t \in {0, 1}, NEW u \in {0, 1}, NEW v \in {0, 1}, NEW w \in {0, 1},
                           a = 128 * p + 64 * q + 32 * r + 16 * s + 8 * t + 4 * u + 2 * v + w
    PROVE /\ a \in Byte
          /\ Bit(a, 128) = p /\ Bit(a, 64) = q /\ Bit(a, 32) = r /\ Bit(a, 16) = s
          /\ Bit(a, 8) = t /\ Bit(a, 4) = u /\ Bit(a, 2) = v /\ Bit(a, 1) = w
BY SMTT(40) DEF Byte, Bit

(* By two bits. *)
LEMMA ShiftTwice == ASSUME NEW a \in Byte
    PROVE /\ (4 * a) % 256 \in Byte /\ (4 * a) \div 256 = 2 * Bit(a, 128) + Bit(a, 64)
          /\ Bit((4 * a) % 256, 1) = 0 /\ Bit((4 * a) % 256, 2) = 0
          /\ Bit((4 * a) % 256, 4) = Bit(a, 1) /\ Bit((4 * a) % 256, 8) = Bit(a, 2)
          /\ Bit((4 * a) % 256, 16) = Bit(a, 4) /\ Bit((4 * a) % 256, 32) = Bit(a, 8)
          /\ Bit((4 * a) % 256, 64) = Bit(a, 16) /\ Bit((4 * a) % 256, 128) = Bit(a, 32)
BY SMTT(40) DEF Byte, Bit

(* By three bits. *)
LEMMA ShiftThrice == ASSUME NEW a \in Byte
    PROVE /\ (8 * a) % 256 \in Byte
          /\ (8 * a) \div 256 = 4 * Bit(a, 128) + 2 * Bit(a, 64) + Bit(a, 32)
          /\ Bit((8 * a) % 256, 1) = 0 /\ Bit((8 * a) % 256, 2) = 0 /\ Bit((8 * a) % 256, 4) = 0
          /\ Bit((8 * a) % 256, 8) = Bit(a, 1) /\ Bit((8 * a) % 256, 16) = Bit(a, 2)
          /\ Bit((8 * a) % 256, 32) = Bit(a, 4) /\ Bit((8 * a) % 256, 64) = Bit(a, 8)
          /\ Bit((8 * a) % 256, 128) = Bit(a, 16)
BY SMTT(40) DEF Byte, Bit

(* Doubling, bit by bit. *)
LEMMA DoubledBits == ASSUME NEW a \in Byte
    PROVE /\ gmul2(a) \in Byte
          /\ Bit(gmul2(a), 1) = Bit(a, 128)
          /\ Bit(gmul2(a), 2) = Flip(Bit(a, 1), Bit(a, 128))
          /\ Bit(gmul2(a), 4) = Bit(a, 2)
          /\ Bit(gmul2(a), 8) = Flip(Bit(a, 4), Bit(a, 128))
          /\ Bit(gmul2(a), 16) = Flip(Bit(a, 8), Bit(a, 128))
          /\ Bit(gmul2(a), 32) = Bit(a, 16)
          /\ Bit(gmul2(a), 64) = Bit(a, 32)
          /\ Bit(gmul2(a), 128) = Bit(a, 64)
<1> DEFINE s == (2 * a) % 256
           t == (2 * a) \div 256
<1>1. gmul2(a) = xor(s, 27 * t)
  BY DEF gmul2
<1>2. /\ s \in Byte /\ t = Bit(a, 128) /\ Bit(s, 1) = 0
      /\ Bit(s, 2) = Bit(a, 1) /\ Bit(s, 4) = Bit(a, 2) /\ Bit(s, 8) = Bit(a, 4)
      /\ Bit(s, 16) = Bit(a, 8) /\ Bit(s, 32) = Bit(a, 16) /\ Bit(s, 64) = Bit(a, 32)
      /\ Bit(s, 128) = Bit(a, 64)
  BY ShiftOnce
<1> HIDE DEF s, t
<1>3. \A k \in Weights : Bit(a, k) \in {0, 1}
  BY ByteBits
<1>4. t \in {0, 1}
  BY <1>2, <1>3 DEF Weights
<1>5. /\ 27 * t \in Byte
      /\ Bit(27 * t, 128) = 0 /\ Bit(27 * t, 64) = 0 /\ Bit(27 * t, 32) = 0
      /\ Bit(27 * t, 16) = t /\ Bit(27 * t, 8) = t /\ Bit(27 * t, 4) = 0
      /\ Bit(27 * t, 2) = t /\ Bit(27 * t, 1) = t
  <2>1. 27 * t = 128 * 0 + 64 * 0 + 32 * 0 + 16 * t + 8 * t + 4 * 0 + 2 * t + t
    BY <1>4
  <2>2. 0 \in {0, 1}
    OBVIOUS
  <2> QED BY <1>4, <2>1, <2>2, ByteOfBits
<1>6. /\ xor(s, 27 * t) \in Byte
      /\ \A k \in Weights : Bit(xor(s, 27 * t), k) = Flip(Bit(s, k), Bit(27 * t, k))
  BY <1>2, <1>5, XorBits
<1> DEFINE x == xor(s, 27 * t)
           y == 27 * t
<1>7. \A k \in Weights : Bit(x, k) = Flip(Bit(s, k), Bit(y, k))
  BY <1>6
<1>8. /\ Bit(y, 128) = 0 /\ Bit(y, 64) = 0 /\ Bit(y, 32) = 0 /\ Bit(y, 16) = t
      /\ Bit(y, 8) = t /\ Bit(y, 4) = 0 /\ Bit(y, 2) = t /\ Bit(y, 1) = t
  BY <1>5
<1>9. gmul2(a) = x /\ x \in Byte
  BY <1>1, <1>6
<1> HIDE DEF x, y
<1>10. /\ Bit(x, 1) = Bit(a, 128) /\ Bit(x, 2) = Flip(Bit(a, 1), Bit(a, 128))
       /\ Bit(x, 4) = Bit(a, 2) /\ Bit(x, 8) = Flip(Bit(a, 4), Bit(a, 128))
       /\ Bit(x, 16) = Flip(Bit(a, 8), Bit(a, 128)) /\ Bit(x, 32) = Bit(a, 16)
       /\ Bit(x, 64) = Bit(a, 32) /\ Bit(x, 128) = Bit(a, 64)
  BY <1>2, <1>3, <1>4, <1>7, <1>8 DEF Weights, Flip
<1> QED BY <1>9, <1>10

(* The double of a byte is a byte. *)
LEMMA DoubleType == \A a \in Byte : gmul2(a) \in Byte
BY DoubledBits

(* Doubling distributes over the exclusive or. *)
LEMMA DoubleXor == \A a, b \in Byte : gmul2(xor(a, b)) = xor(gmul2(a), gmul2(b))
<1> SUFFICES ASSUME NEW a \in Byte, NEW b \in Byte
             PROVE gmul2(xor(a, b)) = xor(gmul2(a), gmul2(b)) OBVIOUS
<1> DEFINE x == xor(a, b)
           l == gmul2(x)
           p == gmul2(a)
           q == gmul2(b)
           r == xor(p, q)
<1>1. x \in Byte /\ p \in Byte /\ q \in Byte /\ l \in Byte /\ r \in Byte
  BY XorType, DoubleType
<1>2. \A k \in Weights : Bit(x, k) = Flip(Bit(a, k), Bit(b, k))
  BY XorBits
<1>3. \A k \in Weights : Bit(r, k) = Flip(Bit(p, k), Bit(q, k))
  BY <1>1, XorBits
<1>4. \A k \in Weights : Bit(a, k) \in {0, 1} /\ Bit(b, k) \in {0, 1}
  BY ByteBits
<1>5. /\ Bit(l, 1) = Bit(x, 128) /\ Bit(l, 2) = Flip(Bit(x, 1), Bit(x, 128))
      /\ Bit(l, 4) = Bit(x, 2) /\ Bit(l, 8) = Flip(Bit(x, 4), Bit(x, 128))
      /\ Bit(l, 16) = Flip(Bit(x, 8), Bit(x, 128)) /\ Bit(l, 32) = Bit(x, 16)
      /\ Bit(l, 64) = Bit(x, 32) /\ Bit(l, 128) = Bit(x, 64)
  BY <1>1, DoubledBits
<1>6. /\ Bit(p, 1) = Bit(a, 128) /\ Bit(p, 2) = Flip(Bit(a, 1), Bit(a, 128))
      /\ Bit(p, 4) = Bit(a, 2) /\ Bit(p, 8) = Flip(Bit(a, 4), Bit(a, 128))
      /\ Bit(p, 16) = Flip(Bit(a, 8), Bit(a, 128)) /\ Bit(p, 32) = Bit(a, 16)
      /\ Bit(p, 64) = Bit(a, 32) /\ Bit(p, 128) = Bit(a, 64)
  BY DoubledBits
<1>7. /\ Bit(q, 1) = Bit(b, 128) /\ Bit(q, 2) = Flip(Bit(b, 1), Bit(b, 128))
      /\ Bit(q, 4) = Bit(b, 2) /\ Bit(q, 8) = Flip(Bit(b, 4), Bit(b, 128))
      /\ Bit(q, 16) = Flip(Bit(b, 8), Bit(b, 128)) /\ Bit(q, 32) = Bit(b, 16)
      /\ Bit(q, 64) = Bit(b, 32) /\ Bit(q, 128) = Bit(b, 64)
  BY DoubledBits
<1> HIDE DEF x, l, p, q, r
<1>8. \A k \in Weights : Bit(l, k) = Bit(r, k)
  BY <1>2, <1>3, <1>4, <1>5, <1>6, <1>7 DEF Weights, Flip
<1>9. l = r
  BY <1>1, <1>8, SameBits
<1> QED BY <1>9 DEF x, l, p, q, r

(* gmul4() and gmul8() are two and three doublings: K holds what they correct. *)
LEMMA QuadrupleIs == \A a \in Byte : gmul4(a) = gmul2(gmul2(a))
<1> SUFFICES ASSUME NEW a \in Byte PROVE gmul4(a) = gmul2(gmul2(a)) OBVIOUS
<1> DEFINE s == (4 * a) % 256
           t == (4 * a) \div 256
           c == K[t + 1]
           x == xor(s, c)
           p == gmul2(a)
           l == gmul2(p)
<1>1. gmul4(a) = x
  BY DEF gmul4
<1>2. /\ s \in Byte /\ t = 2 * Bit(a, 128) + Bit(a, 64) /\ Bit(s, 1) = 0 /\ Bit(s, 2) = 0
      /\ Bit(s, 4) = Bit(a, 1) /\ Bit(s, 8) = Bit(a, 2) /\ Bit(s, 16) = Bit(a, 4)
      /\ Bit(s, 32) = Bit(a, 8) /\ Bit(s, 64) = Bit(a, 16) /\ Bit(s, 128) = Bit(a, 32)
  BY ShiftTwice
<1>3. p \in Byte /\ l \in Byte
  BY DoubleType
<1>4. /\ Bit(l, 1) = Bit(p, 128) /\ Bit(l, 2) = Flip(Bit(p, 1), Bit(p, 128))
      /\ Bit(l, 4) = Bit(p, 2) /\ Bit(l, 8) = Flip(Bit(p, 4), Bit(p, 128))
      /\ Bit(l, 16) = Flip(Bit(p, 8), Bit(p, 128)) /\ Bit(l, 32) = Bit(p, 16)
      /\ Bit(l, 64) = Bit(p, 32) /\ Bit(l, 128) = Bit(p, 64)
  BY <1>3, DoubledBits
<1>5. /\ Bit(p, 1) = Bit(a, 128) /\ Bit(p, 2) = Flip(Bit(a, 1), Bit(a, 128))
      /\ Bit(p, 4) = Bit(a, 2) /\ Bit(p, 8) = Flip(Bit(a, 4), Bit(a, 128))
      /\ Bit(p, 16) = Flip(Bit(a, 8), Bit(a, 128)) /\ Bit(p, 32) = Bit(a, 16)
      /\ Bit(p, 64) = Bit(a, 32) /\ Bit(p, 128) = Bit(a, 64)
  BY DoubledBits
<1>6. \A k \in Weights : Bit(a, k) \in {0, 1}
  BY ByteBits
<1> DEFINE u == Bit(a, 128)
           v == Bit(a, 64)
<1>7. u \in {0, 1} /\ v \in {0, 1} /\ t = 2 * u + v
  BY <1>2, <1>6 DEF Weights
<1> HIDE DEF s, t, u, v
<1>8. /\ c \in Byte
      /\ Bit(c, 1) = v /\ Bit(c, 2) = Flip(u, v) /\ Bit(c, 4) = u /\ Bit(c, 8) = v
      /\ Bit(c, 16) = Flip(u, v) /\ Bit(c, 32) = u /\ Bit(c, 64) = 0 /\ Bit(c, 128) = 0
  <2>1. Flip(u, v) \in {0, 1}
    BY DEF Flip
  <2>2. c = 128 * 0 + 64 * 0 + 32 * u + 16 * Flip(u, v) + 8 * v + 4 * u + 2 * Flip(u, v) + v
    BY <1>7 DEF K, Flip
  <2>3. 0 \in {0, 1}
    OBVIOUS
  <2> HIDE DEF c
  <2> QED BY <1>7, <2>1, <2>2, <2>3, ByteOfBits
<1> HIDE DEF c
<1>9. x \in Byte /\ \A k \in Weights : Bit(x, k) = Flip(Bit(s, k), Bit(c, k))
  BY <1>2, <1>8, XorBits
<1> HIDE DEF x, l, p
<1>10. \A k \in Weights : Bit(x, k) = Bit(l, k)
  BY <1>2, <1>4, <1>5, <1>6, <1>8, <1>9 DEF Weights, Flip, u, v
<1>11. x = l
  BY <1>3, <1>9, <1>10, SameBits
<1> QED BY <1>1, <1>11 DEF l, p

(* gmul8() is three doublings. *)
LEMMA OctupleIs == \A a \in Byte : gmul8(a) = gmul4(gmul2(a))
<1> SUFFICES ASSUME NEW a \in Byte PROVE gmul8(a) = gmul2(gmul2(gmul2(a)))
  BY QuadrupleIs, DoubleType
<1> DEFINE s == (8 * a) % 256
           t == (8 * a) \div 256
           c == K[t + 1]
           x == xor(s, c)
           p == gmul2(a)
           q == gmul2(p)
           l == gmul2(q)
<1>1. gmul8(a) = x
  BY DEF gmul8
<1>2. /\ s \in Byte /\ t = 4 * Bit(a, 128) + 2 * Bit(a, 64) + Bit(a, 32)
      /\ Bit(s, 1) = 0 /\ Bit(s, 2) = 0 /\ Bit(s, 4) = 0
      /\ Bit(s, 8) = Bit(a, 1) /\ Bit(s, 16) = Bit(a, 2) /\ Bit(s, 32) = Bit(a, 4)
      /\ Bit(s, 64) = Bit(a, 8) /\ Bit(s, 128) = Bit(a, 16)
  BY ShiftThrice
<1>3. p \in Byte /\ q \in Byte /\ l \in Byte
  BY DoubleType
<1>4. /\ Bit(l, 1) = Bit(q, 128) /\ Bit(l, 2) = Flip(Bit(q, 1), Bit(q, 128))
      /\ Bit(l, 4) = Bit(q, 2) /\ Bit(l, 8) = Flip(Bit(q, 4), Bit(q, 128))
      /\ Bit(l, 16) = Flip(Bit(q, 8), Bit(q, 128)) /\ Bit(l, 32) = Bit(q, 16)
      /\ Bit(l, 64) = Bit(q, 32) /\ Bit(l, 128) = Bit(q, 64)
  BY <1>3, DoubledBits
<1>5. /\ Bit(p, 1) = Bit(a, 128) /\ Bit(p, 2) = Flip(Bit(a, 1), Bit(a, 128))
      /\ Bit(p, 4) = Bit(a, 2) /\ Bit(p, 8) = Flip(Bit(a, 4), Bit(a, 128))
      /\ Bit(p, 16) = Flip(Bit(a, 8), Bit(a, 128)) /\ Bit(p, 32) = Bit(a, 16)
      /\ Bit(p, 64) = Bit(a, 32) /\ Bit(p, 128) = Bit(a, 64)
  BY DoubledBits
<1>12. /\ Bit(q, 1) = Bit(p, 128) /\ Bit(q, 2) = Flip(Bit(p, 1), Bit(p, 128))
      /\ Bit(q, 4) = Bit(p, 2) /\ Bit(q, 8) = Flip(Bit(p, 4), Bit(p, 128))
      /\ Bit(q, 16) = Flip(Bit(p, 8), Bit(p, 128)) /\ Bit(q, 32) = Bit(p, 16)
      /\ Bit(q, 64) = Bit(p, 32) /\ Bit(q, 128) = Bit(p, 64)
  BY <1>3, DoubledBits
<1>6. \A k \in Weights : Bit(a, k) \in {0, 1}
  BY ByteBits
<1> DEFINE u == Bit(a, 128)
           v == Bit(a, 64)
           w == Bit(a, 32)
<1>7. u \in {0, 1} /\ v \in {0, 1} /\ w \in {0, 1} /\ t = 4 * u + 2 * v + w
  BY <1>2, <1>6 DEF Weights
<1> HIDE DEF s, t, u, v, w
<1>8. /\ c \in Byte
      /\ Bit(c, 1) = w /\ Bit(c, 2) = Flip(v, w) /\ Bit(c, 4) = Flip(u, v)
      /\ Bit(c, 8) = Flip(u, w)
      /\ Bit(c, 16) = Flip(v, w) /\ Bit(c, 32) = Flip(u, v) /\ Bit(c, 64) = u /\ Bit(c, 128) = 0
  <2>1. Flip(u, v) \in {0, 1} /\ Flip(u, w) \in {0, 1} /\ Flip(v, w) \in {0, 1}
    BY DEF Flip
  <2>2. c = 128 * 0 + 64 * u + 32 * Flip(u, v) + 16 * Flip(v, w) + 8 * Flip(u, w)
              + 4 * Flip(u, v) + 2 * Flip(v, w) + w
    BY <1>7 DEF K, Flip
  <2>3. 0 \in {0, 1}
    OBVIOUS
  <2> HIDE DEF c
  <2> QED BY <1>7, <2>1, <2>2, <2>3, ByteOfBits
<1> HIDE DEF c
<1>9. x \in Byte /\ \A k \in Weights : Bit(x, k) = Flip(Bit(s, k), Bit(c, k))
  BY <1>2, <1>8, XorBits
<1> HIDE DEF x, l, p, q
<1>10. \A k \in Weights : Bit(x, k) = Bit(l, k)
  BY <1>2, <1>4, <1>5, <1>12, <1>6, <1>8, <1>9 DEF Weights, Flip, u, v, w
<1>11. x = l
  BY <1>3, <1>9, <1>10, SameBits
<1> QED BY <1>1, <1>11 DEF l, p, q

(* The exclusive or of four may be taken in another order. *)
LEMMA XorLaws ==
    /\ \A a, b \in Byte : xor(a, b) \in Byte /\ xor(a, b) = xor(b, a)
    /\ \A a, b, c \in Byte : xor(a, xor(b, c)) = xor(xor(a, b), c)
    /\ \A a, b \in Byte : xor(xor(a, b), b) = a
BY XorType, XorComm, XorAssoc, XorCancel

(* Both quadruple and octuple distribute too. *)
LEMMA QuadrupleXor == \A a, b \in Byte : gmul4(xor(a, b)) = xor(gmul4(a), gmul4(b))
BY QuadrupleIs, DoubleXor, DoubleType, XorType

(* The four bytes of a column, mixed: what adding some of them leaves. *)
LEMMA MixSums ==
    ASSUME NEW a \in Byte, NEW b \in Byte, NEW c \in Byte, NEW d \in Byte
    PROVE  LET p == MixByte(a, b, c, d)
               q == MixByte(b, c, d, a)
               r == MixByte(c, d, a, b)
               s == MixByte(d, a, b, c)
               a2 == gmul2(a)
               b2 == gmul2(b)
               c2 == gmul2(c)
               d2 == gmul2(d)
           IN  /\ p \in Byte /\ q \in Byte /\ r \in Byte /\ s \in Byte
               /\ xor(xor(p, q), xor(r, s)) = xor(xor(a, b), xor(c, d))
               /\ xor(p, r) = xor(xor(xor(a2, c2), xor(b2, d2)), xor(a, c))
               /\ xor(p, q) = xor(xor(a2, c2), xor(a, b))
               /\ xor(q, xor(r, s)) = xor(xor(a2, b2), a)
<1> DEFINE p == MixByte(a, b, c, d)
           q == MixByte(b, c, d, a)
           r == MixByte(c, d, a, b)
           s == MixByte(d, a, b, c)
           a2 == gmul2(a)
           b2 == gmul2(b)
           c2 == gmul2(c)
           d2 == gmul2(d)
<1>0. a2 \in Byte /\ b2 \in Byte /\ c2 \in Byte /\ d2 \in Byte
  BY DoubleType
<1>7. /\ p = xor(xor(a2, xor(b2, b)), xor(c, d))
      /\ q = xor(xor(b2, xor(c2, c)), xor(d, a))
      /\ r = xor(xor(c2, xor(d2, d)), xor(a, b))
      /\ s = xor(xor(d2, xor(a2, a)), xor(b, c))
  BY DEF MixByte
<1> HIDE DEF p, q, r, s, a2, b2, c2, d2
<1>1. \A x, y \in Byte : xor(x, y) \in Byte
  BY XorType
<1>2. \A x, y \in Byte, k \in Weights : Bit(xor(x, y), k) = Flip(Bit(x, k), Bit(y, k))
  BY XorBits
<1>3. p \in Byte /\ q \in Byte /\ r \in Byte /\ s \in Byte
  BY <1>0, <1>1, <1>7
<1> DEFINE e1 == xor(xor(p, q), xor(r, s))
           f1 == xor(xor(a, b), xor(c, d))
           e2 == xor(p, r)
           f2 == xor(xor(xor(a2, c2), xor(b2, d2)), xor(a, c))
           e3 == xor(p, q)
           f3 == xor(xor(a2, c2), xor(a, b))
           e4 == xor(q, xor(r, s))
           f4 == xor(xor(a2, b2), a)
<1>4. /\ e1 \in Byte /\ f1 \in Byte /\ e2 \in Byte /\ f2 \in Byte
      /\ e3 \in Byte /\ f3 \in Byte /\ e4 \in Byte /\ f4 \in Byte
  BY <1>0, <1>1, <1>3
<1>5. ASSUME NEW k \in Weights
      PROVE  Bit(e1, k) = Bit(f1, k) /\ Bit(e2, k) = Bit(f2, k) /\ Bit(e3, k) = Bit(f3, k)
             /\ Bit(e4, k) = Bit(f4, k)
  <2>p. Bit(p, k) = Flip(Flip(Bit(a2, k), Flip(Bit(b2, k), Bit(b, k))), Flip(Bit(c, k), Bit(d, k)))
    BY <1>0, <1>1, <1>2, <1>7
  <2>q. Bit(q, k) = Flip(Flip(Bit(b2, k), Flip(Bit(c2, k), Bit(c, k))), Flip(Bit(d, k), Bit(a, k)))
    BY <1>0, <1>1, <1>2, <1>7
  <2>r. Bit(r, k) = Flip(Flip(Bit(c2, k), Flip(Bit(d2, k), Bit(d, k))), Flip(Bit(a, k), Bit(b, k)))
    BY <1>0, <1>1, <1>2, <1>7
  <2>s. Bit(s, k) = Flip(Flip(Bit(d2, k), Flip(Bit(a2, k), Bit(a, k))), Flip(Bit(b, k), Bit(c, k)))
    BY <1>0, <1>1, <1>2, <1>7
  <2>e1. Bit(e1, k) = Flip(Flip(Bit(p, k), Bit(q, k)), Flip(Bit(r, k), Bit(s, k)))
    BY <1>1, <1>2, <1>3
  <2>e2. Bit(e2, k) = Flip(Bit(p, k), Bit(r, k))
    BY <1>1, <1>2, <1>3
  <2>e3. Bit(e3, k) = Flip(Bit(p, k), Bit(q, k))
    BY <1>1, <1>2, <1>3
  <2>e4. Bit(e4, k) = Flip(Bit(q, k), Flip(Bit(r, k), Bit(s, k)))
    BY <1>1, <1>2, <1>3
  <2>f1. Bit(f1, k) = Flip(Flip(Bit(a, k), Bit(b, k)), Flip(Bit(c, k), Bit(d, k)))
    BY <1>0, <1>1, <1>2
  <2>f2. Bit(f2, k) = Flip(Flip(Flip(Bit(a2, k), Bit(c2, k)), Flip(Bit(b2, k), Bit(d2, k))), Flip(Bit(a, k), Bit(c, k)))
    BY <1>0, <1>1, <1>2
  <2>f3. Bit(f3, k) = Flip(Flip(Bit(a2, k), Bit(c2, k)), Flip(Bit(a, k), Bit(b, k)))
    BY <1>0, <1>1, <1>2
  <2>f4. Bit(f4, k) = Flip(Flip(Bit(a2, k), Bit(b2, k)), Bit(a, k))
    BY <1>0, <1>1, <1>2
  <2>4. /\ Bit(a, k) \in {0, 1} /\ Bit(b, k) \in {0, 1} /\ Bit(c, k) \in {0, 1} /\ Bit(d, k) \in {0, 1}
        /\ Bit(a2, k) \in {0, 1} /\ Bit(b2, k) \in {0, 1} /\ Bit(c2, k) \in {0, 1} /\ Bit(d2, k) \in {0, 1}
    BY <1>0, ByteBits
  <2> HIDE DEF e1, e2, e3, e4, f1, f2, f3, f4
  <2>5. Bit(e1, k) = Bit(f1, k)
    BY <2>p, <2>q, <2>r, <2>s, <2>e1, <2>f1, <2>4 DEF Flip
  <2>6. Bit(e2, k) = Bit(f2, k)
    BY <2>p, <2>q, <2>r, <2>s, <2>e2, <2>f2, <2>4 DEF Flip
  <2>7. Bit(e3, k) = Bit(f3, k)
    BY <2>p, <2>q, <2>r, <2>s, <2>e3, <2>f3, <2>4 DEF Flip
  <2>8. Bit(e4, k) = Bit(f4, k)
    BY <2>p, <2>q, <2>r, <2>s, <2>e4, <2>f4, <2>4 DEF Flip
  <2> QED BY <2>5, <2>6, <2>7, <2>8
<1> HIDE DEF e1, e2, e3, e4, f1, f2, f3, f4
<1>6. e1 = f1 /\ e2 = f2 /\ e3 = f3 /\ e4 = f4
  <2>1. /\ \A k \in Weights : Bit(e1, k) = Bit(f1, k)
        /\ \A k \in Weights : Bit(e2, k) = Bit(f2, k)
        /\ \A k \in Weights : Bit(e3, k) = Bit(f3, k)
        /\ \A k \in Weights : Bit(e4, k) = Bit(f4, k)
    BY <1>5
  <2> QED BY <1>4, <2>1, SameBits
<1> QED BY <1>3, <1>6 DEF e1, e2, e3, e4, f1, f2, f3, f4, p, q, r, s, a2, b2, c2, d2

(* inverseMixColumn() undoes mixColumn(): the first byte of a column, and so
   each of them. *)
LEMMA MixInverse ==
    ASSUME NEW a \in Byte, NEW b \in Byte, NEW c \in Byte, NEW d \in Byte
    PROVE  InverseMixByte(MixByte(a, b, c, d), MixByte(b, c, d, a),
                          MixByte(c, d, a, b), MixByte(d, a, b, c)) = a
<1> DEFINE p == MixByte(a, b, c, d)
           q == MixByte(b, c, d, a)
           r == MixByte(c, d, a, b)
           s == MixByte(d, a, b, c)
           a2 == gmul2(a)
           b2 == gmul2(b)
           c2 == gmul2(c)
           d2 == gmul2(d)
           all == xor(xor(a, b), xor(c, d))
           ac == xor(a, c)
<1>1. a2 \in Byte /\ b2 \in Byte /\ c2 \in Byte /\ d2 \in Byte
  BY DoubleType
<1>3. /\ p \in Byte /\ q \in Byte /\ r \in Byte /\ s \in Byte
      /\ xor(xor(p, q), xor(r, s)) = xor(xor(a, b), xor(c, d))
      /\ xor(p, r) = xor(xor(xor(a2, c2), xor(b2, d2)), xor(a, c))
      /\ xor(p, q) = xor(xor(a2, c2), xor(a, b))
      /\ xor(q, xor(r, s)) = xor(xor(a2, b2), a)
  BY MixSums
<1> HIDE DEF p, q, r, s, a2, b2, c2, d2
<1>4. InverseMixByte(p, q, r, s) =
          xor(xor(xor(gmul8(all), gmul4(xor(p, r))), gmul2(xor(p, q))), xor(xor(a2, b2), a))
  BY <1>3 DEF InverseMixByte
<1>5. all \in Byte /\ ac \in Byte /\ gmul2(all) \in Byte
  BY XorType, DoubleType
<1>6. xor(xor(a2, c2), xor(b2, d2)) = gmul2(all)
  <2>1. gmul2(all) = xor(xor(a2, b2), xor(c2, d2))
    BY DoubleXor, XorType DEF a2, b2, c2, d2
  <2>2. xor(xor(a2, b2), xor(c2, d2)) = xor(xor(a2, c2), xor(b2, d2))
    BY <1>1, XorLaws
  <2> QED BY <2>1, <2>2
<1>7. gmul4(xor(p, r)) = xor(gmul8(all), gmul4(ac))
  <2>1. xor(p, r) = xor(gmul2(all), ac)
    BY <1>3, <1>6
  <2>2. gmul4(xor(gmul2(all), ac)) = xor(gmul4(gmul2(all)), gmul4(ac))
    BY <1>5, QuadrupleXor
  <2>3. gmul8(all) = gmul4(gmul2(all))
    BY <1>5, OctupleIs
  <2> QED BY <2>1, <2>2, <2>3
<1>8. gmul4(ac) = gmul2(xor(a2, c2)) /\ xor(a2, c2) \in Byte
  BY <1>1, QuadrupleIs, DoubleXor, XorType DEF a2, c2
<1> DEFINE v == xor(a2, b2)
           w == gmul4(ac)
           z == gmul8(all)
<1>9. gmul2(xor(p, q)) = xor(w, v)
  <2>1. gmul2(xor(p, q)) = xor(gmul2(xor(a2, c2)), gmul2(xor(a, b)))
    BY <1>1, <1>3, DoubleXor, XorType
  <2>2. gmul2(xor(a, b)) = v
    BY DoubleXor DEF a2, b2
  <2> QED BY <2>1, <2>2, <1>8
<1>10. v \in Byte /\ w \in Byte /\ z \in Byte
  <2>1. w \in Byte
    BY <1>8, DoubleType
  <2>2. z \in Byte
    BY <1>5, OctupleIs, QuadrupleIs, DoubleType
  <2> QED BY <1>1, <2>1, <2>2, XorType
<1> HIDE DEF v, w, z, all, ac
<1>11. InverseMixByte(p, q, r, s) = xor(xor(xor(z, xor(z, w)), xor(w, v)), xor(v, a))
  BY <1>4, <1>7, <1>9 DEF v, w, z
<1>12. xor(z, xor(z, w)) = w
  BY <1>10, XorLaws
<1>13. xor(w, xor(w, v)) = v
  BY <1>10, XorLaws
<1>14. xor(v, xor(v, a)) = a
  BY <1>10, XorLaws
<1> QED BY <1>11, <1>12, <1>13, <1>14 DEF p, q, r, s

(* The product by eight of a sum: that of the sum of the products. *)
LEMMA OctupleXor == \A a, b \in Byte : gmul8(xor(a, b)) = xor(gmul8(a), gmul8(b))
BY OctupleIs, DoubleXor, DoubleType, QuadrupleXor, XorType

(* One bit of the sums on both sides. *)
LEMMA EightDropOut ==
    ASSUME NEW a \in {0, 1}, NEW b \in {0, 1}, NEW c \in {0, 1}, NEW d \in {0, 1},
           NEW e \in {0, 1}, NEW f \in {0, 1}, NEW g \in {0, 1}, NEW h \in {0, 1},
           NEW p \in {0, 1}, NEW q \in {0, 1}, NEW r \in {0, 1}
    PROVE  Flip(Flip(Flip(Flip(Flip(a, b), Flip(c, d)), Flip(e, f)), Flip(g, h)), Flip(p, Flip(q, r)))
               = Flip(a, Flip(e, Flip(g, Flip(b, Flip(h, Flip(p, Flip(c, Flip(f, Flip(q, Flip(d, r))))))))))
BY DEF Flip

(* inverseMixColumn() as the code has it, with its eleven terms, is what
   InverseMixByte() computes with three products. *)
THEOREM UnmixAsWritten ==
    ASSUME NEW a \in Byte, NEW b \in Byte, NEW c \in Byte, NEW d \in Byte
    PROVE  InverseMixByte(a, b, c, d) =
               xor(gmul8(a), xor(gmul4(a), xor(gmul2(a), xor(gmul8(b), xor(gmul2(b), xor(b,
                   xor(gmul8(c), xor(gmul4(c), xor(c, xor(gmul8(d), d))))))))))
<1> DEFINE a2 == gmul2(a)
           b2 == gmul2(b)
           a4 == gmul4(a)
           c4 == gmul4(c)
           a8 == gmul8(a)
           b8 == gmul8(b)
           c8 == gmul8(c)
           d8 == gmul8(d)
<1>1. \A x, y \in Byte : xor(x, y) \in Byte
  BY XorType
<1>2. \A x \in Byte : gmul2(x) \in Byte /\ gmul4(x) \in Byte /\ gmul8(x) \in Byte
  BY DoubleType, QuadrupleIs, OctupleIs
<1>3. gmul8(xor(xor(a, b), xor(c, d))) = xor(xor(a8, b8), xor(c8, d8))
  BY <1>1, OctupleXor
<1>4. gmul4(xor(a, c)) = xor(a4, c4)
  BY QuadrupleXor
<1>5. gmul2(xor(a, b)) = xor(a2, b2)
  BY DoubleXor
<1> DEFINE l == xor(xor(xor(xor(xor(a8, b8), xor(c8, d8)), xor(a4, c4)), xor(a2, b2)), xor(b, xor(c, d)))
           r == xor(a8, xor(a4, xor(a2, xor(b8, xor(b2, xor(b, xor(c8, xor(c4, xor(c, xor(d8, d))))))))))
<1>6. InverseMixByte(a, b, c, d) = l
  BY <1>3, <1>4, <1>5 DEF InverseMixByte
<1>7. /\ a2 \in Byte /\ b2 \in Byte /\ a4 \in Byte /\ c4 \in Byte
      /\ a8 \in Byte /\ b8 \in Byte /\ c8 \in Byte /\ d8 \in Byte
  BY <1>2
<1> HIDE DEF a2, b2, a4, c4, a8, b8, c8, d8
<1>8. l \in Byte /\ r \in Byte
  BY <1>1, <1>7, SMTT(40)
<1>9. ASSUME NEW k \in Weights PROVE Bit(l, k) = Bit(r, k)
  <2> DEFINE B(x) == Bit(x, k)
  <2>1. \A x, y \in Byte : Bit(xor(x, y), k) = Flip(Bit(x, k), Bit(y, k))
    BY XorBits
  <2>2. Bit(l, k) = Flip(Flip(Flip(Flip(Flip(B(a8), B(b8)), Flip(B(c8), B(d8))), Flip(B(a4), B(c4))),
                              Flip(B(a2), B(b2))), Flip(B(b), Flip(B(c), B(d))))
    <3> DEFINE t1 == xor(a8, b8)
               t2 == xor(c8, d8)
               t3 == xor(t1, t2)
               t4 == xor(a4, c4)
               t5 == xor(t3, t4)
               t6 == xor(a2, b2)
               t7 == xor(t5, t6)
               t8 == xor(c, d)
               t9 == xor(b, t8)
    <3>1. /\ t1 \in Byte /\ t2 \in Byte /\ t4 \in Byte /\ t6 \in Byte /\ t8 \in Byte
          /\ B(t1) = Flip(B(a8), B(b8)) /\ B(t2) = Flip(B(c8), B(d8))
          /\ B(t4) = Flip(B(a4), B(c4)) /\ B(t6) = Flip(B(a2), B(b2)) /\ B(t8) = Flip(B(c), B(d))
      BY <1>1, <1>7, <2>1
    <3> HIDE DEF t1, t2, t4, t6, t8
    <3>2. /\ t3 \in Byte /\ B(t3) = Flip(B(t1), B(t2))
          /\ t9 \in Byte /\ B(t9) = Flip(B(b), B(t8))
      BY <1>1, <2>1, <3>1
    <3> HIDE DEF t3, t9
    <3>3. t5 \in Byte /\ B(t5) = Flip(B(t3), B(t4))
      BY <1>1, <2>1, <3>1, <3>2
    <3> HIDE DEF t5
    <3>4. t7 \in Byte /\ B(t7) = Flip(B(t5), B(t6))
      BY <1>1, <2>1, <3>1, <3>3
    <3> HIDE DEF t7
    <3>5. l = xor(t7, t9)
      BY DEF t1, t2, t3, t4, t5, t6, t7, t8, t9
    <3>6. Bit(l, k) = Flip(B(t7), B(t9))
      BY <2>1, <3>2, <3>4, <3>5
    <3> QED BY <3>1, <3>2, <3>3, <3>4, <3>6
  <2>3. Bit(r, k) = Flip(B(a8), Flip(B(a4), Flip(B(a2), Flip(B(b8), Flip(B(b2), Flip(B(b),
                        Flip(B(c8), Flip(B(c4), Flip(B(c), Flip(B(d8), B(d)))))))))))
    <3> DEFINE s1 == xor(d8, d)
               s2 == xor(c, s1)
               s3 == xor(c4, s2)
               s4 == xor(c8, s3)
               s5 == xor(b, s4)
               s6 == xor(b2, s5)
               s7 == xor(b8, s6)
    <3>1. s1 \in Byte /\ s2 \in Byte /\ s3 \in Byte /\ s4 \in Byte
      BY <1>1, <1>7
    <3>2. s5 \in Byte /\ s6 \in Byte /\ s7 \in Byte
      <4> HIDE DEF s4
      <4> QED BY <1>1, <1>7, <3>1
    <3>3. B(s4) = Flip(B(c8), Flip(B(c4), Flip(B(c), Flip(B(d8), B(d)))))
      BY <1>7, <2>1, <3>1
    <3>4. B(s7) = Flip(B(b8), Flip(B(b2), Flip(B(b), B(s4))))
      <4> HIDE DEF s4
      <4> QED BY <1>7, <2>1, <3>1, <3>2
    <3>5. Bit(r, k) = Flip(B(a8), Flip(B(a4), Flip(B(a2), B(s7))))
      <4> HIDE DEF s7
      <4>1. xor(a2, s7) \in Byte /\ xor(a4, xor(a2, s7)) \in Byte
        BY <1>1, <1>7, <3>2
      <4>2. r = xor(a8, xor(a4, xor(a2, s7)))
        BY DEF s7
      <4> QED BY <1>7, <2>1, <3>2, <4>1, <4>2
    <3> QED BY <3>3, <3>4, <3>5
  <2>4. /\ B(a8) \in {0, 1} /\ B(b8) \in {0, 1} /\ B(c8) \in {0, 1} /\ B(d8) \in {0, 1}
        /\ B(a4) \in {0, 1} /\ B(c4) \in {0, 1} /\ B(a2) \in {0, 1} /\ B(b2) \in {0, 1}
        /\ B(b) \in {0, 1} /\ B(c) \in {0, 1} /\ B(d) \in {0, 1}
    BY <1>7, ByteBits
  <2> HIDE DEF B, l, r
  <2> QED BY <2>2, <2>3, <2>4, EightDropOut
<1>10. l = r
  <2> HIDE DEF l, r
  <2> QED BY <1>8, <1>9, SameBits
<1> QED BY <1>6, <1>10 DEF a2, b2, a4, c4, a8, b8, c8, d8

------------------------------------------------------------------------------
(* AES-256: the steps of a round.                                           *)

(* Places and their columns and rows. *)
LEMMA PlaceFacts ==
    /\ \A c, r \in Int : /\ Place(c, r) \in 1 .. 16
                         /\ Col(Place(c, r)) = c % 4 /\ Row(Place(c, r)) = r % 4
    /\ \A p \in 1 .. 16 : Col(p) \in 0 .. 3 /\ Row(p) \in 0 .. 3 /\ Place(Col(p), Row(p)) = p
<1>1. ASSUME NEW c \in Int, NEW r \in Int
      PROVE  /\ Place(c, r) \in 1 .. 16
             /\ Col(Place(c, r)) = c % 4 /\ Row(Place(c, r)) = r % 4
  <2> DEFINE u == c % 4
             v == r % 4
  <2>1. u \in 0 .. 3 /\ v \in 0 .. 3 /\ Place(c, r) = 4 * u + v + 1
    BY DEF Place
  <2> HIDE DEF u, v
  <2>2. (((4 * u + v + 1) - 1) \div 4) = u /\ (((4 * u + v + 1) - 1) % 4) = v
    BY <2>1
  <2>3. 4 * u + v + 1 \in 1 .. 16
    BY <2>1
  <2>4. Place(c, r) \in 1 .. 16 /\ Col(Place(c, r)) = u /\ Row(Place(c, r)) = v
    BY <2>1, <2>2, <2>3 DEF Col, Row
  <2> QED BY <2>4 DEF u, v
<1>2. ASSUME NEW p \in 1 .. 16
      PROVE  Col(p) \in 0 .. 3 /\ Row(p) \in 0 .. 3 /\ Place(Col(p), Row(p)) = p
  BY DEF Col, Row, Place
<1> QED BY <1>1, <1>2

(* Columns and rows are numbers. *)
LEMMA ColRowInt == \A p \in 1 .. 16 : Col(p) \in Int /\ Row(p) \in Int
BY DEF Col, Row

(* Only the remainders of column and row count. *)
LEMMA PlaceRound ==
    \A c, r, e \in Int : Place(c, (r % 4) + e) = Place(c, r + e) /\ Place((c % 4) + e, r) = Place(c + e, r)
<1>1. \A r, e \in Int : ((r % 4) + e) % 4 = (r + e) % 4
  OBVIOUS
<1> QED BY <1>1 DEF Place

(* A block holds bytes. *)
LEMMA BlockBytes == ASSUME NEW s \in CipherBlock PROVE \A p \in 1 .. 16 : s[p] \in Byte
BY DEF CipherBlock

(* Blocks with the same bytes are one. *)
LEMMA SameBlock ==
    ASSUME NEW s \in CipherBlock, NEW t \in CipherBlock, \A p \in 1 .. 16 : s[p] = t[p]
    PROVE  s = t
BY DEF CipherBlock

(* The exclusive or of two blocks is one, place by place. *)
LEMMA XorBlockFacts ==
    ASSUME NEW s \in CipherBlock, NEW t \in CipherBlock
    PROVE  XorBytes(s, t) \in CipherBlock /\ \A p \in 1 .. 16 : XorBytes(s, t)[p] = xor(s[p], t[p])
<1> DEFINE f == [p \in 1 .. 16 |-> xor(s[p], t[p])]
<1>1. XorBytes(s, t) = Tabulated(f)
  BY DEF XorBytes, CipherBlock
<1>2. f \in [1 .. 16 -> Byte] /\ \A p \in 1 .. 16 : f[p] = xor(s[p], t[p])
  BY XorType DEF CipherBlock
<1>3. 16 \in Nat
  OBVIOUS
<1> HIDE DEF f
<1>4. Tabulated(f) = f
  BY <1>2, <1>3, TabulatedFunction
<1> QED BY <1>1, <1>2, <1>4 DEF CipherBlock

(* The key that was added is taken away again. *)
LEMMA XorBlockInverts ==
    ASSUME NEW s \in CipherBlock, NEW t \in CipherBlock
    PROVE  XorBytes(XorBytes(s, t), t) = s
<1>1. XorBytes(s, t) \in CipherBlock /\ XorBytes(XorBytes(s, t), t) \in CipherBlock
  BY XorBlockFacts
<1>2. ASSUME NEW p \in 1 .. 16 PROVE XorBytes(XorBytes(s, t), t)[p] = s[p]
  <2>1. XorBytes(XorBytes(s, t), t)[p] = xor(xor(s[p], t[p]), t[p])
    BY <1>1, XorBlockFacts
  <2>2. s[p] \in Byte /\ t[p] \in Byte
    BY BlockBytes
  <2> QED BY <2>1, <2>2, XorCancel
<1> QED BY <1>1, <1>2, SameBlock

(* Rows below rows. *)
LEMMA BelowFacts ==
    ASSUME NEW s \in CipherBlock, NEW p \in 1 .. 16
    PROVE  /\ Below(s, p, 0) = s[p]
           /\ \A d \in Int : Below(s, p, d) \in Byte /\ Below(s, p, d + 4) = Below(s, p, d)
           /\ \A d, e \in Int : Below(s, Place(Col(p), Row(p) + d), e) = Below(s, p, d + e)
<1>1. Col(p) \in Int /\ Row(p) \in Int /\ Place(Col(p), Row(p)) = p
  BY PlaceFacts
<1>2. Below(s, p, 0) = s[p]
  <2>1. Row(p) + 0 = Row(p)
    BY <1>1
  <2> QED BY <1>1, <2>1 DEF Below
<1>3. ASSUME NEW d \in Int PROVE Below(s, p, d) \in Byte /\ Below(s, p, d + 4) = Below(s, p, d)
  <2>1. Row(p) + d \in Int
    BY <1>1
  <2>2. Place(Col(p), Row(p) + d) \in 1 .. 16
    BY <1>1, <2>1, PlaceFacts
  <2>3. (Row(p) + (d + 4)) % 4 = (Row(p) + d) % 4
    BY <1>1
  <2>4. Place(Col(p), Row(p) + (d + 4)) = Place(Col(p), Row(p) + d)
    BY <2>3 DEF Place
  <2> QED BY <2>2, <2>4, BlockBytes DEF Below
<1>4. ASSUME NEW d \in Int, NEW e \in Int
      PROVE  Below(s, Place(Col(p), Row(p) + d), e) = Below(s, p, d + e)
  <2> DEFINE c == Col(p)
             r == Row(p)
             x == r + d
  <2>1. c \in 0 .. 3 /\ r \in Int
    BY <1>1, PlaceFacts
  <2> HIDE DEF c, r
  <2>2. c \in Int /\ c % 4 = c /\ x \in Int /\ x + e = r + (d + e)
    BY <2>1
  <2> HIDE DEF x
  <2>3. Col(Place(c, x)) = c /\ Row(Place(c, x)) = x % 4
    BY <2>2, PlaceFacts
  <2>4. Place(c, (x % 4) + e) = Place(c, x + e)
    <3>1. ((x % 4) + e) % 4 = (x + e) % 4
      BY <2>2
    <3> QED BY <3>1 DEF Place
  <2>5. Below(s, Place(c, x), e) = s[Place(c, r + (d + e))]
    BY <2>2, <2>3, <2>4 DEF Below
  <2> QED BY <2>5 DEF Below, c, r, x
<1> QED BY <1>2, <1>3, <1>4

(* The byte that mixing, or undoing it, leaves at place p. *)
Mixed(s, p) == MixByte(Below(s, p, 0), Below(s, p, 1), Below(s, p, 2), Below(s, p, 3))
Unmixed(s, p) == InverseMixByte(Below(s, p, 0), Below(s, p, 1), Below(s, p, 2), Below(s, p, 3))

(* Mixing a column makes bytes. *)
LEMMA MixType == \A a, b, c, d \in Byte : MixByte(a, b, c, d) \in Byte
BY XorType, DoubleType DEF MixByte

(* So does undoing it. *)
LEMMA UnmixType == \A a, b, c, d \in Byte : InverseMixByte(a, b, c, d) \in Byte
<1> SUFFICES ASSUME NEW a \in Byte, NEW b \in Byte, NEW c \in Byte, NEW d \in Byte
             PROVE  InverseMixByte(a, b, c, d) \in Byte
  OBVIOUS
<1> DEFINE both == xor(xor(a, b), xor(c, d))
<1>1. both \in Byte /\ xor(a, c) \in Byte /\ xor(a, b) \in Byte /\ xor(c, d) \in Byte
  BY XorType
<1> HIDE DEF both
<1>2. gmul8(both) \in Byte /\ gmul4(xor(a, c)) \in Byte /\ gmul2(xor(a, b)) \in Byte
  BY <1>1, OctupleIs, QuadrupleIs, DoubleType
<1>3. InverseMixByte(a, b, c, d) =
          xor(xor(xor(gmul8(both), gmul4(xor(a, c))), gmul2(xor(a, b))), xor(b, xor(c, d)))
  BY DEF InverseMixByte, both
<1> QED BY <1>1, <1>2, <1>3, XorType

(* mixColumns() and inverseMixColumns(), place by place. *)
LEMMA MixColumnsFacts ==
    ASSUME NEW s \in CipherBlock
    PROVE  /\ mixColumns(s) \in CipherBlock
           /\ \A p \in 1 .. 16 : mixColumns(s)[p] = Mixed(s, p)
<1> DEFINE f == [p \in 1 .. 16 |-> Mixed(s, p)]
<1>1. mixColumns(s) = Tabulated(f)
  BY DEF mixColumns, Mixed
<1>2. \A p \in 1 .. 16 : Mixed(s, p) \in Byte
  <2> SUFFICES ASSUME NEW p \in 1 .. 16 PROVE Mixed(s, p) \in Byte
    OBVIOUS
  <2>1. \A d \in Int : Below(s, p, d) \in Byte
    BY BelowFacts
  <2>2. 0 \in Int /\ 1 \in Int /\ 2 \in Int /\ 3 \in Int
    OBVIOUS
  <2> QED BY <2>1, <2>2, MixType DEF Mixed
<1>3. f \in [1 .. 16 -> Byte] /\ \A p \in 1 .. 16 : f[p] = Mixed(s, p)
  BY <1>2
<1>4. 16 \in Nat
  OBVIOUS
<1> HIDE DEF f
<1>5. Tabulated(f) = f
  BY <1>3, <1>4, TabulatedFunction
<1> QED BY <1>1, <1>3, <1>5 DEF CipherBlock

(* The other direction. *)
LEMMA UnmixColumnsFacts ==
    ASSUME NEW s \in CipherBlock
    PROVE  /\ inverseMixColumns(s) \in CipherBlock
           /\ \A p \in 1 .. 16 : inverseMixColumns(s)[p] = Unmixed(s, p)
<1> DEFINE f == [p \in 1 .. 16 |-> Unmixed(s, p)]
<1>1. inverseMixColumns(s) = Tabulated(f)
  BY DEF inverseMixColumns, Unmixed
<1>2. \A p \in 1 .. 16 : Unmixed(s, p) \in Byte
  <2> SUFFICES ASSUME NEW p \in 1 .. 16 PROVE Unmixed(s, p) \in Byte
    OBVIOUS
  <2>1. \A d \in Int : Below(s, p, d) \in Byte
    BY BelowFacts
  <2>2. 0 \in Int /\ 1 \in Int /\ 2 \in Int /\ 3 \in Int
    OBVIOUS
  <2> QED BY <2>1, <2>2, UnmixType DEF Unmixed
<1>3. f \in [1 .. 16 -> Byte] /\ \A p \in 1 .. 16 : f[p] = Unmixed(s, p)
  BY <1>2
<1>4. 16 \in Nat
  OBVIOUS
<1> HIDE DEF f
<1>5. Tabulated(f) = f
  BY <1>3, <1>4, TabulatedFunction
<1> QED BY <1>1, <1>3, <1>5 DEF CipherBlock

(* inverseMixColumn() undoes mixColumn(), column by column. *)
LEMMA ColumnsInverse == \A s \in CipherBlock : inverseMixColumns(mixColumns(s)) = s
<1> SUFFICES ASSUME NEW s \in CipherBlock PROVE inverseMixColumns(mixColumns(s)) = s
  OBVIOUS
<1> DEFINE m == mixColumns(s)
<1>1. m \in CipherBlock /\ \A p \in 1 .. 16 : m[p] = Mixed(s, p)
  BY MixColumnsFacts
<1> HIDE DEF m
<1>2. ASSUME NEW p \in 1 .. 16 PROVE Unmixed(m, p) = s[p]
  <2> DEFINE B(d) == Below(s, p, d)
  <2>1. /\ B(0) = s[p] /\ B(4) = B(0) /\ B(5) = B(1) /\ B(6) = B(2)
        /\ B(0) \in Byte /\ B(1) \in Byte /\ B(2) \in Byte /\ B(3) \in Byte
    <3>1. 0 \in Int /\ 1 \in Int /\ 2 \in Int /\ 3 \in Int /\ 0 + 4 = 4 /\ 1 + 4 = 5 /\ 2 + 4 = 6
      OBVIOUS
    <3>2. /\ Below(s, p, 0) = s[p]
          /\ \A d \in Int : Below(s, p, d) \in Byte /\ Below(s, p, d + 4) = Below(s, p, d)
      BY BelowFacts
    <3> QED BY <3>1, <3>2
  <2>2. ASSUME NEW d \in Int
        PROVE  Below(m, p, d) = MixByte(B(d + 0), B(d + 1), B(d + 2), B(d + 3))
    <3> DEFINE x == Place(Col(p), Row(p) + d)
    <3>1. x \in 1 .. 16
      <4>1. Col(p) \in Int /\ Row(p) + d \in Int
        BY ColRowInt
      <4> QED BY <4>1, PlaceFacts
    <3>2. Below(m, p, d) = m[x]
      BY DEF Below
    <3>3. \A e \in Int : Below(s, x, e) = Below(s, p, d + e)
      BY BelowFacts
    <3>4. 0 \in Int /\ 1 \in Int /\ 2 \in Int /\ 3 \in Int
      OBVIOUS
    <3> HIDE DEF x
    <3>5. m[x] = Mixed(s, x)
      BY <1>1, <3>1
    <3> QED BY <3>2, <3>3, <3>4, <3>5 DEF Mixed
  <2>3. /\ Below(m, p, 0) = MixByte(B(0), B(1), B(2), B(3))
        /\ Below(m, p, 1) = MixByte(B(1), B(2), B(3), B(4))
        /\ Below(m, p, 2) = MixByte(B(2), B(3), B(4), B(5))
        /\ Below(m, p, 3) = MixByte(B(3), B(4), B(5), B(6))
    <3>1. Below(m, p, 0) = MixByte(B(0 + 0), B(0 + 1), B(0 + 2), B(0 + 3))
      <4>1. 0 \in Int
        OBVIOUS
      <4> QED BY <2>2, <4>1
    <3>2. Below(m, p, 1) = MixByte(B(1 + 0), B(1 + 1), B(1 + 2), B(1 + 3))
      <4>1. 1 \in Int
        OBVIOUS
      <4> QED BY <2>2, <4>1
    <3>3. Below(m, p, 2) = MixByte(B(2 + 0), B(2 + 1), B(2 + 2), B(2 + 3))
      <4>1. 2 \in Int
        OBVIOUS
      <4> QED BY <2>2, <4>1
    <3>4. Below(m, p, 3) = MixByte(B(3 + 0), B(3 + 1), B(3 + 2), B(3 + 3))
      <4>1. 3 \in Int
        OBVIOUS
      <4> QED BY <2>2, <4>1
    <3> QED BY <3>1, <3>2, <3>3, <3>4
  <2> HIDE DEF B
  <2>4. InverseMixByte(MixByte(B(0), B(1), B(2), B(3)), MixByte(B(1), B(2), B(3), B(0)),
                       MixByte(B(2), B(3), B(0), B(1)), MixByte(B(3), B(0), B(1), B(2))) = B(0)
    BY <2>1, MixInverse
  <2> QED BY <2>1, <2>3, <2>4 DEF Unmixed
<1>3. /\ inverseMixColumns(m) \in CipherBlock
      /\ \A p \in 1 .. 16 : inverseMixColumns(m)[p] = Unmixed(m, p)
  BY <1>1, UnmixColumnsFacts
<1>4. \A p \in 1 .. 16 : inverseMixColumns(m)[p] = s[p]
  BY <1>2, <1>3
<1>5. inverseMixColumns(m) = s
  BY <1>3, <1>4, SameBlock
<1> QED BY <1>5 DEF m

------------------------------------------------------------------------------
(* AES-256: the tables, and the rows.                                       *)

(* The table holds bytes. *)
LEMMA SboxType == \A x \in Byte : sbox[x + 1] \in Byte
BY DEF sbox, Byte

(* So does the inverse. *)
LEMMA SboxInverseType == \A x \in Byte : sbox_inverse[x + 1] \in Byte
BY DEF sbox_inverse, Byte

(* The second table inverts the first. *)
LEMMA SboxInverts == \A x \in Byte : sbox_inverse[sbox[x + 1] + 1] = x
BY DEF sbox, sbox_inverse, Byte

(* The two steps that turn the rows and substitute, place by place. *)
LEMMA ShiftFacts ==
    ASSUME NEW s \in CipherBlock
    PROVE  /\ subBytesAndShiftRows(s) \in CipherBlock
           /\ \A p \in 1 .. 16 :
                 subBytesAndShiftRows(s)[p] = sbox[s[Place(Col(p) + Row(p), Row(p))] + 1]
<1> DEFINE g(p) == sbox[s[Place(Col(p) + Row(p), Row(p))] + 1]
           f == [p \in 1 .. 16 |-> g(p)]
<1>1. subBytesAndShiftRows(s) = Tabulated(f)
  BY DEF subBytesAndShiftRows
<1>2. \A p \in 1 .. 16 : g(p) \in Byte
  <2> SUFFICES ASSUME NEW p \in 1 .. 16 PROVE g(p) \in Byte
    OBVIOUS
  <2>1. Col(p) + Row(p) \in Int /\ Row(p) \in Int
    BY ColRowInt
  <2>2. Place(Col(p) + Row(p), Row(p)) \in 1 .. 16
    BY <2>1, PlaceFacts
  <2> QED BY <2>2, BlockBytes, SboxType
<1> HIDE DEF g
<1>3. f \in [1 .. 16 -> Byte] /\ \A p \in 1 .. 16 : f[p] = g(p)
  BY <1>2
<1>4. 16 \in Nat
  OBVIOUS
<1> HIDE DEF f
<1>5. Tabulated(f) = f
  BY <1>3, <1>4, TabulatedFunction
<1>6. Tabulated(f) \in CipherBlock /\ \A p \in 1 .. 16 : Tabulated(f)[p] = g(p)
  BY <1>3, <1>5 DEF CipherBlock
<1> QED BY <1>1, <1>6 DEF g

(* The other direction. *)
LEMMA UnshiftFacts ==
    ASSUME NEW s \in CipherBlock
    PROVE  /\ inverseShiftRowsAndSubBytes(s) \in CipherBlock
           /\ \A p \in 1 .. 16 :
                 inverseShiftRowsAndSubBytes(s)[p] = sbox_inverse[s[Place(Col(p) - Row(p), Row(p))] + 1]
<1> DEFINE g(p) == sbox_inverse[s[Place(Col(p) - Row(p), Row(p))] + 1]
           f == [p \in 1 .. 16 |-> g(p)]
<1>1. inverseShiftRowsAndSubBytes(s) = Tabulated(f)
  BY DEF inverseShiftRowsAndSubBytes
<1>2. \A p \in 1 .. 16 : g(p) \in Byte
  <2> SUFFICES ASSUME NEW p \in 1 .. 16 PROVE g(p) \in Byte
    OBVIOUS
  <2>1. Col(p) - Row(p) \in Int /\ Row(p) \in Int
    BY ColRowInt
  <2>2. Place(Col(p) - Row(p), Row(p)) \in 1 .. 16
    BY <2>1, PlaceFacts
  <2> QED BY <2>2, BlockBytes, SboxInverseType
<1> HIDE DEF g
<1>3. f \in [1 .. 16 -> Byte] /\ \A p \in 1 .. 16 : f[p] = g(p)
  BY <1>2
<1>4. 16 \in Nat
  OBVIOUS
<1> HIDE DEF f
<1>5. Tabulated(f) = f
  BY <1>3, <1>4, TabulatedFunction
<1>6. Tabulated(f) \in CipherBlock /\ \A p \in 1 .. 16 : Tabulated(f)[p] = g(p)
  BY <1>3, <1>5 DEF CipherBlock
<1> QED BY <1>1, <1>6 DEF g

(* The rows turned back and the tables undone. *)
LEMMA RowsInverse ==
    \A s \in CipherBlock : inverseShiftRowsAndSubBytes(subBytesAndShiftRows(s)) = s
<1> SUFFICES ASSUME NEW s \in CipherBlock
             PROVE  inverseShiftRowsAndSubBytes(subBytesAndShiftRows(s)) = s
  OBVIOUS
<1> DEFINE m == subBytesAndShiftRows(s)
<1>1. /\ m \in CipherBlock
      /\ \A p \in 1 .. 16 : m[p] = sbox[s[Place(Col(p) + Row(p), Row(p))] + 1]
  BY ShiftFacts
<1> HIDE DEF m
<1>2. ASSUME NEW p \in 1 .. 16
      PROVE  sbox_inverse[m[Place(Col(p) - Row(p), Row(p))] + 1] = s[p]
  <2> DEFINE c == Col(p)
             r == Row(p)
             y == c - r
  <2>1. c \in 0 .. 3 /\ r \in 0 .. 3 /\ Place(c, r) = p
    BY PlaceFacts
  <2> HIDE DEF c, r
  <2>2. c \in Int /\ r \in Int /\ r % 4 = r /\ y \in Int /\ y + r = c
    BY <2>1
  <2> HIDE DEF y
  <2> DEFINE x == Place(y, r)
  <2>3. x \in 1 .. 16 /\ Col(x) = y % 4 /\ Row(x) = r
    BY <2>2, PlaceFacts
  <2>4. Place((y % 4) + r, r) = Place(y + r, r)
    BY <2>2, PlaceRound
  <2> HIDE DEF x
  <2>5. m[x] = sbox[s[p] + 1]
    BY <1>1, <2>1, <2>2, <2>3, <2>4
  <2>6. s[p] \in Byte
    BY BlockBytes
  <2>7. sbox_inverse[m[x] + 1] = s[p]
    BY <2>5, <2>6, SboxInverts
  <2> QED BY <2>7 DEF x, y, c, r
<1>3. /\ inverseShiftRowsAndSubBytes(m) \in CipherBlock
      /\ \A p \in 1 .. 16 :
            inverseShiftRowsAndSubBytes(m)[p] = sbox_inverse[m[Place(Col(p) - Row(p), Row(p))] + 1]
  BY <1>1, UnshiftFacts
<1>4. inverseShiftRowsAndSubBytes(m) = s
  BY <1>2, <1>3, SameBlock
<1> QED BY <1>4 DEF m

------------------------------------------------------------------------------
(* AES-256: the key schedule.                                               *)

(* A word computed byte by byte. *)
LEMMA WordOf ==
    ASSUME NEW f \in [1 .. 4 -> Byte]
    PROVE  Tabulated(f) \in Word /\ \A k \in 1 .. 4 : Tabulated(f)[k] = f[k]
<1>1. 4 \in Nat
  OBVIOUS
<1>2. Tabulated(f) = f
  BY <1>1, TabulatedFunction
<1> QED BY <1>2 DEF Word

(* A word holds bytes. *)
LEMMA WordBytes == \A w \in Word : \A k \in 1 .. 4 : w[k] \in Byte
BY DEF Word

(* What the key schedule makes of words are words. *)
LEMMA XorWordsType == \A v, w \in Word : XorBytes(v, w) \in Word
<1> SUFFICES ASSUME NEW v \in Word, NEW w \in Word PROVE XorBytes(v, w) \in Word
  OBVIOUS
<1> DEFINE f == [k \in 1 .. 4 |-> xor(v[k], w[k])]
<1>1. XorBytes(v, w) = Tabulated(f)
  BY DEF XorBytes, Word
<1>2. f \in [1 .. 4 -> Byte]
  BY XorType, WordBytes
<1> HIDE DEF f
<1> QED BY <1>1, <1>2, WordOf

(* The substitution, *)
LEMMA SubstituteType == \A w \in Word : applySbox(w) \in Word
<1> SUFFICES ASSUME NEW w \in Word PROVE applySbox(w) \in Word
  OBVIOUS
<1> DEFINE f == [k \in 1 .. 4 |-> sbox[w[k] + 1]]
<1>1. applySbox(w) = Tabulated(f)
  BY DEF applySbox
<1>2. f \in [1 .. 4 -> Byte]
  BY SboxType, WordBytes
<1> HIDE DEF f
<1> QED BY <1>1, <1>2, WordOf

(* the core of the schedule, of which there are ten uses, *)
LEMMA CoreType ==
    ASSUME NEW w \in Word, NEW j \in 0 .. 10
    PROVE  keyScheduleCore(w, j) \in Word
<1> DEFINE v == <<w[2], w[3], w[4], w[1]>>
           u == <<rcon[j + 1], 0, 0, 0>>
<1>1. w[1] \in Byte /\ w[2] \in Byte /\ w[3] \in Byte /\ w[4] \in Byte
  BY WordBytes
<1>2. v \in Word
  BY <1>1 DEF Word
<1>3. rcon[j + 1] \in Byte /\ 0 \in Byte
  BY DEF rcon, Byte
<1>4. u \in Word
  BY <1>3 DEF Word
<1>5. keyScheduleCore(w, j) = XorBytes(applySbox(v), u)
  BY DEF keyScheduleCore
<1> HIDE DEF u, v
<1> QED BY <1>2, <1>4, <1>5, SubstituteType, XorWordsType

(* and the next word. *)
LEMMA NextWordType ==
    ASSUME NEW m \in 1 .. 52, NEW words \in Seq(Word), Len(words) = m + 7
    PROVE  NextWord(words, m + 7) \in Word
<1> DEFINE n == m + 7
           v == words[m]
           w == words[n]
<1>1. v \in Word /\ w \in Word
  OBVIOUS
<1>2. n - 7 = m /\ n \div 8 \in 0 .. 10
  OBVIOUS
<1>3. NextWord(words, n) =
          XorBytes(v, IF n % 8 = 0 THEN keyScheduleCore(w, n \div 8)
                      ELSE IF n % 8 = 4 THEN applySbox(w) ELSE w)
  BY <1>2 DEF NextWord
<1> HIDE DEF n, v, w
<1>4. keyScheduleCore(w, n \div 8) \in Word /\ applySbox(w) \in Word
  BY <1>1, <1>2, CoreType, SubstituteType
<1>5. NextWord(words, n) \in Word
  BY <1>1, <1>3, <1>4, XorWordsType
<1> QED BY <1>5 DEF n

(* Words cut out of a sequence of bytes, and put at the end of a schedule. *)
LEMMA SeqIsFunction ==
    ASSUME NEW S, NEW s \in Seq(S)
    PROVE  s \in [1 .. Len(s) -> S]
BY LenProperties

(* Four bytes are a word. *)
LEMMA WordOfSeq == \A w \in Seq(Byte) : Len(w) = 4 => w \in Word
<1> SUFFICES ASSUME NEW w \in Seq(Byte), Len(w) = 4 PROVE w \in Word
  OBVIOUS
<1>1. w \in [1 .. Len(w) -> Byte]
  BY SeqIsFunction
<1> QED BY <1>1 DEF Word

(* A key as a sequence. *)
LEMMA KeyIsSeq == \A key \in Key : key \in Seq(Byte) /\ Len(key) = 32
<1> SUFFICES ASSUME NEW key \in Key PROVE key \in Seq(Byte) /\ Len(key) = 32
  OBVIOUS
<1>1. key \in [1 .. 32 -> Byte] /\ 32 \in Nat
  BY DEF Key
<1>2. \A n \in Nat : key \in [1 .. n -> Byte] => key \in Seq(Byte) /\ Len(key) = n
  BY SeqOfFunction, Zenon
<1> QED BY <1>1, <1>2

(* What is cut out of a sequence and put at the end of one. *)
LEMMA CutType ==
    ASSUME NEW S, NEW s \in Seq(S), NEW a \in Int, NEW b \in Int,
           1 <= a, a <= b, b <= Len(s)
    PROVE  SubSeq(s, a, b) \in Seq(S) /\ Len(SubSeq(s, a, b)) = b - a + 1
OBVIOUS

(* At the end of a sequence. *)
LEMMA AppendType ==
    ASSUME NEW S, NEW s \in Seq(S), NEW x \in S
    PROVE  Append(s, x) \in Seq(S) /\ Len(Append(s, x)) = Len(s) + 1
OBVIOUS

(* Four bytes of the key are a word. *)
LEMMA CutWord ==
    ASSUME NEW key \in Key, NEW k \in 1 .. 8
    PROVE  SubSeq(key, 4 * k - 3, 4 * k) \in Word
<1> DEFINE a == 4 * k - 3
           b == 4 * k
<1>1. a \in Int /\ b \in Int /\ 1 <= a /\ a <= b /\ b <= 32 /\ b - a + 1 = 4
  OBVIOUS
<1> HIDE DEF a, b
<1>2. key \in Seq(Byte) /\ Len(key) = 32
  BY KeyIsSeq
<1> DEFINE w == SubSeq(key, a, b)
<1>3. w \in Seq(Byte) /\ Len(w) = b - a + 1
  BY <1>1, <1>2, CutType
<1> HIDE DEF w
<1>4. w \in Word
  BY <1>1, <1>3, WordOfSeq
<1> QED BY <1>4 DEF w, a, b

(* What setKey() makes: sixty words. *)
Schedules == {w \in Seq(Word) : Len(w) = 60}

(* A schedule holds words. *)
LEMMA ScheduleWord == \A w \in Schedules : \A k \in 1 .. 60 : w[k] \in Word
<1> SUFFICES ASSUME NEW w \in Schedules, NEW k \in 1 .. 60 PROVE w[k] \in Word
  OBVIOUS
<1>1. w \in Seq(Word) /\ Len(w) = 60
  BY DEF Schedules
<1>2. w \in [1 .. 60 -> Word]
  BY <1>1, SeqIsFunction
<1> QED BY <1>2

(* A round of setKey() appends a word. *)
LEMMA OneWordMore ==
    ASSUME NEW a \in Seq(Word), NEW k \in 0 .. 51, Len(a) = k + 8
    PROVE  /\ Append(a, NextWord(a, (k + 1) + 7)) \in Seq(Word)
           /\ Len(Append(a, NextWord(a, (k + 1) + 7))) = (k + 1) + 8
<1> DEFINE m == k + 1
<1>1. m \in 1 .. 52 /\ Len(a) = m + 7
  OBVIOUS
<1> HIDE DEF m
<1> DEFINE x == NextWord(a, m + 7)
<1>2. x \in Word
  BY <1>1, NextWordType
<1> HIDE DEF x
<1>3. Append(a, x) \in Seq(Word) /\ Len(Append(a, x)) = Len(a) + 1
  BY <1>2, AppendType
<1>4. Append(a, x) \in Seq(Word) /\ Len(Append(a, x)) = m + 8
  BY <1>1, <1>3
<1> QED BY <1>4 DEF x, m

(* setKey() fills the sixty words of the schedule with bytes. *)
LEMMA ScheduleType == \A key \in Key : setKey(key) \in Schedules
<1> SUFFICES ASSUME NEW key \in Key PROVE setKey(key) \in Schedules
  OBVIOUS
<1> DEFINE first == [k \in 1 .. 8 |-> SubSeq(key, 4 * k - 3, 4 * k)]
           e == Tabulated(first)
           f == [n \in 1 .. 52 |-> [words \in Seq(Word) |-> Append(words, NextWord(words, n + 7))]]
           T == [k \in 0 .. 52 |-> {w \in Seq(Word) : Len(w) = k + 8}]
<1>1. setKey(key) = Loop(f, e, 52)
  BY Zenon DEF setKey
<1>2. e \in Seq(Word) /\ Len(e) = 8
  <2>1. first \in [1 .. 8 -> Word]
    BY CutWord
  <2>2. 8 \in Nat
    OBVIOUS
  <2> HIDE DEF first
  <2> QED BY <2>1, <2>2, TabulatedIs
<1> HIDE DEF e
<1>3. e \in T[0]
  BY <1>2
<1>4. ASSUME NEW k \in 0 .. 51, NEW a \in T[k] PROVE f[k + 1][a] \in T[k + 1]
  <2>1. k + 1 \in 1 .. 52 /\ k + 1 \in 0 .. 52 /\ k \in 0 .. 52
    <3> HIDE DEF e, f, T
    <3> QED OBVIOUS
  <2>2. a \in Seq(Word) /\ Len(a) = k + 8
    BY <2>1, <1>4
  <2>3. f[k + 1][a] = Append(a, NextWord(a, (k + 1) + 7))
    BY <2>1, <2>2
  <2> DEFINE y == Append(a, NextWord(a, (k + 1) + 7))
  <2>4. y \in Seq(Word) /\ Len(y) = (k + 1) + 8
    BY <2>2, OneWordMore
  <2> HIDE DEF y
  <2>5. y \in T[k + 1]
    BY <2>1, <2>4
  <2> QED BY <2>3, <2>5 DEF y
<1>5. 52 \in Nat /\ 52 - 1 = 51 /\ 52 \in 0 .. 52
  OBVIOUS
<1> HIDE DEF f, T
<1>6. \A k \in 0 .. 52 : Loop(f, e, k) \in T[k]
  <2> DEFINE N == 52
  <2>1. N \in Nat
    OBVIOUS
  <2>2. \A k \in 0 .. N - 1 : \A a \in T[k] : f[k + 1][a] \in T[k + 1]
    BY <1>4
  <2>3. \A k \in 0 .. N : Loop(f, e, k) \in T[k]
    <3> HIDE DEF N
    <3> QED BY <1>3, <2>1, <2>2, LoopInvariant
  <2> QED BY <2>3
<1>7. Loop(f, e, 52) \in T[52]
  BY <1>5, <1>6
<1>8. T[52] = Schedules
  BY <1>5 DEF T, Schedules
<1> QED BY <1>1, <1>7, <1>8

(* The key of a round is a block. *)
LEMMA RoundKeyType ==
    ASSUME NEW schedule \in Schedules, NEW r \in 0 .. 14
    PROVE  RoundKey(schedule, r) \in CipherBlock
<1> DEFINE f == [p \in 1 .. 16 |-> schedule[4 * r + Col(p) + 1][Row(p) + 1]]
<1>1. RoundKey(schedule, r) = Tabulated(f)
  BY DEF RoundKey
<1>2. ASSUME NEW p \in 1 .. 16 PROVE schedule[4 * r + Col(p) + 1][Row(p) + 1] \in Byte
  <2>1. Col(p) \in 0 .. 3 /\ Row(p) \in 0 .. 3
    BY PlaceFacts
  <2>2. 4 * r + Col(p) + 1 \in 1 .. 60 /\ Row(p) + 1 \in 1 .. 4
    BY <2>1
  <2> DEFINE m == 4 * r + Col(p) + 1
             q == Row(p) + 1
  <2> HIDE DEF m, q
  <2>3. m \in 1 .. 60 /\ q \in 1 .. 4
    BY <2>2 DEF m, q
  <2>4. schedule[m] \in Word
    BY <2>3, ScheduleWord
  <2>5. schedule[m][q] \in Byte
    BY <2>3, <2>4, WordBytes
  <2> QED BY <2>5 DEF m, q
<1>3. f \in [1 .. 16 -> Byte] /\ 16 \in Nat
  BY <1>2
<1> HIDE DEF f
<1>4. Tabulated(f) = f
  BY <1>3, TabulatedFunction
<1> QED BY <1>1, <1>3, <1>4 DEF CipherBlock

------------------------------------------------------------------------------
(* AES-256: the two directions.                                             *)

(* The rounds of encryptBlock() and of decryptBlock(). *)
EncryptRound(schedule) ==
    [r \in 1 .. rounds - 1 |-> [s \in CipherBlock |->
        XorBytes(mixColumns(subBytesAndShiftRows(s)), RoundKey(schedule, r))]]
DecryptRound(schedule) ==
    [r \in 1 .. rounds - 1 |-> [s \in CipherBlock |->
        inverseShiftRowsAndSubBytes(
            inverseMixColumns(XorBytes(s, RoundKey(schedule, rounds - r))))]]

(* What encryptBlock() has after r rounds. *)
Encrypted(schedule, input, r) ==
    Loop(EncryptRound(schedule), XorBytes(input, RoundKey(schedule, 0)), r)

(* The rounds of encryptBlock(), one after the other. *)
LEMMA RoundsOfEncryption ==
    ASSUME NEW schedule \in Schedules, NEW input \in CipherBlock
    PROVE  /\ Encrypted(schedule, input, 0) = XorBytes(input, RoundKey(schedule, 0))
           /\ \A r \in 0 .. 13 : Encrypted(schedule, input, r) \in CipherBlock
           /\ \A r \in 1 .. 13 :
                 Encrypted(schedule, input, r) =
                     XorBytes(mixColumns(subBytesAndShiftRows(Encrypted(schedule, input, r - 1))),
                              RoundKey(schedule, r))
<1> DEFINE f == EncryptRound(schedule)
           e == XorBytes(input, RoundKey(schedule, 0))
           B == CipherBlock
           T == [k \in 0 .. 13 |-> B]
<1>1. e \in B
  <2>1. 0 \in 0 .. 14
    OBVIOUS
  <2> QED BY <2>1, RoundKeyType, XorBlockFacts
<1>2. \A r \in 1 .. 13 : \A s \in B :
          f[r][s] = XorBytes(mixColumns(subBytesAndShiftRows(s)), RoundKey(schedule, r))
  BY DEF EncryptRound, rounds
<1>3. ASSUME NEW r \in 1 .. 13, NEW s \in B PROVE f[r][s] \in B
  <2>1. r \in 0 .. 14
    OBVIOUS
  <2> QED BY <1>2, <2>1, ShiftFacts, MixColumnsFacts, RoundKeyType, XorBlockFacts
<1> HIDE DEF f, e, B
<1>4. /\ Loop(f, e, 0) = e
      /\ \A n \in Nat : Loop(f, e, n + 1) = f[n + 1][Loop(f, e, n)]
  BY LoopDef
<1>5. \A r \in 0 .. 13 : Loop(f, e, r) \in B
  <2>1. e \in T[0]
    BY <1>1
  <2>2. 13 \in Nat /\ 13 - 1 = 12
    OBVIOUS
  <2>3. ASSUME NEW k \in 0 .. 12, NEW a \in T[k] PROVE f[k + 1][a] \in T[k + 1]
    <3>1. k \in 0 .. 13 /\ k + 1 \in 1 .. 13 /\ k + 1 \in 0 .. 13
      OBVIOUS
    <3> QED BY <1>3, <3>1
  <2>4. \A k \in 0 .. 13 : T[k] = B
    OBVIOUS
  <2> HIDE DEF T
  <2>5. \A k \in 0 .. 13 : Loop(f, e, k) \in T[k]
    BY <2>1, <2>2, <2>3, LoopInvariant
  <2> QED BY <2>4, <2>5
<1>6. ASSUME NEW r \in 1 .. 13 PROVE Loop(f, e, r) = f[r][Loop(f, e, r - 1)] /\ r - 1 \in 0 .. 13
  <2>1. r - 1 \in Nat /\ (r - 1) + 1 = r /\ r - 1 \in 0 .. 13
    OBVIOUS
  <2>2. Loop(f, e, (r - 1) + 1) = f[(r - 1) + 1][Loop(f, e, r - 1)]
    BY <1>4, <2>1, Zenon
  <2> QED BY <2>1, <2>2
<1>7. \A r : Encrypted(schedule, input, r) = Loop(f, e, r)
  BY DEF Encrypted, f, e
<1>8. ASSUME NEW r \in 1 .. 13
      PROVE  Loop(f, e, r) = XorBytes(mixColumns(subBytesAndShiftRows(Loop(f, e, r - 1))), RoundKey(schedule, r))
  BY <1>2, <1>5, <1>6
<1> QED BY <1>4, <1>5, <1>7, <1>8 DEF e, B

(* decryptBlock() undoes encryptBlock(): after r rounds it has what
   encryptBlock() had r rounds before the last. *)
LEMMA RoundsUndone ==
    ASSUME NEW schedule \in Schedules, NEW input \in CipherBlock
    PROVE  /\ encryptBlock(schedule, input) \in CipherBlock
           /\ decryptBlock(schedule, encryptBlock(schedule, input)) = input
<1> DEFINE E(r) == Encrypted(schedule, input, r)
           N(r) == RoundKey(schedule, r)
           out == encryptBlock(schedule, input)
           g == DecryptRound(schedule)
           d == inverseShiftRowsAndSubBytes(XorBytes(out, N(14)))
           T == [k \in 0 .. 13 |-> {E(13 - k)}]
<1>1. \A r \in 0 .. 14 : N(r) \in CipherBlock
  BY RoundKeyType
<1>2. /\ E(0) = XorBytes(input, N(0))
      /\ \A r \in 0 .. 13 : E(r) \in CipherBlock
      /\ \A r \in 1 .. 13 : E(r) = XorBytes(mixColumns(subBytesAndShiftRows(E(r - 1))), N(r))
  BY RoundsOfEncryption
<1>3. out = XorBytes(subBytesAndShiftRows(E(13)), N(14))
  BY DEF encryptBlock, Encrypted, EncryptRound, rounds
<1>4. decryptBlock(schedule, out) = XorBytes(Loop(g, d, 13), N(0))
  BY DEF decryptBlock, DecryptRound, rounds
<1>5. \A r \in 1 .. 13 : \A s \in CipherBlock :
          g[r][s] = inverseShiftRowsAndSubBytes(inverseMixColumns(XorBytes(s, N(14 - r))))
  BY DEF DecryptRound, rounds
<1> HIDE DEF E, N, g, out
<1>6. /\ 0 \in 0 .. 14 /\ 14 \in 0 .. 14 /\ 0 \in 0 .. 13 /\ 13 \in 0 .. 13
      /\ 13 - 0 = 13 /\ 13 - 13 = 0 /\ 13 \in Nat /\ 13 - 1 = 12
  OBVIOUS
<1>7. out \in CipherBlock /\ d = E(13)
  <2>1. E(13) \in CipherBlock /\ N(14) \in CipherBlock
    BY <1>1, <1>2, <1>6
  <2>2. subBytesAndShiftRows(E(13)) \in CipherBlock
    BY <2>1, ShiftFacts
  <2>3. XorBytes(out, N(14)) = subBytesAndShiftRows(E(13))
    BY <1>3, <2>1, <2>2, XorBlockInverts
  <2> QED BY <1>3, <2>1, <2>2, <2>3, XorBlockFacts, RowsInverse
<1> HIDE DEF d
<1>8. ASSUME NEW k \in 0 .. 12 PROVE g[k + 1][E(13 - k)] = E(12 - k)
  <2> DEFINE r == 13 - k
  <2>1. /\ r \in 1 .. 13 /\ r \in 0 .. 13 /\ r \in 0 .. 14 /\ r - 1 \in 0 .. 13
        /\ k + 1 \in 1 .. 13 /\ 14 - (k + 1) = r /\ r - 1 = 12 - k
    OBVIOUS
  <2> HIDE DEF r
  <2> DEFINE before == E(r - 1)
             shifted == subBytesAndShiftRows(before)
             mixed == mixColumns(shifted)
  <2>2. before \in CipherBlock /\ N(r) \in CipherBlock /\ E(r) \in CipherBlock
    BY <1>1, <1>2, <2>1
  <2>3. E(r) = XorBytes(mixed, N(r))
    BY <1>2, <2>1
  <2> HIDE DEF before
  <2>4. shifted \in CipherBlock
    BY <2>2, ShiftFacts
  <2> HIDE DEF shifted
  <2>5. mixed \in CipherBlock
    BY <2>4, MixColumnsFacts
  <2> HIDE DEF mixed
  <2>6. g[k + 1][E(r)] = inverseShiftRowsAndSubBytes(inverseMixColumns(XorBytes(E(r), N(r))))
    BY <1>5, <2>1, <2>2
  <2>7. XorBytes(E(r), N(r)) = mixed
    BY <2>2, <2>3, <2>5, XorBlockInverts
  <2>8. inverseMixColumns(mixed) = shifted
    BY <2>4, ColumnsInverse DEF mixed
  <2>9. inverseShiftRowsAndSubBytes(shifted) = before
    BY <2>2, RowsInverse DEF shifted
  <2> QED BY <2>1, <2>6, <2>7, <2>8, <2>9 DEF before, r
<1>9. ASSUME NEW k \in 0 .. 12, NEW a \in T[k] PROVE g[k + 1][a] \in T[k + 1]
  <2>1. k \in 0 .. 13 /\ k + 1 \in 0 .. 13 /\ 13 - (k + 1) = 12 - k
    OBVIOUS
  <2>2. T[k] = {E(13 - k)} /\ T[k + 1] = {E(12 - k)}
    BY <2>1
  <2> QED BY <1>8, <1>9, <2>2
<1>10. d \in T[0] /\ T[13] = {E(0)}
  BY <1>6, <1>7
<1> HIDE DEF T
<1>11. \A k \in 0 .. 13 : Loop(g, d, k) \in T[k]
  BY <1>6, <1>9, <1>10, LoopInvariant
<1>12. Loop(g, d, 13) = E(0)
  BY <1>6, <1>10, <1>11
<1>13. N(0) \in CipherBlock
  BY <1>1, <1>6
<1>14. decryptBlock(schedule, out) = input
  BY <1>2, <1>4, <1>12, <1>13, XorBlockInverts
<1> QED BY <1>7, <1>14 DEF out

(* decryptBlock() leaves a block whatever it is given. *)
LEMMA DecryptType ==
    ASSUME NEW schedule \in Schedules, NEW input \in CipherBlock
    PROVE  decryptBlock(schedule, input) \in CipherBlock
<1> DEFINE N(r) == RoundKey(schedule, r)
           g == DecryptRound(schedule)
           d == inverseShiftRowsAndSubBytes(XorBytes(input, N(14)))
           B == CipherBlock
           T == [k \in 0 .. 13 |-> B]
<1>1. \A r \in 0 .. 14 : N(r) \in B
  BY RoundKeyType
<1>2. decryptBlock(schedule, input) = XorBytes(Loop(g, d, 13), N(0))
  BY DEF decryptBlock, DecryptRound, rounds
<1>3. \A r \in 1 .. 13 : \A s \in B :
          g[r][s] = inverseShiftRowsAndSubBytes(inverseMixColumns(XorBytes(s, N(14 - r))))
  BY DEF DecryptRound, rounds
<1>4. \A s, t \in B : XorBytes(s, t) \in B
  BY XorBlockFacts
<1>5. \A s \in B : inverseShiftRowsAndSubBytes(s) \in B /\ inverseMixColumns(s) \in B
  BY UnshiftFacts, UnmixColumnsFacts
<1>6. 0 \in 0 .. 14 /\ 14 \in 0 .. 14 /\ 13 \in Nat /\ 13 - 1 = 12 /\ 13 \in 0 .. 13
  OBVIOUS
<1>7. input \in B
  OBVIOUS
<1> HIDE DEF N, g, B
<1>8. d \in T[0]
  BY <1>1, <1>4, <1>5, <1>6, <1>7
<1>9. ASSUME NEW k \in 0 .. 12, NEW a \in T[k] PROVE g[k + 1][a] \in T[k + 1]
  <2>1. k \in 0 .. 13 /\ k + 1 \in 1 .. 13 /\ k + 1 \in 0 .. 13 /\ 14 - (k + 1) \in 0 .. 14
    OBVIOUS
  <2>2. a \in B /\ T[k + 1] = B
    BY <2>1
  <2>3. g[k + 1][a] \in B
    BY <1>1, <1>3, <1>4, <1>5, <2>1, <2>2
  <2> QED BY <2>2, <2>3
<1>10. T[13] = B
  BY <1>6
<1> HIDE DEF T, d
<1>11. \A k \in 0 .. 13 : Loop(g, d, k) \in T[k]
  BY <1>6, <1>8, <1>9, LoopInvariant
<1>12. Loop(g, d, 13) \in B /\ N(0) \in B
  BY <1>1, <1>6, <1>10, <1>11
<1> QED BY <1>2, <1>4, <1>12 DEF B

(* AES-256 as the code computes it: whatever the key and the block, encryptBlock()
   and decryptBlock() leave a block, and decryptBlock() undoes encryptBlock(). *)
THEOREM AesInverts ==
    \A key \in Key, block \in CipherBlock :
        /\ encryptBlock(setKey(key), block) \in CipherBlock
        /\ decryptBlock(setKey(key), block) \in CipherBlock
        /\ decryptBlock(setKey(key), encryptBlock(setKey(key), block)) = block
BY ScheduleType, RoundsUndone, DecryptType

------------------------------------------------------------------------------
(* SHA-256.                                                                 *)

(* The numbers that halves are. *)
LEMMA HalfBound == \A a \in Half : a \in Nat /\ a < 65536
BY SMT DEF Half

(* The numbers below 2^16 are halves. *)
LEMMA HalfMember == \A a \in Nat : a < 65536 => a \in Half
BY SMT DEF Half

(* The two bytes of a half, and the half of two bytes. *)
LEMMA HalfBytes == \A a \in Half : (a \div 256) \in Byte /\ (a % 256) \in Byte
<1>1. \A a \in Nat : a < 65536 => (a \div 256) \in Byte /\ (a % 256) \in Byte
  BY SMT DEF Byte
<1> QED BY <1>1, HalfBound, SMT

(* Two bytes make a half. *)
LEMMA HalfOfBytes == \A a, b \in Byte : 256 * a + b \in Half
BY SMT DEF Half, Byte

(* Bitwise operations on halves and words. *)
LEMMA HalfBitwise == \A a, b \in Half : xor16(a, b) \in Half /\ and16(a, b) \in Half
<1> SUFFICES ASSUME NEW a \in Half, NEW b \in Half
             PROVE  xor16(a, b) \in Half /\ and16(a, b) \in Half
  OBVIOUS
<1>1. a \div 256 \in Byte /\ a % 256 \in Byte /\ b \div 256 \in Byte /\ b % 256 \in Byte
  BY HalfBytes
<1>2. xor16(a, b) \in Half
  BY <1>1, XorType, HalfOfBytes DEF xor16
<1>3. and16(a, b) \in Half
  BY <1>1, AndType, HalfOfBytes DEF and16
<1> QED BY <1>2, <1>3

(* A word is a pair of halves. *)
LEMMA WordHalves == \A w \in ShaWord : w[1] \in Half /\ w[2] \in Half
BY DEF ShaWord

(* Two halves make a word. *)
LEMMA PairIsWord == \A a, b \in Half : <<a, b>> \in ShaWord
BY DEF ShaWord

(* Bitwise operations on words. *)
LEMMA WordBitwise == \A v, w \in ShaWord : XorWord(v, w) \in ShaWord /\ AndWord(v, w) \in ShaWord
BY WordHalves, PairIsWord, HalfBitwise DEF XorWord, AndWord

(* A sum of words is a word: what is carried out of it is lost. *)
LEMMA SumType == \A v, w \in ShaWord : AddWord(v, w) \in ShaWord
<1> SUFFICES ASSUME NEW v \in ShaWord, NEW w \in ShaWord PROVE AddWord(v, w) \in ShaWord
  OBVIOUS
<1>0. \A a \in Half : a \in Int
  BY HalfBound
<1>1. v[1] \in Int /\ v[2] \in Int /\ w[1] \in Int /\ w[2] \in Int
  BY <1>0, WordHalves
<1>2. \A a \in Int : (a % 65536) \in Half /\ (a \div 65536) \in Int
  BY SMT DEF Half
<1>3. ((v[2] + w[2]) % 65536) \in Half /\ v[1] + w[1] + ((v[2] + w[2]) \div 65536) \in Int
  BY <1>1, <1>2, SMT
<1> QED BY <1>2, <1>3, PairIsWord, SMT DEF AddWord

(* Three words combined are one. *)
LEMMA XorOf3Type == \A u, v, w \in ShaWord : XorOf3(u, v, w) \in ShaWord
BY WordBitwise DEF XorOf3

(* The upper bits of one half next to the lower bits of another: a rotation
   or a shift by m bits, for the numbers of bits the code has. *)
Turns == {1, 2, 3, 6, 7, 9, 10, 11, 13}

(* Multiplying keeps the order. *)
LEMMA Monotone ==
    ASSUME NEW a \in Int, NEW b \in Int, NEW c \in Nat, a <= b
    PROVE  a * c <= b * c /\ a * c \in Int /\ b * c \in Int
OBVIOUS

(* A quotient is below q when the dividend is below q divisors. *)
LEMMA QuotientBelow ==
    ASSUME NEW v \in Nat, NEW p \in Nat, NEW q \in Nat, p > 0, v < p * q
    PROVE  (v \div p) \in 0 .. q - 1
<1> DEFINE y == v \div p
<1>1. y \in Nat /\ y * p <= v
  OBVIOUS
<1>2. y * p \in Int /\ p * q \in Int /\ q * p = p * q
  BY <1>1
<1> HIDE DEF y
<1>3. ~(q <= y)
  <2> SUFFICES ASSUME q <= y PROVE FALSE
    OBVIOUS
  <2>1. q * p <= y * p
    BY <1>1, Monotone
  <2> QED BY <1>1, <1>2, <2>1
<1>4. y \in 0 .. q - 1
  BY <1>1, <1>3
<1> QED BY <1>4 DEF y

(* The remainder of one number next to the quotient of another. *)
LEMMA SpliceOf ==
    ASSUME NEW u \in Nat, NEW v \in Nat, NEW p \in Nat, NEW q \in Nat, p > 0, v < p * q
    PROVE  (u % p) * q + (v \div p) \in 0 .. (p * q) - 1
<1> DEFINE x == u % p
           y == v \div p
<1>1. x \in 0 .. p - 1
  OBVIOUS
<1>2. y \in 0 .. q - 1
  BY QuotientBelow
<1> HIDE DEF x, y
<1>3. x * q <= (p - 1) * q /\ x * q \in Int
  BY <1>1, Monotone
<1>4. x * q >= 0
  BY <1>1
<1>5. (p - 1) * q = p * q - q /\ p * q \in Int
  OBVIOUS
<1>6. x * q + y \in 0 .. (p * q) - 1
  <2> DEFINE z == x * q
             t == p * q
  <2>1. z \in Int /\ t \in Int /\ z >= 0 /\ z <= t - q
    BY <1>3, <1>4, <1>5
  <2> HIDE DEF z, t
  <2>2. z + y \in 0 .. t - 1
    BY <1>2, <2>1
  <2> QED BY <2>2 DEF z, t
<1> QED BY <1>6 DEF x, y

(* The powers of two that turning by m bits is about. *)
LEMMA PowersOfTurns ==
    ASSUME NEW m \in Turns
    PROVE  2^m \in Nat /\ 2^(16 - m) \in Nat /\ 2^m > 0 /\ 2^m * 2^(16 - m) = 65536
<1>1. CASE m = 1
  BY <1>1, SMT
<1>2. CASE m = 2
  BY <1>2, SMT
<1>3. CASE m = 3
  BY <1>3, SMT
<1>4. CASE m = 6
  BY <1>4, SMT
<1>5. CASE m = 7
  BY <1>5, SMT
<1>6. CASE m = 9
  BY <1>6, SMT
<1>7. CASE m = 10
  BY <1>7, SMT
<1>8. CASE m = 11
  BY <1>8, SMT
<1>9. CASE m = 13
  BY <1>9, SMT
<1> QED BY <1>1, <1>2, <1>3, <1>4, <1>5, <1>6, <1>7, <1>8, <1>9 DEF Turns

(* The lower bits of one half above the upper bits of another are a half. *)
LEMMA Splice ==
    ASSUME NEW u \in Half, NEW v \in Half, NEW m \in Turns
    PROVE  (u % 2^m) * 2^(16 - m) + (v \div 2^m) \in Half
<1> DEFINE p == 2^m
           q == 2^(16 - m)
<1>1. p \in Nat /\ q \in Nat /\ p > 0 /\ p * q = 65536
  BY PowersOfTurns
<1> HIDE DEF p, q
<1>2. u \in Nat /\ v \in Nat /\ v < 65536
  BY HalfBound
<1> DEFINE z == (u % p) * q + (v \div p)
           t == p * q
<1>3. z \in 0 .. t - 1
  BY <1>1, <1>2, SpliceOf
<1>4. t = 65536 /\ t \in Nat
  BY <1>1
<1> HIDE DEF z, t
<1>5. z \in Nat /\ z < 65536
  <2>1. z \in Nat /\ z < t
    <3>1. t \in Nat
      BY <1>4
    <3> QED BY <1>3, <3>1
  <2> QED BY <1>4, <2>1
<1>6. z \in Half
  BY <1>5, HalfMember
<1> QED BY <1>6 DEF p, q, z

(* What a shift leaves of a half is one. *)
LEMMA Cut == \A v \in Half : (v \div 2^3) \in Half /\ (v \div 2^10) \in Half
<1>1. 2^3 = 8 /\ 2^10 = 1024
  BY SMT
<1> SUFFICES ASSUME NEW v \in Half PROVE (v \div 8) \in Half /\ (v \div 1024) \in Half
  BY <1>1
<1>2. v \in Nat /\ v < 65536
  BY HalfBound
<1>3. (v \div 8) \in Nat /\ (v \div 8) <= v
  BY <1>2, SMT
<1>4. (v \div 1024) \in Nat /\ (v \div 1024) <= v
  BY <1>2, SMT
<1> QED BY <1>2, <1>3, <1>4, HalfMember, SMT

(* The shifts and rotations of the code make words. *)
LEMMA ShiftType == \A w \in ShaWord : Shr(w, 3) \in ShaWord /\ Shr(w, 10) \in ShaWord
<1> SUFFICES ASSUME NEW w \in ShaWord PROVE Shr(w, 3) \in ShaWord /\ Shr(w, 10) \in ShaWord
  OBVIOUS
<1>1. 3 \in Turns /\ 10 \in Turns
  BY DEF Turns
<1>2. w[1] \in Half /\ w[2] \in Half
  BY WordHalves
<1>3. /\ (w[1] % 2^3) * 2^(16 - 3) + (w[2] \div 2^3) \in Half
      /\ (w[1] % 2^10) * 2^(16 - 10) + (w[2] \div 2^10) \in Half
  BY <1>1, <1>2, Splice
<1> QED BY <1>2, <1>3, Cut, PairIsWord DEF Shr

(* The rotations of hashBlock(). *)
Rotations == {2, 6, 7, 11, 13, 17, 18, 19, 22, 25}

(* The rotations. *)
LEMMA RotateType == \A w \in ShaWord : \A n \in Rotations : ror32(w, n) \in ShaWord
<1> SUFFICES ASSUME NEW w \in ShaWord, NEW n \in Rotations PROVE ror32(w, n) \in ShaWord
  OBVIOUS
<1> DEFINE v == IF n < 16 THEN w ELSE <<w[2], w[1]>>
           m == n % 16
<1>1. v \in ShaWord
  BY WordHalves, PairIsWord
<1>2. m \in Turns
  BY DEF Rotations, Turns
<1>3. ror32(w, n) = <<(v[2] % 2^m) * 2^(16 - m) + (v[1] \div 2^m),
                      (v[1] % 2^m) * 2^(16 - m) + (v[2] \div 2^m)>>
  BY DEF ror32
<1> HIDE DEF v, m
<1> QED BY <1>1, <1>2, <1>3, Splice, WordHalves, PairIsWord

(* The schedule. *)
LEMMA NextOfScheduleType ==
    ASSUME NEW w \in Schedule, NEW r \in 0 .. 63
    PROVE  NextOfSchedule(w, r) \in ShaWord
<1> DEFINE at(k) == w[((r - k) % 16) + 1]
<1>1. \A k \in Int : at(k) \in ShaWord
  <2>1. \A k \in Int : ((r - k) % 16) + 1 \in 1 .. 16
    OBVIOUS
  <2> QED BY <2>1 DEF Schedule
<1> DEFINE a == at(16)
           b == at(7)
           c == at(2)
           d == at(15)
<1>2. a \in ShaWord /\ b \in ShaWord /\ c \in ShaWord /\ d \in ShaWord
  <2>1. 16 \in Int /\ 7 \in Int /\ 2 \in Int /\ 15 \in Int
    OBVIOUS
  <2> HIDE DEF at
  <2> QED BY <1>1, <2>1
<1>3. NextOfSchedule(w, r) =
          AddWord(AddWord(a, b), AddWord(XorOf3(ror32(c, 17), ror32(c, 19), Shr(c, 10)),
                                         XorOf3(ror32(d, 7), ror32(d, 18), Shr(d, 3))))
  BY DEF NextOfSchedule
<1> HIDE DEF a, b, c, d
<1>4. /\ ror32(c, 17) \in ShaWord /\ ror32(c, 19) \in ShaWord
      /\ ror32(d, 7) \in ShaWord /\ ror32(d, 18) \in ShaWord
  BY <1>2, RotateType DEF Rotations
<1>5. Shr(c, 10) \in ShaWord /\ Shr(d, 3) \in ShaWord
  BY <1>2, ShiftType
<1>6. /\ XorOf3(ror32(c, 17), ror32(c, 19), Shr(c, 10)) \in ShaWord
      /\ XorOf3(ror32(d, 7), ror32(d, 18), Shr(d, 3)) \in ShaWord
  BY <1>4, <1>5, XorOf3Type
<1> QED BY <1>2, <1>3, <1>6, SumType

(* A round replaces one word of the schedule. *)
LEMMA ScheduledType ==
    ASSUME NEW w \in Schedule, NEW r \in 0 .. 63
    PROVE  Scheduled(w, r) \in Schedule
BY NextOfScheduleType DEF Scheduled, Schedule

(* A round. *)
LEMMA RoundType ==
    ASSUME NEW s \in HashState, NEW k \in ShaWord, NEW w \in ShaWord
    PROVE  Round(s, k, w) \in HashState
<1>1. \A j \in 1 .. 8 : s[j] \in ShaWord
  BY DEF HashState
<1> DEFINE a == s[1]
           b == s[2]
           c == s[3]
           d == s[4]
           e == s[5]
           f == s[6]
           g == s[7]
           h == s[8]
           choice == XorWord(g, AndWord(e, XorWord(g, f)))
           t1 == AddWord(AddWord(AddWord(h, XorOf3(ror32(e, 6), ror32(e, 11), ror32(e, 25))),
                                 choice),
                         AddWord(k, w))
           majority == XorOf3(AndWord(b, c), AndWord(a, b), AndWord(a, c))
           t2 == AddWord(XorOf3(ror32(a, 2), ror32(a, 13), ror32(a, 22)), majority)
<1>2. Round(s, k, w) = <<AddWord(t1, t2), a, b, c, AddWord(d, t1), e, f, g>>
  BY DEF Round
<1>3. /\ a \in ShaWord /\ b \in ShaWord /\ c \in ShaWord /\ d \in ShaWord
      /\ e \in ShaWord /\ f \in ShaWord /\ g \in ShaWord /\ h \in ShaWord
  BY <1>1
<1> HIDE DEF a, b, c, d, e, f, g, h
<1>4. choice \in ShaWord
  BY <1>3, WordBitwise
<1>5. majority \in ShaWord
  BY <1>3, WordBitwise, XorOf3Type
<1>6. /\ ror32(e, 6) \in ShaWord /\ ror32(e, 11) \in ShaWord /\ ror32(e, 25) \in ShaWord
      /\ ror32(a, 2) \in ShaWord /\ ror32(a, 13) \in ShaWord /\ ror32(a, 22) \in ShaWord
  BY <1>3, RotateType DEF Rotations
<1> HIDE DEF choice, majority
<1>7. t1 \in ShaWord
  BY <1>3, <1>4, <1>6, XorOf3Type, SumType
<1>8. t2 \in ShaWord
  BY <1>5, <1>6, XorOf3Type, SumType
<1> HIDE DEF t1, t2
<1>9. AddWord(t1, t2) \in ShaWord /\ AddWord(d, t1) \in ShaWord
  BY <1>3, <1>7, <1>8, SumType
<1> QED BY <1>2, <1>3, <1>9 DEF HashState

(* The constants of the rounds are words. *)
LEMMA ConstantHalves == \A k \in 0 .. 127 : SHA256_K[k + 1] \in Half
BY SMT DEF SHA256_K, Half

(* A pair of them is a word. *)
LEMMA RoundConstants == \A r \in 0 .. 63 : <<SHA256_K[2 * r + 1], SHA256_K[2 * r + 2]>> \in ShaWord
<1>1. \A r \in 0 .. 63 : 2 * r \in 0 .. 127 /\ 2 * r + 1 \in 0 .. 127
  OBVIOUS
<1>2. \A r \in 0 .. 63 : SHA256_K[2 * r + 1] \in Half /\ SHA256_K[(2 * r + 1) + 1] \in Half
  BY <1>1, ConstantHalves
<1>3. \A r \in 0 .. 63 : (2 * r + 1) + 1 = 2 * r + 2
  OBVIOUS
<1> QED BY <1>2, <1>3, PairIsWord

(* Eight words are a state. *)
LEMMA EightWords ==
    ASSUME NEW a \in ShaWord, NEW b \in ShaWord, NEW c \in ShaWord, NEW d \in ShaWord,
           NEW e \in ShaWord, NEW f \in ShaWord, NEW g \in ShaWord, NEW h \in ShaWord
    PROVE  <<a, b, c, d, e, f, g, h>> \in HashState
BY DEF HashState

(* SHA256_INIT_STATE is a state. *)
LEMMA InitIsState == SHA256_INIT_STATE \in HashState
<1>1. /\ 27145 \in Half /\ 58983 \in Half /\ 47975 \in Half /\ 44677 \in Half
      /\ 15470 \in Half /\ 62322 \in Half /\ 42319 \in Half /\ 62778 \in Half
      /\ 20750 \in Half /\ 21119 \in Half /\ 39685 \in Half /\ 26764 \in Half
      /\ 8067 \in Half /\ 55723 \in Half /\ 23520 \in Half /\ 52505 \in Half
  BY SMT DEF Half
<1>2. /\ <<27145, 58983>> \in ShaWord /\ <<47975, 44677>> \in ShaWord
      /\ <<15470, 62322>> \in ShaWord /\ <<42319, 62778>> \in ShaWord
      /\ <<20750, 21119>> \in ShaWord /\ <<39685, 26764>> \in ShaWord
      /\ <<8067, 55723>> \in ShaWord /\ <<23520, 52505>> \in ShaWord
  BY <1>1, PairIsWord, SMT
<1> DEFINE a == <<27145, 58983>>
           b == <<47975, 44677>>
           c == <<15470, 62322>>
           d == <<42319, 62778>>
           e == <<20750, 21119>>
           f == <<39685, 26764>>
           g == <<8067, 55723>>
           h == <<23520, 52505>>
<1>3. SHA256_INIT_STATE = <<a, b, c, d, e, f, g, h>>
  BY SMT DEF SHA256_INIT_STATE
<1> HIDE DEF a, b, c, d, e, f, g, h
<1>4. a \in ShaWord /\ b \in ShaWord /\ c \in ShaWord /\ d \in ShaWord
  BY <1>2, SMT DEF a, b, c, d
<1>5. e \in ShaWord /\ f \in ShaWord /\ g \in ShaWord /\ h \in ShaWord
  BY <1>2, SMT DEF e, f, g, h
<1>6. <<a, b, c, d, e, f, g, h>> \in HashState
  BY <1>4, <1>5, EightWords
<1> QED BY <1>3, <1>6

(* A round keeps to the types. *)
LEMMA OneRoundType ==
    ASSUME NEW run \in Running, NEW r \in 0 .. 63
    PROVE  OneRound(run, r) \in Running
<1> DEFINE w == Scheduled(run.schedule, r)
<1>1. run.words \in HashState /\ run.schedule \in Schedule
  BY DEF Running
<1>2. w \in Schedule
  BY <1>1, ScheduledType
<1> DEFINE k == <<SHA256_K[2 * r + 1], SHA256_K[2 * r + 2]>>
<1>3. OneRound(run, r) = [words |-> Round(run.words, k, w[(r % 16) + 1]), schedule |-> w]
  BY DEF OneRound
<1>5. k \in ShaWord
  BY RoundConstants
<1> HIDE DEF w, k
<1>4. w[(r % 16) + 1] \in ShaWord
  <2>1. (r % 16) + 1 \in 1 .. 16
    OBVIOUS
  <2> QED BY <1>2, <2>1 DEF Schedule
<1>6. Round(run.words, k, w[(r % 16) + 1]) \in HashState
  BY <1>1, <1>4, <1>5, RoundType
<1> QED BY <1>2, <1>3, <1>6 DEF Running

(* A block, as Sha256 has it. *)
HashedBlock == [0 .. 63 -> Byte]

(* The words of a block are a schedule. *)
LEMMA WordsOfType == \A block \in HashedBlock : WordsOf(block) \in Schedule
<1> SUFFICES ASSUME NEW block \in HashedBlock PROVE WordsOf(block) \in Schedule
  OBVIOUS
<1> DEFINE f == [k \in 1 .. 16 |-> <<256 * block[4 * k - 4] + block[4 * k - 3],
                                     256 * block[4 * k - 2] + block[4 * k - 1]>>]
<1>1. WordsOf(block) = Tabulated(f)
  BY DEF WordsOf
<1>2. ASSUME NEW k \in 1 .. 16
      PROVE  <<256 * block[4 * k - 4] + block[4 * k - 3],
               256 * block[4 * k - 2] + block[4 * k - 1]>> \in ShaWord
  <2>1. /\ 4 * k - 4 \in 0 .. 63 /\ 4 * k - 3 \in 0 .. 63
        /\ 4 * k - 2 \in 0 .. 63 /\ 4 * k - 1 \in 0 .. 63
    OBVIOUS
  <2>2. \A j \in 0 .. 63 : block[j] \in Byte
    BY DEF HashedBlock
  <2>3. /\ 256 * block[4 * k - 4] + block[4 * k - 3] \in Half
        /\ 256 * block[4 * k - 2] + block[4 * k - 1] \in Half
    BY <2>1, <2>2, HalfOfBytes
  <2> QED BY <2>3, PairIsWord
<1>3. f \in [1 .. 16 -> ShaWord] /\ 16 \in Nat
  BY <1>2
<1> HIDE DEF f
<1>4. Tabulated(f) = f
  BY <1>3, TabulatedFunction
<1> QED BY <1>1, <1>3, <1>4 DEF Schedule

(* The sixty-four rounds keep to the types. *)
LEMMA RoundsType ==
    ASSUME NEW s \in HashState, NEW block \in HashedBlock
    PROVE  Rounds(s, block) \in Running
<1> DEFINE f == [r \in 1 .. 64 |-> [run \in Running |-> OneRound(run, r - 1)]]
           e == [words |-> s, schedule |-> WordsOf(block)]
           R == Running
           T == [k \in 0 .. 64 |-> R]
<1>1. Rounds(s, block) = Loop(f, e, 64)
  BY Zenon DEF Rounds
<1>2. e \in R
  BY WordsOfType DEF Running
<1>3. ASSUME NEW k \in 0 .. 63, NEW run \in R PROVE f[k + 1][run] \in R
  <2>1. k + 1 \in 1 .. 64 /\ (k + 1) - 1 = k
    OBVIOUS
  <2>2. f[k + 1][run] = OneRound(run, k)
    BY <2>1
  <2> QED BY <2>2, OneRoundType
<1>4. 64 \in Nat /\ 64 - 1 = 63 /\ 64 \in 0 .. 64 /\ 0 \in 0 .. 64
  OBVIOUS
<1> HIDE DEF f, e, R
<1>5. \A k \in 0 .. 64 : T[k] = R
  OBVIOUS
<1>6. ASSUME NEW k \in 0 .. 63, NEW a \in T[k] PROVE f[k + 1][a] \in T[k + 1]
  <2>1. k \in 0 .. 64 /\ k + 1 \in 0 .. 64
    OBVIOUS
  <2> QED BY <1>3, <1>5, <1>6, <2>1
<1> HIDE DEF T
<1>7. e \in T[0]
  BY <1>2, <1>4, <1>5
<1>8. \A k \in 0 .. 64 : Loop(f, e, k) \in T[k]
  <2> DEFINE N == 64
  <2>1. N \in Nat
    OBVIOUS
  <2>2. \A k \in 0 .. N - 1 : \A a \in T[k] : f[k + 1][a] \in T[k + 1]
    BY <1>6
  <2>3. \A k \in 0 .. N : Loop(f, e, k) \in T[k]
    <3> HIDE DEF N
    <3> QED BY <1>7, <2>1, <2>2, LoopInvariant
  <2> QED BY <2>3
<1> QED BY <1>1, <1>4, <1>5, <1>8 DEF R

(* hashBlock() leaves a state. *)
LEMMA CompressedType ==
    ASSUME NEW s \in HashState, NEW block \in HashedBlock
    PROVE  Compressed(s, block) \in HashState
<1> DEFINE run == Rounds(s, block)
           f == [k \in 1 .. 8 |-> AddWord(s[k], run.words[k])]
<1>1. Compressed(s, block) = Tabulated(f)
  BY DEF Compressed
<1>2. run.words \in HashState
  BY RoundsType DEF Running
<1> HIDE DEF run
<1>3. f \in [1 .. 8 -> ShaWord] /\ 8 \in Nat
  BY <1>2, SumType DEF HashState
<1> HIDE DEF f
<1>4. Tabulated(f) = f
  BY <1>3, TabulatedFunction
<1> QED BY <1>1, <1>3, <1>4 DEF HashState

(* The bytes of words are bytes. *)
LEMMA BytesOfType ==
    ASSUME NEW n \in Nat, NEW words \in [1 .. n -> ShaWord]
    PROVE  BytesOf(words) \in [1 .. 4 * n -> Byte]
<1> DEFINE half(k) == words[((k - 1) \div 4) + 1][(((k - 1) % 4) \div 2) + 1]
           f == [k \in 1 .. 4 * n |-> IF k % 2 = 1 THEN half(k) \div 256 ELSE half(k) % 256]
<1>1. BytesOf(words) = Tabulated(f)
  <2>1. Len(words) = n
    BY SeqOfFunction
  <2> QED BY <2>1 DEF BytesOf
<1>2. ASSUME NEW k \in 1 .. 4 * n PROVE half(k) \in Half
  <2>1. ((k - 1) \div 4) + 1 \in 1 .. n /\ (((k - 1) % 4) \div 2) + 1 \in {1, 2}
    OBVIOUS
  <2> QED BY <2>1, WordHalves
<1>3. f \in [1 .. 4 * n -> Byte] /\ 4 * n \in Nat
  BY <1>2, HalfBytes
<1> HIDE DEF f
<1>4. Tabulated(f) = f
  BY <1>3, TabulatedFunction
<1> QED BY <1>1, <1>3, <1>4

(* The bytes of a state are as many as a key has. *)
LEMMA DigestType == \A s \in HashState : BytesOf(s) \in [1 .. 32 -> Byte]
<1>1. 8 \in Nat /\ 4 * 8 = 32
  OBVIOUS
<1>2. \A s \in HashState : BytesOf(s) \in [1 .. 4 * 8 -> Byte]
  BY <1>1, BytesOfType DEF HashState
<1> QED BY <1>1, <1>2

(* What hashBlock() leaves in the buffer is a block. *)
LEMMA ScheduleLeftType == \A block \in HashedBlock : ScheduleLeft(block) \in HashedBlock
<1> SUFFICES ASSUME NEW block \in HashedBlock PROVE ScheduleLeft(block) \in HashedBlock
  OBVIOUS
<1> DEFINE w == Rounds(SHA256_INIT_STATE, block).schedule
           bytes == BytesOf(w)
<1>1. w \in [1 .. 16 -> ShaWord]
  BY InitIsState, RoundsType DEF Running, Schedule
<1>2. 16 \in Nat /\ 4 * 16 = 64
  OBVIOUS
<1>3. bytes \in [1 .. 4 * 16 -> Byte]
  <2> HIDE DEF w
  <2> QED BY <1>1, <1>2, BytesOfType
<1>4. ScheduleLeft(block) = [o \in 0 .. 63 |-> bytes[o + 1]]
  BY DEF ScheduleLeft
<1> HIDE DEF bytes
<1>5. \A o \in 0 .. 63 : bytes[o + 1] \in Byte
  BY <1>2, <1>3
<1> QED BY <1>4, <1>5 DEF HashedBlock

------------------------------------------------------------------------------
(* The encryption of packets with these algorithms.                         *)

CONSTANTS Leftovers, Texts, Messages, Noise   \* as in Sha256 and BlockChain

VARIABLES
    state, buffer, bufferOffset, byteCount, text, spc, lengthByte, stream,
    hkey, cpc, schedule, packet, i, plain, cipher, received

Real == INSTANCE PacketCipherProofs WITH
    Compress <- Compressed, Expand <- ScheduleLeft,
    States <- HashState, InitState <- SHA256_INIT_STATE, Digest <- BytesOf,
    SetKey <- setKey, Encipher <- encryptBlock, Decipher <- decryptBlock,
    XorBlock <- XorBytes, Blocks <- CipherBlock, HashedKeys <- Key

(* What may be hashed, what may be sent and what may be received. *)
Inputs ==
    /\ Leftovers \subseteq Real!Block
    /\ \A t \in Texts : t \in Seq(Real!Byte) /\ Len(t) \div 65536 < 65536
    /\ \A m \in Messages : m \in Seq(CipherBlock) /\ Len(m) > 1
    /\ Noise \subseteq CipherBlock

(* AES-256 and SHA-256 as the code computes them meet every hypothesis of
   PacketCipherProofs. *)
THEOREM RealAlgorithms == Real!Algorithms
<1>1. Real!Block = HashedBlock
  BY DEF Real!Block, Real!BLOCK_LENGTH, Real!Byte, HashedBlock, Byte
<1>2. Real!HashBlockTyped
  BY <1>1, CompressedType, ScheduleLeftType DEF Real!HashBlockTyped
<1>3. Real!DigestIsKey
  BY DigestType DEF Real!DigestIsKey, Key
<1>4. Real!CipherInverts
  BY AesInverts DEF Real!CipherInverts
<1>5. Real!XorInverts
  BY XorBlockFacts, XorBlockInverts DEF Real!XorInverts
<1> QED BY <1>2, <1>3, <1>4, <1>5 DEF Real!Algorithms

(* What PacketCipher asks of its parameters, of these. *)
LEMMA RealParameters ==
    ASSUME Inputs
    PROVE  /\ SHA256_INIT_STATE \in HashState
           /\ Leftovers \subseteq Real!Block
           /\ \A t \in Texts : t \in Seq(Real!Byte) /\ Len(t) \div 65536 < 65536
           /\ \A m \in Messages : m \in Seq(CipherBlock) /\ Len(m) > 1
           /\ Noise \subseteq CipherBlock
BY InitIsState DEF Inputs

(* The invariant of hashed_key(), encrypt() and decrypt(), the algorithms of
   the code in them. *)
THEOREM RealInvariance ==
    ASSUME Inputs
    PROVE  Real!CipherSpec => []Real!CipherInv
BY RealParameters, RealAlgorithms, Real!CipherInvariance

(* Types: among them that the hashed key fits setKey(), every block
   encryptBlock() and decryptBlock(). *)
THEOREM RealTypeCorrect ==
    ASSUME Inputs
    PROVE  Real!CipherSpec => []Real!CipherTypeOK
BY RealParameters, RealAlgorithms, Real!CipherTypeCorrect

(* hashed_key() hashes the key padded as FIPS 180-2 says. *)
THEOREM RealPaddingIsStandard ==
    ASSUME Inputs
    PROVE  Real!CipherSpec => []Real!PaddingConforms
BY RealParameters, RealAlgorithms, Real!PaddingIsStandard

(* hashBlock() is given the blocks of the padded key, each once and in order,
   and never what it left in the buffer. *)
THEOREM RealWholeBlocksHashed ==
    ASSUME Inputs
    PROVE  Real!CipherSpec => Real!HashesWholeBlocks
BY RealParameters, RealAlgorithms, Real!WholeBlocksHashed

(* What decrypt() makes of a packet: every block that arrived with the block
   before it as it was sent is what encrypt() was given, through AES-256 with
   a key hashed by SHA-256. *)
THEOREM RealDamageIsConfined ==
    ASSUME Inputs
    PROVE  Real!CipherSpec => []Real!DamageConfined
BY RealParameters, RealAlgorithms, Real!DamageIsConfined

------------------------------------------------------------------------------
(* The Reed-Solomon coder with the tables of RS-FEC.h.                      *)

CONSTANTS msg_length, ecc_length, Sendable, Errors   \* as in ReedSolomon

VARIABLES sent, block, eloc, ret, corrected

Coder == INSTANCE ReedSolomonProofs WITH
    Order <- FieldOrder, ExpTable <- CodeExpTable, LogTable <- CodeLogTable, Add <- xor,
    Messages <- Sendable, received <- block

(* The lengths that DecodeBlock() takes, and bytes to send and to be added. *)
Codes ==
    /\ msg_length \in Nat \ {0} /\ ecc_length \in Nat \ {0, 1}
    /\ Coder!enc_len <= FieldOrder /\ Coder!poly_len <= FieldOrder
    /\ Sendable \subseteq [1 .. msg_length -> Byte]
    /\ Errors \subseteq [1 .. Coder!enc_len -> Byte]

(* The tables exp and log: those of a field that the powers of 2 go through. *)
LEMMA TablesOfField ==
    /\ FieldOrder \in Nat /\ FieldOrder > 1
    /\ \A x \in 1 .. FieldOrder : /\ Coder!log(x) \in 0 .. FieldOrder - 1
                                  /\ Coder!exp(Coder!log(x)) = x
    /\ \A j \in 0 .. 2 * FieldOrder : /\ Coder!exp(j) \in 1 .. FieldOrder
                                      /\ Coder!log(Coder!exp(j)) = j % FieldOrder
    /\ Coder!exp(0) = 1 /\ Coder!exp(1) = 2 /\ Coder!log(0) = 0
<1>1. \A x \in 1 .. FieldOrder : /\ CodeLogTable[x + 1] \in 0 .. FieldOrder - 1
                                 /\ CodeExpTable[CodeLogTable[x + 1] + 1] = x
  BY SMTT(60) DEF CodeLogTable, CodeExpTable, FieldOrder
<1>2. \A j \in 0 .. 2 * FieldOrder : CodeExpTable[j + 1] \in 1 .. FieldOrder
  BY SMTT(60) DEF CodeExpTable, FieldOrder
<1>3. \A j \in 0 .. 2 * FieldOrder : CodeLogTable[CodeExpTable[j + 1] + 1] = j % FieldOrder
  BY SMTT(60) DEF CodeLogTable, CodeExpTable, FieldOrder
<1>4. CodeExpTable[0 + 1] = 1 /\ CodeExpTable[1 + 1] = 2 /\ CodeLogTable[0 + 1] = 0
  BY SMTT(60) DEF CodeLogTable, CodeExpTable
<1>5. /\ \A x : Coder!log(x) = CodeLogTable[x + 1]
      /\ \A x : Coder!exp(x) = CodeExpTable[x + 1]
  BY Zenon DEF Coder!log, Coder!exp
<1>6. /\ \A x \in 1 .. FieldOrder : /\ Coder!log(x) \in 0 .. FieldOrder - 1
                                    /\ Coder!exp(Coder!log(x)) = x
      /\ \A j \in 0 .. 2 * FieldOrder : /\ Coder!exp(j) \in 1 .. FieldOrder
                                        /\ Coder!log(Coder!exp(j)) = j % FieldOrder
  BY <1>1, <1>2, <1>3, <1>5, Zenon
<1>7. /\ FieldOrder \in Nat /\ FieldOrder > 1
      /\ Coder!exp(0) = 1 /\ Coder!exp(1) = 2 /\ Coder!log(0) = 0
  BY <1>4, <1>5, SMT DEF FieldOrder
<1> QED BY <1>6, <1>7, Zenon

(* Doubling in this field, by its tables *)
doubled(x) == IF x = 0 THEN 0 ELSE CodeExpTable[CodeLogTable[3] + CodeLogTable[x + 1] + 1]

(* shifts a byte and corrects it by 1D for the bit that is lost: *)
LEMMA CodeDouble == \A x \in Byte : doubled(x) =
      128 * Bit(x, 64) + 64 * Bit(x, 32) + 32 * Bit(x, 16) + 16 * ((Bit(x, 8) + Bit(x, 128)) % 2)
      + 8 * ((Bit(x, 4) + Bit(x, 128)) % 2) + 4 * ((Bit(x, 2) + Bit(x, 128)) % 2)
      + 2 * Bit(x, 1) + Bit(x, 128)
BY SMTT(60) DEF CodeLogTable, CodeExpTable, doubled, Bit, Byte

(* as DoubledBits for the other field, *)
LEMMA CodeDoubledBits == ASSUME NEW a \in Byte
    PROVE /\ doubled(a) \in Byte
          /\ Bit(doubled(a), 1) = Bit(a, 128)
          /\ Bit(doubled(a), 2) = Bit(a, 1)
          /\ Bit(doubled(a), 4) = Flip(Bit(a, 2), Bit(a, 128))
          /\ Bit(doubled(a), 8) = Flip(Bit(a, 4), Bit(a, 128))
          /\ Bit(doubled(a), 16) = Flip(Bit(a, 8), Bit(a, 128))
          /\ Bit(doubled(a), 32) = Bit(a, 16)
          /\ Bit(doubled(a), 64) = Bit(a, 32)
          /\ Bit(doubled(a), 128) = Bit(a, 64)
<1> DEFINE d == doubled(a)
<1>1. \A k \in Weights : Bit(a, k) \in {0, 1}
  BY ByteBits
<1>2. /\ Bit(a, 128) \in {0, 1} /\ Bit(a, 64) \in {0, 1} /\ Bit(a, 32) \in {0, 1} /\ Bit(a, 16) \in {0, 1}
      /\ Bit(a, 8) \in {0, 1} /\ Bit(a, 4) \in {0, 1} /\ Bit(a, 2) \in {0, 1} /\ Bit(a, 1) \in {0, 1}
  BY <1>1 DEF Weights
<1>3. /\ Flip(Bit(a, 2), Bit(a, 128)) \in {0, 1} /\ Flip(Bit(a, 4), Bit(a, 128)) \in {0, 1}
      /\ Flip(Bit(a, 8), Bit(a, 128)) \in {0, 1}
      /\ (Bit(a, 2) + Bit(a, 128)) % 2 = Flip(Bit(a, 2), Bit(a, 128))
      /\ (Bit(a, 4) + Bit(a, 128)) % 2 = Flip(Bit(a, 4), Bit(a, 128))
      /\ (Bit(a, 8) + Bit(a, 128)) % 2 = Flip(Bit(a, 8), Bit(a, 128))
  BY <1>2, FlipIs
<1>4. d = 128 * Bit(a, 64) + 64 * Bit(a, 32) + 32 * Bit(a, 16) + 16 * Flip(Bit(a, 8), Bit(a, 128))
          + 8 * Flip(Bit(a, 4), Bit(a, 128)) + 4 * Flip(Bit(a, 2), Bit(a, 128))
          + 2 * Bit(a, 1) + Bit(a, 128)
  BY <1>3, CodeDouble
<1> HIDE DEF d
<1> DEFINE e4 == Flip(Bit(a, 8), Bit(a, 128))
           e3 == Flip(Bit(a, 4), Bit(a, 128))
           e2 == Flip(Bit(a, 2), Bit(a, 128))
<1>5. /\ e4 \in {0, 1} /\ e3 \in {0, 1} /\ e2 \in {0, 1}
      /\ d = 128 * Bit(a, 64) + 64 * Bit(a, 32) + 32 * Bit(a, 16) + 16 * e4
              + 8 * e3 + 4 * e2 + 2 * Bit(a, 1) + Bit(a, 128)
  BY <1>3, <1>4
<1> HIDE DEF e4, e3, e2
<1>6. /\ d \in Byte
      /\ Bit(d, 128) = Bit(a, 64) /\ Bit(d, 64) = Bit(a, 32) /\ Bit(d, 32) = Bit(a, 16)
      /\ Bit(d, 16) = e4 /\ Bit(d, 8) = e3 /\ Bit(d, 4) = e2
      /\ Bit(d, 2) = Bit(a, 1) /\ Bit(d, 1) = Bit(a, 128)
  BY <1>2, <1>5, ByteOfBits
<1> QED BY <1>6 DEF d, e4, e3, e2

(* and as DoubleXor. *)
LEMMA CodeDoubleXor == \A a, b \in Byte : doubled(xor(a, b)) = xor(doubled(a), doubled(b))
<1> SUFFICES ASSUME NEW a \in Byte, NEW b \in Byte
             PROVE doubled(xor(a, b)) = xor(doubled(a), doubled(b)) OBVIOUS
<1> DEFINE x == xor(a, b)
           l == doubled(x)
           p == doubled(a)
           q == doubled(b)
           r == xor(p, q)
<1>0. x \in Byte
  BY XorType
<1>1. p \in Byte /\ q \in Byte /\ l \in Byte /\ r \in Byte
  BY <1>0, XorType, CodeDoubledBits
<1>2. \A k \in Weights : Bit(x, k) = Flip(Bit(a, k), Bit(b, k))
  BY XorBits
<1>3. \A k \in Weights : Bit(r, k) = Flip(Bit(p, k), Bit(q, k))
  BY <1>1, XorBits
<1>4. \A k \in Weights : Bit(a, k) \in {0, 1} /\ Bit(b, k) \in {0, 1}
  BY ByteBits
<1>5. /\ Bit(l, 1) = Bit(x, 128) /\ Bit(l, 2) = Bit(x, 1)
      /\ Bit(l, 4) = Flip(Bit(x, 2), Bit(x, 128)) /\ Bit(l, 8) = Flip(Bit(x, 4), Bit(x, 128))
      /\ Bit(l, 16) = Flip(Bit(x, 8), Bit(x, 128)) /\ Bit(l, 32) = Bit(x, 16)
      /\ Bit(l, 64) = Bit(x, 32) /\ Bit(l, 128) = Bit(x, 64)
  BY <1>0, CodeDoubledBits
<1>6. /\ Bit(p, 1) = Bit(a, 128) /\ Bit(p, 2) = Bit(a, 1)
      /\ Bit(p, 4) = Flip(Bit(a, 2), Bit(a, 128)) /\ Bit(p, 8) = Flip(Bit(a, 4), Bit(a, 128))
      /\ Bit(p, 16) = Flip(Bit(a, 8), Bit(a, 128)) /\ Bit(p, 32) = Bit(a, 16)
      /\ Bit(p, 64) = Bit(a, 32) /\ Bit(p, 128) = Bit(a, 64)
  BY CodeDoubledBits
<1>7. /\ Bit(q, 1) = Bit(b, 128) /\ Bit(q, 2) = Bit(b, 1)
      /\ Bit(q, 4) = Flip(Bit(b, 2), Bit(b, 128)) /\ Bit(q, 8) = Flip(Bit(b, 4), Bit(b, 128))
      /\ Bit(q, 16) = Flip(Bit(b, 8), Bit(b, 128)) /\ Bit(q, 32) = Bit(b, 16)
      /\ Bit(q, 64) = Bit(b, 32) /\ Bit(q, 128) = Bit(b, 64)
  BY CodeDoubledBits
<1> HIDE DEF x, l, p, q, r
<1>8. \A k \in Weights : Bit(l, k) = Bit(r, k)
  BY <1>2, <1>3, <1>4, <1>5, <1>6, <1>7 DEF Weights, Flip
<1>9. l = r
  BY <1>1, <1>8, SameBits
<1> QED BY <1>9 DEF x, l, p, q, r

(* Adding zero changes nothing, and a byte is its own opposite. *)
LEMMA XorZero == \A a \in Byte : xor(a, 0) = a /\ xor(a, a) = 0
<1> SUFFICES ASSUME NEW a \in Byte PROVE xor(a, 0) = a /\ xor(a, a) = 0 OBVIOUS
<1>1. 0 \in Byte /\ \A k \in Weights : Bit(0, k) = 0
  BY DEF Byte, Bit, Weights
<1>2. /\ xor(a, 0) \in Byte /\ xor(a, a) \in Byte
      /\ \A k \in Weights : /\ Bit(xor(a, 0), k) = Flip(Bit(a, k), 0)
                            /\ Bit(xor(a, a), k) = 0
  BY <1>1, XorBits DEF Flip
<1>3. \A k \in Weights : Flip(Bit(a, k), 0) = Bit(a, k)
  BY ByteBits DEF Flip
<1> QED BY <1>1, <1>2, <1>3, SameBits

(* The exclusive or is the addition of a field in which 2 is the generator. *)
LEMMA SumsOfField ==
    /\ \A x, y \in Coder!Symbols : xor(x, y) \in Coder!Symbols /\ xor(x, y) = xor(y, x)
    /\ \A x, y, z \in Coder!Symbols : xor(x, xor(y, z)) = xor(xor(x, y), z)
    /\ \A x \in Coder!Symbols : xor(x, 0) = x /\ xor(x, x) = 0
    /\ \A x, y \in Coder!Symbols : Coder!mul(2, xor(x, y)) = xor(Coder!mul(2, x), Coder!mul(2, y))
<1>1. Coder!Symbols = Byte
  BY DEF Coder!Symbols, FieldOrder, Byte
<1>2. \A x \in Byte : Coder!mul(2, x) = doubled(x)
  BY SMT DEF Coder!mul, Coder!exp, Coder!log, doubled
<1>3. \A x, y \in Byte : Coder!mul(2, xor(x, y)) = xor(Coder!mul(2, x), Coder!mul(2, y))
  BY <1>2, XorType, CodeDoubleXor
<1> QED BY <1>1, <1>3, XorType, XorComm, XorAssoc, XorZero

(* Its symbols are the bytes. *)
LEMMA CodeInputs ==
    ASSUME Codes
    PROVE  /\ Sendable \subseteq [1 .. msg_length -> Coder!Symbols]
           /\ Errors \subseteq [1 .. Coder!enc_len -> Coder!Symbols]
<1>1. Coder!Symbols = Byte
  BY DEF Coder!Symbols, FieldOrder, Byte
<1> QED BY <1>1 DEF Codes

(* The lengths that ReedSolomon asks for. *)
LEMMA CodeLengths ==
    ASSUME Codes
    PROVE  /\ msg_length \in Nat \ {0} /\ ecc_length \in Nat \ {0, 1}
           /\ Coder!enc_len <= FieldOrder /\ Coder!poly_len <= FieldOrder
BY DEF Codes

(* The three coders of LoRaL2.cpp have such lengths. *)
LEMMA ProgramCodes ==
    ASSUME <<msg_length, ecc_length>> \in {<<50, 10>>, <<100, 14>>, <<230, 20>>}
    PROVE  /\ msg_length \in Nat \ {0} /\ ecc_length \in Nat \ {0, 1}
           /\ Coder!enc_len <= FieldOrder /\ Coder!poly_len <= FieldOrder
BY SMT DEF Coder!enc_len, Coder!poly_len, FieldOrder

(* The invariant of a coder of these, block after block. *)
THEOREM RealCoderInvariance ==
    ASSUME Codes
    PROVE  Coder!Spec => []Coder!IInv
BY TablesOfField, SumsOfField, CodeInputs, CodeLengths, Coder!Inductive, Zenon

(* DecodeBlock() returns what was encoded if no more bytes are wrong than half
   the redundancy: with the tables that the code has. *)
THEOREM RealCorrectsToHalf ==
    ASSUME Codes
    PROVE  Coder!Spec => []Coder!CorrectsToHalf
BY TablesOfField, SumsOfField, CodeInputs, CodeLengths, Coder!AlwaysCorrectsToHalf, Zenon

(* It changes no more bytes than that in a block it reports as decoded. *)
THEOREM RealChangesFew ==
    ASSUME Codes
    PROVE  Coder!Spec => []Coder!ChangesFew
BY TablesOfField, SumsOfField, CodeInputs, CodeLengths, Coder!AlwaysChangesFew, Zenon

(* ERR_EVAL stays inside stack_memory. *)
THEOREM RealWorkspaceFits ==
    ASSUME Codes
    PROVE  Coder!Spec => []Coder!WorkspaceFits
BY TablesOfField, SumsOfField, CodeInputs, CodeLengths, Coder!AlwaysWorkspaceFits, Zenon
==============================================================================
