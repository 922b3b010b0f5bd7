--------------------------- MODULE FrameCodecProofs ---------------------------
(***************************************************************************)
(* Proofs about FrameCodec: for every payload length, every frame length,  *)
(* every amount of damage, every key and every value of a length word.     *)
(***************************************************************************)
EXTENDS FrameCodec, TLAPS

(* size_t holds the length of any payload a length word can announce. *)
Wide == SizeModulus > MaxWord + Header

(* The lengths as numbers. *)
LEMMA Numbers == /\ MaxWord \in Nat /\ MaxWord >= MSGSIZ_LONG /\ MSGSIZ_LONG = 230
                 /\ Header = 18 /\ BlockSize = 16 /\ CRYPTO_LENGTH_LEN = 2
BY DEF MSGSIZ_LONG, MaxWord, Header, BlockSize, CRYPTO_LENGTH_LEN

(* Where size_t does not wrap, the code computes the blocks that header and
   payload take, rounded up. *)
LEMMA BlocksAreExact ==
    ASSUME Wide, NEW n \in 0 .. MaxWord
    PROVE  BlocksFor(n) = (Header + n - 1) \div BlockSize + 1
<1> DEFINE m == Header + n
<1>1. m \in Nat /\ m > 0 /\ m < SizeModulus
      BY Numbers, SizeAssumption DEF Wide
<1>2. Plus(Header, n) = m
      BY <1>1, SizeAssumption DEF Plus
<1> HIDE DEF m
<1>3. Decrement(m) = m - 1
      BY <1>1 DEF Decrement
<1>4. BlocksFor(n) = ((m - 1) \div BlockSize) + 1
      BY <1>2, <1>3 DEF BlocksFor
<1>5. m - 1 = Header + n - 1
      BY Numbers DEF m
<1> QED BY <1>4, <1>5

(* An encrypted packet is a whole number of blocks, at least two, and fits
   the largest code. *)
LEMMA EncryptedFits ==
    ASSUME Wide, NEW key, key # NoKey, NEW n \in Nat, n <= MaxPayload(key)
    PROVE  LET len == EncryptedLength(key, n)
           IN  /\ len \in 32 .. MSGSIZ_LONG /\ len % BlockSize = 0
               /\ len \div BlockSize = BlocksFor(n)
               /\ Header + n <= len
<1>1. n \in 0 .. 196
      BY DEF MaxPayload, MSGSIZ_LONG, BlockSize, CRYPTO_LENGTH_LEN
<1>2. BlocksFor(n) = (17 + n) \div 16 + 1
  <2>1. n \in 0 .. MaxWord /\ Header + n - 1 = 17 + n
        BY <1>1, Numbers
  <2> QED BY <2>1, BlocksAreExact, Numbers
<1> QED BY <1>1, <1>2
        DEF EncryptedLength, Header, BlockSize, CRYPTO_LENGTH_LEN, MSGSIZ_LONG

(* The sender classifies by message length and the receiver by total length:
   they choose the same code, and the receiver recovers the length. *)
LEMMA CodesAgree ==
    ASSUME NEW n \in 0 .. MSGSIZ_LONG PROVE Agreed(n) /\ RecvCode(FecLength(n)) # "none"
BY DEF Agreed, RecvCode, FecLength, SendCode, NetLength, Truncated, Redundancy,
       MSGSIZ_SHORT, MSGSIZ_MEDIUM, MSGSIZ_LONG, REDUNDANCY_SHORT,
       REDUNDANCY_MEDIUM, REDUNDANCY_LONG

(* What the lengths and the error codes of a frame of n bytes are. *)
LEMMA Sizes ==
    ASSUME NEW n \in Nat
    PROVE  /\ FecLength(n) \in Nat /\ NetLength(n) \in Nat
           /\ RecvCode(n) \in {"none", "short", "medium", "long"}
           /\ FecError(RecvCode(n)) \in 996 .. 999
           /\ RecvCode(n) # "none" => NetLength(n) <= MsgSize(RecvCode(n))
BY DEF FecLength, NetLength, RecvCode, SendCode, FecError, Truncated, Redundancy,
       MsgSize, MSGSIZ_SHORT, MSGSIZ_MEDIUM, MSGSIZ_LONG, REDUNDANCY_SHORT,
       REDUNDANCY_MEDIUM, REDUNDANCY_LONG

(* A packet that send() accepts goes through append_fec() uncut, with a key
   and without. *)
LEMMA AcceptedFits ==
    ASSUME Wide, NEW key, NEW n \in Nat, n <= MaxPayload(key)
    PROVE  EncryptedLength(key, n) \in 0 .. MSGSIZ_LONG
<1>1. CASE key = NoKey
      BY <1>1 DEF EncryptedLength, MaxPayload, MSGSIZ_LONG
<1>2. CASE key # NoKey
      BY <1>2, EncryptedFits
<1> QED BY <1>1, <1>2

------------------------------------------------------------------------------
(* Before the first frame nothing is known. *)
LEMMA InitEstablishes == Init => IInv
BY DEF Init, IInv, TypeOK, FrameKnown, DecodedKnown, GotKnown, NoFrame, NotDecoded,
       NotGot

(* The sender's side: send() and whatever else is on the air. *)
LEMMA AirPreserves ==
    ASSUME IInv, Wide,
           \/ \E n \in Lengths : Send(n) \/ SendRefused(n)
           \/ \E n \in ForeignLengths : HearForeign(n)
           \/ \E d \in Damages : Interfere(d)
    PROVE  IInv'
<1> USE LengthAssumption, DamageAssumption
        DEF IInv, TypeOK, FrameKnown, DecodedKnown, GotKnown
<1>1. ASSUME NEW n \in Lengths, Send(n) PROVE IInv'
  <2>1. n \in Nat /\ EncryptedLength(keys.sender, n) \in Nat
        BY <1>1, AcceptedFits DEF Send, MSGSIZ_LONG
  <2>2. FecLength(EncryptedLength(keys.sender, n)) \in Nat
        BY <2>1, Sizes
  <2> QED BY <1>1, <2>1, <2>2 DEF Send
<1>2. ASSUME NEW n \in Lengths, SendRefused(n) PROVE IInv'
      BY <1>2 DEF SendRefused
<1>3. ASSUME NEW n \in ForeignLengths, HearForeign(n) PROVE IInv'
      BY <1>3 DEF HearForeign
<1>4. ASSUME NEW d \in Damages, Interfere(d) PROVE IInv'
  <2>1. /\ frame' = [len |-> frame.len, maker |-> frame.maker, bad |-> d]
        /\ phase = "air" /\ UNCHANGED <<phase, keys, sent, decoded, got>>
        BY <1>4 DEF Interfere
  <2>2. frame' \in [len : Nat, maker : {"own", "foreign"}, bad : Nat]
        BY <2>1
  <2>3. frame'.len = frame.len /\ frame'.maker = frame.maker
        BY <2>1
  <2> QED BY <2>1, <2>2, <2>3
<1> QED BY <1>1, <1>2, <1>3, <1>4

(* decode_fec(): the code by the length of the frame, then the coder's
   answer. *)
LEMMA DecodePreserves == ASSUME IInv, DecodeFec PROVE IInv'
<1> DEFINE code == RecvCode(frame.len)
           result(e, w) == [err |-> e, net |-> NetLength(frame.len), whole |-> w]
<1>1. /\ NetLength(frame.len) \in Nat /\ FecError(code) \in {996, 997, 998, 999}
      /\ code = "none" => FecError(code) = 999
      BY Sizes DEF IInv, TypeOK, FecError
<1>2. Repairable' = Repairable /\ frame' = frame
      BY DEF DecodeFec, Repairable
<1>3. \/ code = "none" /\ decoded' = result(999, FALSE)
      \/ code # "none" /\ Repairable /\ decoded' = result(0, TRUE)
      \/ /\ code # "none" /\ ~Repairable
         /\ decoded' \in {result(FecError(code), FALSE), result(0, FALSE)}
      BY DEF DecodeFec
<1>4. decoded' \in [err : {0, 996, 997, 998, 999}, net : Nat, whole : BOOLEAN]
  <2> DEFINE Decodings == [err : {0, 996, 997, 998, 999}, net : Nat, whole : BOOLEAN]
  <2>1. /\ result(999, FALSE) \in Decodings /\ result(0, TRUE) \in Decodings
        /\ result(0, FALSE) \in Decodings /\ result(FecError(code), FALSE) \in Decodings
        BY <1>1
  <2> DEFINE unknown == result(999, FALSE)
             repaired == result(0, TRUE)
             reported == result(FecError(code), FALSE)
             mistaken == result(0, FALSE)
  <2>2. \/ decoded' = unknown \/ decoded' = repaired
        \/ decoded' = reported \/ decoded' = mistaken
        BY <1>3
  <2> HIDE DEF unknown, repaired, reported, mistaken
  <2>3. decoded' \in Decodings
    <3>1. unknown \in Decodings /\ repaired \in Decodings
          /\ reported \in Decodings /\ mistaken \in Decodings
          BY <2>1 DEF unknown, repaired, reported, mistaken
    <3> HIDE DEF Decodings
    <3> QED BY <2>2, <3>1
  <2> QED BY <2>3
<1>5. TypeOK' /\ FrameKnown' /\ GotKnown'
      BY <1>4 DEF DecodeFec, IInv, TypeOK, FrameKnown, GotKnown
<1>6. DecodedKnown'
      BY <1>1, <1>2, <1>3 DEF DecodedKnown
<1> QED BY <1>5, <1>6 DEF IInv

(* decrypt() and the call of recv(): the length word is believed only within
   bounds. *)
LEMMA DeliverPreserves == ASSUME IInv, Deliver PROVE IInv'
<1>1. phase = "fec" /\ phase' = "delivered" /\ UNCHANGED <<keys, sent, frame, decoded>>
      BY DEF Deliver
<1>2. /\ Repairable' = Repairable /\ Deciphered' = Deciphered /\ Words' = Words
      /\ Deciphered \in BOOLEAN
      BY <1>1 DEF IInv, TypeOK, Repairable, Deciphered, Words
<1>3. FrameKnown' /\ DecodedKnown'
      BY <1>1, <1>2 DEF IInv, FrameKnown, DecodedKnown
<1>4. ASSUME NEW word \in Words PROVE word \in Nat
  <2>1. CASE Deciphered
        BY <2>1, <1>4 DEF Words, IInv, TypeOK
  <2>2. CASE ~Deciphered
    <3>1. Words = LengthWords
          BY <2>2 DEF Words
    <3>2. word \in LengthWords
          BY <1>4, <3>1, Zenon
    <3>3. word \in 0 .. MaxWord
          BY <3>2, WordAssumption, Zenon
    <3> QED BY <3>3, Numbers
  <2> QED BY <2>1, <2>2
<1> DEFINE Results == [err : {0, 996, 997, 998, 999, 1001, 1002, 1003},
                       len : Nat, whole : BOOLEAN]
<1>5. /\ decoded.err \in {0, 996, 997, 998, 999} /\ decoded.net \in Nat
      /\ got' \in Results /\ GotKnown' => IInv'
      BY <1>1, <1>3 DEF IInv, TypeOK
<1>6. CASE decoded.err # 0 /\ got' = [err |-> decoded.err, len |-> decoded.net,
                                      whole |-> FALSE]
  <2>1. got' \in Results
        BY <1>5, <1>6
  <2>2. GotKnown'
        BY <1>1, <1>6 DEF GotKnown
  <2> QED BY <1>5, <2>1, <2>2
<1>7. CASE decoded.err = 0 /\ keys.receiver = NoKey
             /\ got' = [err |-> 0, len |-> decoded.net, whole |-> Deciphered]
  <2>1. got' \in Results
        BY <1>2, <1>5, <1>7
  <2>2. GotKnown'
        BY <1>1, <1>2, <1>7 DEF GotKnown
  <2> QED BY <1>5, <2>1, <2>2
<1>8. ASSUME decoded.err = 0, keys.receiver # NoKey, NEW word \in Words,
             LET err == DecryptError(decoded.net, word)
             IN  got' = IF err = 0
                        THEN [err |-> 0, len |-> word, whole |-> Deciphered]
                        ELSE [err |-> err, len |-> decoded.net, whole |-> FALSE]
      PROVE  IInv'
  <2>1. DecryptError(decoded.net, word) \in {0, 1001, 1002, 1003}
        BY DEF DecryptError
  <2>2. got' \in Results
        BY <1>2, <1>4, <1>5, <1>8, <2>1
  <2>3. /\ got'.err = DecryptError(decoded.net, word)
        /\ got'.err = 0 => got'.len = word /\ got'.whole = Deciphered
        BY <1>8
  <2>4. GotKnown'
        BY <1>1, <1>2, <1>8, <2>3 DEF GotKnown
  <2> QED BY <1>5, <2>2, <2>4
<1> QED BY <1>6, <1>7, <1>8 DEF Deliver

(* The next frame finds nothing of the last. *)
LEMMA NextFramePreserves == ASSUME IInv, NextFrame PROVE IInv'
BY DEF NextFrame, IInv, TypeOK, FrameKnown, DecodedKnown, GotKnown, NoFrame,
       NotDecoded, NotGot

(* Every step keeps what is known of the frame. *)
LEMMA StepPreserves == ASSUME IInv, Wide, [Next]_codecVars PROVE IInv'
<1>1. CASE UNCHANGED codecVars
      BY <1>1 DEF codecVars, IInv, TypeOK, FrameKnown, DecodedKnown, GotKnown,
                  Repairable, Deciphered, Words
<1> QED BY <1>1, AirPreserves, DecodePreserves, DeliverPreserves, NextFramePreserves
        DEF Next

(* What is known of a frame is known in every reachable state. *)
THEOREM Invariance == Wide => (Spec => []IInv)
<1> SUFFICES ASSUME Wide PROVE Spec => []IInv
    OBVIOUS
<1>1. IInv /\ [Next]_codecVars => IInv'
      BY StepPreserves
<1> QED BY InitEstablishes, <1>1, PTL DEF Spec

(* Types alone, from the same invariant. *)
THEOREM TypeCorrect == Wide => (Spec => []TypeOK)
<1> SUFFICES ASSUME Wide PROVE Spec => []TypeOK
    OBVIOUS
<1>1. IInv => TypeOK
      BY DEF IInv
<1> QED BY Invariance, <1>1, PTL

(* A frame of a LoRaL2 sender: the lengths of both sides agree. *)
LEMMA OwnFrame ==
    ASSUME IInv, Wide, phase \in {"air", "fec", "delivered"}, frame.maker = "own"
    PROVE  LET n == EncryptedLength(keys.sender, sent)
           IN  /\ n \in 0 .. MSGSIZ_LONG /\ Truncated(n) = n
               /\ RecvCode(frame.len) = SendCode(n) /\ RecvCode(frame.len) # "none"
               /\ NetLength(frame.len) = n
<1> DEFINE n == EncryptedLength(keys.sender, sent)
<1>1. n \in 0 .. MSGSIZ_LONG /\ frame.len = FecLength(n)
      BY AcceptedFits DEF IInv, TypeOK, FrameKnown
<1>2. Truncated(n) = n
      BY <1>1 DEF Truncated, MSGSIZ_LONG
<1>3. Agreed(n) /\ RecvCode(FecLength(n)) # "none"
      BY <1>1, CodesAgree
<1> QED BY <1>1, <1>2, <1>3 DEF Agreed

(* append_fec() never cuts a packet. *)
THEOREM NothingTruncated == Wide => (Spec => []NeverTruncated)
<1> SUFFICES ASSUME Wide PROVE Spec => []NeverTruncated
    OBVIOUS
<1>1. IInv => NeverTruncated
      BY OwnFrame DEF NeverTruncated, MSGSIZ_LONG
<1> QED BY Invariance, <1>1, PTL

(* The error of decode_fec() names the code the sender chose. *)
THEOREM ErrorsNameTheCode == Wide => (Spec => []ErrorNamesCode)
<1> SUFFICES ASSUME Wide PROVE Spec => []ErrorNamesCode
    OBVIOUS
<1>1. ASSUME IInv, phase = "delivered", frame.maker = "own", got.err \in 996 .. 999
      PROVE  got.err = FecError(SendCode(EncryptedLength(keys.sender, sent)))
  <2>1. decoded.err # 0 /\ got.err = decoded.err
        BY <1>1 DEF IInv, GotKnown, DecryptError
  <2>2. decoded.err = FecError(RecvCode(frame.len))
        BY <1>1, <2>1 DEF IInv, DecodedKnown
  <2> QED BY <1>1, <2>1, <2>2, OwnFrame
<1>2. IInv => ErrorNamesCode
      BY <1>1 DEF ErrorNamesCode
<1> QED BY Invariance, <1>2, PTL

(* Division and remainder by the block size. *)
LEMMA DivMod == \A n \in Nat : n = (n \div 16) * 16 + (n % 16)
OBVIOUS

(* A length decrypt() accepts is that of a packet of exactly the blocks that
   were received. *)
LEMMA AcceptedLength ==
    ASSUME Wide, NEW net \in Nat, NEW word \in 0 .. MaxWord,
           DecryptError(net, word) = 0
    PROVE  /\ net = ((Header + word - 1) \div BlockSize + 1) * BlockSize
           /\ Header + word <= net
<1>1. net % BlockSize = 0 /\ net \div BlockSize = BlocksFor(word)
      BY DEF DecryptError
<1>2. BlocksFor(word) = (Header + word - 1) \div BlockSize + 1
      BY BlocksAreExact
<1>3. net = (net \div BlockSize) * BlockSize + (net % BlockSize)
      BY DivMod DEF BlockSize
<1> DEFINE k == Header + word
           q == (Header + word - 1) \div BlockSize
           b == net \div BlockSize
<1>4. k \in Nat /\ k - 1 \in Nat
      BY Numbers
<1>5. b = q + 1 /\ net = b * 16
      BY <1>1, <1>2, <1>3, Numbers
<1>6. k - 1 = q * 16 + ((k - 1) % 16) /\ (k - 1) % 16 \in 0 .. 15 /\ q \in Nat
  <2>1. q = (k - 1) \div 16
        BY Numbers
  <2> HIDE DEF k, q
  <2>2. \A x \in Nat : x \div 16 \in Nat /\ x % 16 \in 0 .. 15
        OBVIOUS
  <2> QED BY <1>4, <2>1, <2>2, DivMod
<1> HIDE DEF k, q, b
<1>7. net = (q + 1) * 16 /\ k <= net
      BY <1>4, <1>5, <1>6
<1> QED BY <1>7, Numbers DEF k, q

(* Under a key, what is delivered without error had its length word checked;
   the word of an intact packet is that of send(). *)
LEMMA DeliveredLength ==
    ASSUME IInv, Wide, phase = "delivered", got.err = 0, keys.receiver # NoKey
    PROVE  /\ got.len \in 0 .. MaxWord /\ decoded.net \in Nat
           /\ DecryptError(decoded.net, got.len) = 0
<1>1. decoded.net \in Nat /\ sent \in Nat
      BY DEF IInv, TypeOK
<1>2. PICK word \in Words : got.err = DecryptError(decoded.net, word) /\ got.len = word
      BY DEF IInv, GotKnown
<1>3. CASE Deciphered
  <2>1. decoded.err = 0 /\ frame.maker = "own"
        BY <1>3 DEF IInv, DecodedKnown, Deciphered, Repairable
  <2>2. sent <= MaxPayload(keys.sender)
        BY <2>1 DEF IInv, FrameKnown
  <2>3. sent \in 0 .. MaxWord
    <3>1. sent <= MSGSIZ_LONG
          BY <1>1, <2>2, Numbers DEF MaxPayload
    <3> QED BY <1>1, <3>1, Numbers
  <2> QED BY <1>1, <1>2, <1>3, <2>3 DEF Words
<1>4. CASE ~Deciphered
  <2>1. got.len \in LengthWords
    <3>1. Words = LengthWords
          BY <1>4 DEF Words
    <3> QED BY <1>2, <3>1
  <2> QED BY <1>1, <1>2, <2>1, WordAssumption, Zenon
<1> QED BY <1>3, <1>4

(* No payload is delivered whose length does not need the received blocks. *)
THEOREM LengthsAreCompatible == Wide => (Spec => []LengthCompatible)
<1> SUFFICES ASSUME Wide PROVE Spec => []LengthCompatible
    OBVIOUS
<1>1. IInv => LengthCompatible
      BY DeliveredLength, AcceptedLength DEF LengthCompatible
<1> QED BY Invariance, <1>1, PTL

(* The copies of decode_fec() and decrypt() stay inside their buffers. *)
THEOREM CopiesStayInside == Wide => (Spec => []CopiesFit)
<1> SUFFICES ASSUME Wide PROVE Spec => []CopiesFit
    OBVIOUS
<1>1. ASSUME IInv, phase = "fec", decoded.err # 999
      PROVE  decoded.net <= MsgSize(RecvCode(frame.len))
      BY <1>1, Sizes DEF IInv, TypeOK, DecodedKnown
<1>2. ASSUME IInv, phase = "delivered", got.err = 0, keys.receiver = NoKey
      PROVE  got.len <= decoded.net
      BY <1>2 DEF IInv, TypeOK, GotKnown
<1>3. ASSUME IInv, phase = "delivered", got.err = 0, keys.receiver # NoKey
      PROVE  Header + got.len <= decoded.net
  <2>1. /\ got.len \in 0 .. MaxWord /\ decoded.net \in Nat
        /\ DecryptError(decoded.net, got.len) = 0
        BY <1>3, DeliveredLength
  <2> QED BY <2>1, AcceptedLength
<1>4. IInv => CopiesFit
      BY <1>1, <1>2, <1>3 DEF CopiesFit
<1> QED BY Invariance, <1>4, PTL

(* What is sent, and damaged by no more than the code repairs, is received. *)
THEOREM RoundTrips == Wide => (Spec => []RoundTrip)
<1> SUFFICES ASSUME Wide PROVE Spec => []RoundTrip
    OBVIOUS
<1>1. ASSUME IInv, phase = "delivered", frame.maker = "own",
             keys.sender = keys.receiver,
             frame.bad * 2 <= Redundancy(SendCode(EncryptedLength(keys.sender, sent)))
      PROVE  got = [err |-> 0, len |-> sent, whole |-> TRUE]
  <2> DEFINE n == EncryptedLength(keys.sender, sent)
  <2>1. /\ RecvCode(frame.len) = SendCode(n) /\ RecvCode(frame.len) # "none"
        /\ NetLength(frame.len) = n /\ Truncated(n) = n
        BY <1>1, OwnFrame
  <2>2. Repairable
        BY <1>1, <2>1 DEF Repairable
  <2>3. decoded.err = 0 /\ decoded.whole /\ decoded.net = n
        BY <1>1, <2>1, <2>2 DEF IInv, DecodedKnown
  <2>4. Deciphered
        BY <1>1, <2>3 DEF Deciphered
  <2>5. got.err = 0 /\ got.len = sent /\ got.whole = Deciphered
    <3>1. CASE keys.receiver = NoKey
          BY <1>1, <2>3, <3>1 DEF IInv, GotKnown, EncryptedLength
    <3>2. CASE keys.receiver # NoKey
      <4>1. DecryptError(n, sent) = 0
            BY <1>1, <3>2, EncryptedFits
               DEF DecryptError, IInv, TypeOK, FrameKnown, BlockSize
      <4> QED BY <1>1, <2>3, <2>4, <3>2, <4>1 DEF IInv, GotKnown, Words
    <3> QED BY <3>1, <3>2
  <2>6. got.whole = TRUE
        BY <2>4, <2>5
  <2>7. got = [err |-> got.err, len |-> got.len, whole |-> got.whole]
        BY <1>1 DEF IInv, TypeOK
  <2> QED BY <2>5, <2>6, <2>7
<1>2. IInv => RoundTrip
      BY <1>1 DEF RoundTrip
<1> QED BY Invariance, <1>2, PTL
==============================================================================
