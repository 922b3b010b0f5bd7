------------------------------ MODULE FrameCodec ------------------------------
(***************************************************************************)
(* What LoRaL2.cpp does to the length and the integrity of a packet on its *)
(* way through encrypt(), append_fec(), the air, decode_fec() and          *)
(* decrypt().  The bytes are abstracted to the facts the code depends on:  *)
(* how many there are, which Reed-Solomon code and key they were made      *)
(* with, how many are damaged, and whether they still are what was sent.   *)
(*                                                                         *)
(* The coders are taken by their contract, half as many damaged bytes as   *)
(* there are redundancy bytes are repaired; the cipher by its own, another *)
(* key than the sender's yields a length word that may be anything.        *)
(***************************************************************************)
EXTENDS Naturals

CONSTANTS
    Lengths,        \* payload lengths the application tries
    ForeignLengths, \* lengths of frames heard from other kinds of device
    Damages,        \* how many bytes of a frame interference changes
    LengthWords,    \* what a length word may be deciphered to
    Keys, NoKey,    \* the keys in use; NoKey is cleartext operation
    SizeModulus     \* size_t wraps at this value

ASSUME LengthAssumption == Lengths \subseteq Nat /\ ForeignLengths \subseteq Nat
ASSUME DamageAssumption == Damages \subseteq Nat

MaxWord == 65535   \* a length word has two bytes
ASSUME WordAssumption == LengthWords \subseteq 0 .. MaxWord
ASSUME KeyAssumption == NoKey \notin Keys
ASSUME SizeAssumption == SizeModulus \in Nat /\ SizeModulus >= 65536

VARIABLES
    phase,    \* "idle", "refused", "air", "fec", "delivered"
    keys,     \* the sender's and the receiver's key
    sent,     \* the payload length given to send()
    frame,    \* on the air: length, who made it ("own" or "foreign"), damage
    decoded,  \* after decode_fec(): error, net length, still what was sent
    got       \* what the observer receives

codecVars == <<phase, keys, sent, frame, decoded, got>>

------------------------------------------------------------------------------
(* The sizes.                                                              *)

MSGSIZ_SHORT == 50
MSGSIZ_MEDIUM == 100
MSGSIZ_LONG == 230
REDUNDANCY_SHORT == 10
REDUNDANCY_MEDIUM == 14
REDUNDANCY_LONG == 20
CRYPTO_LENGTH_LEN == 2
BlockSize == 16
Header == BlockSize + CRYPTO_LENGTH_LEN   \* the IV and the length word

MsgSize(code) == IF code = "short" THEN MSGSIZ_SHORT
                 ELSE IF code = "medium" THEN MSGSIZ_MEDIUM ELSE MSGSIZ_LONG
Redundancy(code) == IF code = "short" THEN REDUNDANCY_SHORT
                    ELSE IF code = "medium" THEN REDUNDANCY_MEDIUM ELSE REDUNDANCY_LONG

(* Seeded fault: max_payload() forgets the round-up to whole blocks. *)
MaxPayloadNoRoundUp(key) ==
    IF key = NoKey THEN MSGSIZ_LONG ELSE MSGSIZ_LONG - Header

MaxPayload(key) ==
    IF key = NoKey THEN MSGSIZ_LONG
                   ELSE MSGSIZ_LONG - BlockSize * 2 - CRYPTO_LENGTH_LEN

(* size_t arithmetic on operands in range: a sum or a decrement wraps at
   most once. *)
Plus(a, b) == IF a + b >= SizeModulus THEN a + b - SizeModulus ELSE a + b
Decrement(a) == IF a = 0 THEN SizeModulus - 1 ELSE a - 1

(* How many cipher blocks the code computes for n bytes of payload. *)
BlocksFor(n) == (Decrement(Plus(Header, n)) \div BlockSize) + 1

EncryptedLength(key, n) == IF key = NoKey THEN n ELSE BlocksFor(n) * BlockSize

------------------------------------------------------------------------------
(* The sender.                                                             *)

Truncated(n) == IF n > MSGSIZ_LONG THEN MSGSIZ_LONG ELSE n

SendCode(n) == IF n <= MSGSIZ_SHORT THEN "short"
               ELSE IF n <= MSGSIZ_MEDIUM THEN "medium" ELSE "long"

FecLength(n) == Truncated(n) + Redundancy(SendCode(Truncated(n)))

Send(n) ==
    /\ phase = "idle"
    /\ n <= MaxPayload(keys.sender)
    /\ phase' = "air"
    /\ sent' = n
    /\ frame' = [len |-> FecLength(EncryptedLength(keys.sender, n)),
                 maker |-> "own", bad |-> 0]
    /\ UNCHANGED <<keys, decoded, got>>

SendRefused(n) ==
    /\ phase = "idle"
    /\ n > MaxPayload(keys.sender)
    /\ phase' = "refused"
    /\ sent' = n
    /\ UNCHANGED <<keys, frame, decoded, got>>

(* CRC is off and the network has no address: any frame is decoded. *)
HearForeign(n) ==
    /\ phase = "idle"
    /\ phase' = "air"
    /\ frame' = [len |-> n, maker |-> "foreign", bad |-> 0]
    /\ UNCHANGED <<keys, sent, decoded, got>>

(* Interference changes bytes; explicit mode keeps the length. *)
Interfere(d) ==
    /\ phase = "air"
    /\ frame.bad = 0 /\ d <= frame.len
    /\ frame' = [len |-> frame.len, maker |-> frame.maker, bad |-> d]
    /\ UNCHANGED <<phase, keys, sent, decoded, got>>

------------------------------------------------------------------------------
(* decode_fec(): the code is chosen by the total length.                   *)

(* Seeded faults: the first boundary is off by one; the boundaries forget
   that the length includes the redundancy. *)
RecvCodeOffByOne(len) ==
    IF len < REDUNDANCY_SHORT \/ len > MSGSIZ_LONG + REDUNDANCY_LONG THEN "none"
    ELSE IF len < MSGSIZ_SHORT + REDUNDANCY_SHORT THEN "short"
    ELSE IF len <= MSGSIZ_MEDIUM + REDUNDANCY_MEDIUM THEN "medium" ELSE "long"

RecvCodeByMessageSize(len) ==
    IF len < REDUNDANCY_SHORT \/ len > MSGSIZ_LONG + REDUNDANCY_LONG THEN "none"
    ELSE IF len <= MSGSIZ_SHORT THEN "short"
    ELSE IF len <= MSGSIZ_MEDIUM THEN "medium" ELSE "long"

RecvCode(len) ==
    IF len < REDUNDANCY_SHORT \/ len > MSGSIZ_LONG + REDUNDANCY_LONG THEN "none"
    ELSE IF len <= MSGSIZ_SHORT + REDUNDANCY_SHORT THEN "short"
    ELSE IF len <= MSGSIZ_MEDIUM + REDUNDANCY_MEDIUM THEN "medium" ELSE "long"

FecError(code) == IF code = "none" THEN 999
                  ELSE IF code = "short" THEN 998
                  ELSE IF code = "medium" THEN 997 ELSE 996

(* Seeded fault: a frame shorter than any redundancy is not singled out. *)
NetLengthUnchecked(len) == len - Redundancy(RecvCode(len))

NetLength(len) ==
    IF RecvCode(len) = "none" THEN 0 ELSE len - Redundancy(RecvCode(len))

(* The coder repairs a frame that was made with the same code and is not
   too damaged. *)
Repairable ==
    /\ frame.maker = "own"
    /\ RecvCode(frame.len) = SendCode(Truncated(EncryptedLength(keys.sender, sent)))
    /\ frame.bad * 2 <= Redundancy(RecvCode(frame.len))

DecodeFec ==
    /\ phase = "air"
    /\ phase' = "fec"
    /\ LET code == RecvCode(frame.len)
           result(e, w) == [err |-> e, net |-> NetLength(frame.len), whole |-> w]
       IN  decoded' \in IF code = "none" THEN {result(999, FALSE)}
                        ELSE IF Repairable THEN {result(0, TRUE)}
                        ELSE {result(FecError(code), FALSE), result(0, FALSE)}
    /\ UNCHANGED <<keys, sent, frame, got>>

------------------------------------------------------------------------------
(* decrypt().                                                              *)

(* Seeded faults: the length word is believed; it is only checked not to
   need more blocks than there are. *)
DecryptErrorBelieving(net, word) ==
    IF net < 2 * BlockSize THEN 1001 ELSE IF net % BlockSize # 0 THEN 1002 ELSE 0

DecryptErrorAtMost(net, word) ==
    IF net < 2 * BlockSize THEN 1001
    ELSE IF net % BlockSize # 0 THEN 1002
    ELSE IF net \div BlockSize < BlocksFor(word) THEN 1003 ELSE 0

DecryptError(net, word) ==
    IF net < 2 * BlockSize THEN 1001
    ELSE IF net % BlockSize # 0 THEN 1002
    ELSE IF net \div BlockSize # BlocksFor(word) THEN 1003
    ELSE 0

(* The length word of an intact packet under the right key is the sender's,
   any other is noise. *)
Deciphered == decoded.whole /\ keys.receiver = keys.sender
Words == IF Deciphered THEN {sent} ELSE LengthWords

(* on_recv() after decode_fec(): a FEC error skips the decryption, and a
   packet in error is handed over as it was received. *)
Deliver ==
    /\ phase = "fec"
    /\ phase' = "delivered"
    /\ \/ /\ decoded.err # 0
          /\ got' = [err |-> decoded.err, len |-> decoded.net, whole |-> FALSE]
       \/ /\ decoded.err = 0 /\ keys.receiver = NoKey
          /\ got' = [err |-> 0, len |-> decoded.net, whole |-> Deciphered]
       \/ /\ decoded.err = 0 /\ keys.receiver # NoKey
          /\ \E word \in Words :
                LET err == DecryptError(decoded.net, word)
                IN  got' = IF err = 0
                           THEN [err |-> 0, len |-> word, whole |-> Deciphered]
                           ELSE [err |-> err, len |-> decoded.net, whole |-> FALSE]
    /\ UNCHANGED <<keys, sent, frame, decoded>>

NoFrame == [len |-> 0, maker |-> "foreign", bad |-> 0]
NotDecoded == [err |-> 999, net |-> 0, whole |-> FALSE]
NotGot == [err |-> 999, len |-> 0, whole |-> FALSE]

(* No handler keeps anything of one frame for the next. *)
NextFrame == /\ phase \in {"refused", "delivered"}
             /\ phase' = "idle"
             /\ sent' = 0 /\ frame' = NoFrame /\ decoded' = NotDecoded /\ got' = NotGot
             /\ UNCHANGED keys

------------------------------------------------------------------------------
Init ==
    /\ phase = "idle"
    /\ keys \in [sender : Keys \cup {NoKey}, receiver : Keys \cup {NoKey}]
    /\ sent = 0 /\ frame = NoFrame /\ decoded = NotDecoded /\ got = NotGot

Next == \/ \E n \in Lengths : Send(n) \/ SendRefused(n)
        \/ \E n \in ForeignLengths : HearForeign(n)
        \/ \E d \in Damages : Interfere(d)
        \/ DecodeFec \/ Deliver \/ NextFrame

Spec == Init /\ [][Next]_codecVars

------------------------------------------------------------------------------
(* Properties.                                                             *)

TypeOK ==
    /\ phase \in {"idle", "refused", "air", "fec", "delivered"}
    /\ keys \in [sender : Keys \cup {NoKey}, receiver : Keys \cup {NoKey}]
    /\ sent \in Nat
    /\ frame \in [len : Nat, maker : {"own", "foreign"}, bad : Nat]
    /\ decoded \in [err : {0, 996, 997, 998, 999}, net : Nat, whole : BOOLEAN]
    /\ got \in [err : {0, 996, 997, 998, 999, 1001, 1002, 1003},
                len : Nat, whole : BOOLEAN]

(* A packet that send() accepted and that lost no more than half its
   redundancy reaches an observer with the same key with no error, whole and
   with its own length: padding, block round-up and the choice of the code by
   total length on one side and by message length on the other cancel out. *)
RoundTrip ==
    phase = "delivered" /\ frame.maker = "own" /\ keys.sender = keys.receiver
        /\ frame.bad * 2 <= Redundancy(SendCode(EncryptedLength(keys.sender, sent)))
    => got = [err |-> 0, len |-> sent, whole |-> TRUE]

(* "safety measure, should never happen": max_payload() keeps append_fec()
   from cutting a packet short, with and without a key. *)
NeverTruncated ==
    phase = "air" /\ frame.maker = "own" =>
        EncryptedLength(keys.sender, sent) <= MSGSIZ_LONG

(* The error code tells which code the sender used, as the tests expect:
   the boundaries of the two length classifications agree. *)
ErrorNamesCode ==
    phase = "delivered" /\ frame.maker = "own" /\ got.err \in 996 .. 999 =>
        got.err = FecError(SendCode(EncryptedLength(keys.sender, sent)))

(* The copies stay inside their buffers and the redundancy does not overwrite
   the message: for any frame, of any length and content, a net length fits
   the message of its code; a length accepted by decrypt() is inside the
   deciphered blocks, so that the zero byte after it is there for the sketch
   to print the payload as a string. *)
CopiesFit ==
    /\ phase = "fec" /\ decoded.err # 999 =>
           decoded.net <= MsgSize(RecvCode(frame.len))
    /\ phase = "delivered" /\ got.err = 0 =>
           IF keys.receiver = NoKey THEN got.len <= decoded.net
                                    ELSE Header + got.len <= decoded.net

(* "block incompatible with alleged payload length": a payload that is not
   refused as incompatible needs exactly the blocks that were received. *)
LengthCompatible ==
    phase = "delivered" /\ got.err = 0 /\ keys.receiver # NoKey =>
        decoded.net = ((Header + got.len - 1) \div BlockSize + 1) * BlockSize

(* README: "If encryption is on, maximum payload is 198 octets". *)
DocumentedMaximum == phase = "refused" /\ keys.sender # NoKey => sent > 198

(* What is known of a frame at each phase: the inductive strengthening of the
   properties above when size_t is wider than 16 bits. *)
Agreed(n) == RecvCode(FecLength(n)) = SendCode(n) /\ NetLength(FecLength(n)) = n

FrameKnown ==
    phase \in {"air", "fec", "delivered"} /\ frame.maker = "own" =>
        /\ sent <= MaxPayload(keys.sender)
        /\ frame.len = FecLength(EncryptedLength(keys.sender, sent))

DecodedKnown ==
    phase \in {"fec", "delivered"} =>
        /\ decoded.net = NetLength(frame.len)
        /\ decoded.err \in {0, FecError(RecvCode(frame.len))}
        /\ RecvCode(frame.len) = "none" => decoded.err = 999
        /\ RecvCode(frame.len) # "none" /\ Repairable => decoded.err = 0
        /\ decoded.whole <=> RecvCode(frame.len) # "none" /\ Repairable

GotKnown ==
    phase = "delivered" =>
        \/ decoded.err # 0 /\ got.err = decoded.err
        \/ /\ decoded.err = 0 /\ keys.receiver = NoKey
           /\ got.err = 0 /\ got.len = decoded.net /\ got.whole = Deciphered
        \/ /\ decoded.err = 0 /\ keys.receiver # NoKey
           /\ \E word \in Words :
                 /\ got.err = DecryptError(decoded.net, word)
                 /\ got.err = 0 => got.len = word /\ got.whole = Deciphered

IInv == TypeOK /\ FrameKnown /\ DecodedKnown /\ GotKnown
==============================================================================
