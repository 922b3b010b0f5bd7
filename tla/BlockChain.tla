------------------------------ MODULE BlockChain ------------------------------
(***************************************************************************)
(* The loops over cipher blocks of encrypt() and decrypt() in LoRaL2.cpp.  *)
(* Both work in place: encrypt() goes up the packet and scrambles a block  *)
(* with the one before it, which is ciphered already; decrypt() must find  *)
(* that block still ciphered, and goes down.  Block 0 of the code, which   *)
(* gen_iv() makes, is the first element of a sequence here.  Which lengths *)
(* are accepted and refused is FrameCodec's matter.                        *)
(*                                                                         *)
(* The AES256 object is a parameter: the schedule that setKey() makes of a *)
(* key and the two directions on a block.                                  *)
(***************************************************************************)
EXTENDS Integers, Sequences

CONSTANTS
    SetKey(_),       \* AES256: setKey(),
    Encipher(_, _),  \*   encryptBlock()
    Decipher(_, _),  \*   and decryptBlock()
    XorBlock(_, _),  \* byte by byte
    Blocks,          \* the values of a block
    HashedKeys,      \* the values of hkey
    Messages,        \* what encrypt() is called with: IV, length, payload
    Noise            \* what interference makes of a block

ASSUME MessageAssumption == \A m \in Messages : m \in Seq(Blocks) /\ Len(m) > 1
ASSUME NoiseAssumption == Noise \subseteq Blocks

VARIABLES
    hkey,      \* the member of LoRaL2
    cpc,       \* "keyless", "idle", "encrypt", "air", "decrypt", "done"
    schedule,  \* of the AES256 object of the running call
    packet,    \* buffer, buffer_interm
    i,         \* the index of both loops
    plain, cipher,  \* history: what encrypt() was given, what it returned
    received   \* what decrypt() is given

chainVars == <<hkey, cpc, schedule, packet, i, plain, cipher, received>>

ChainInit ==
    /\ cpc = "keyless" /\ hkey = <<>> /\ schedule = <<>>
    /\ packet = <<>> /\ plain = <<>> /\ cipher = <<>> /\ received = <<>>
    /\ i = 0

(* The constructor stores the hashed key. *)
SetHashedKey(k) ==
    /\ cpc = "keyless"
    /\ hkey' = k
    /\ cpc' = "idle"
    /\ UNCHANGED <<schedule, packet, i, plain, cipher, received>>

Encrypt(m) ==
    /\ cpc = "idle"
    /\ schedule' = SetKey(hkey)
    /\ plain' = m /\ packet' = m
    /\ i' = 1
    /\ cpc' = "encrypt"
    /\ UNCHANGED <<hkey, cipher, received>>

(* Seeded fault: the block before is taken as it was before it was ciphered. *)
EncryptStepInClear ==
    /\ cpc = "encrypt" /\ i < Len(packet)
    /\ packet' = [packet EXCEPT ![i + 1] =
                     Encipher(schedule, XorBlock(packet[i + 1], plain[i]))]
    /\ i' = i + 1
    /\ UNCHANGED <<hkey, cpc, schedule, plain, cipher, received>>

EncryptStep ==
    /\ cpc = "encrypt" /\ i < Len(packet)
    /\ packet' = [packet EXCEPT ![i + 1] =
                     Encipher(schedule, XorBlock(packet[i + 1], packet[i]))]
    /\ i' = i + 1
    /\ UNCHANGED <<hkey, cpc, schedule, plain, cipher, received>>

EncryptEnd ==
    /\ cpc = "encrypt" /\ i = Len(packet)
    /\ cpc' = "air"
    /\ cipher' = packet /\ received' = packet
    /\ UNCHANGED <<hkey, schedule, packet, i, plain>>

(* What the error correction lets through. *)
Interfere(b, noise) ==
    /\ cpc = "air"
    /\ received[b] = cipher[b] /\ noise # cipher[b]
    /\ received' = [received EXCEPT ![b] = noise]
    /\ UNCHANGED <<hkey, cpc, schedule, packet, i, plain, cipher>>

Decrypt ==
    /\ cpc = "air"
    /\ schedule' = SetKey(hkey)
    /\ packet' = received
    /\ i' = Len(received) - 1
    /\ cpc' = "decrypt"
    /\ UNCHANGED <<hkey, plain, cipher, received>>

(* Seeded fault: the block before is applied ahead of the cipher. *)
DecryptStepSwapped ==
    /\ cpc = "decrypt" /\ i >= 1
    /\ packet' = [packet EXCEPT ![i + 1] =
                     Decipher(schedule, XorBlock(packet[i + 1], packet[i]))]
    /\ i' = i - 1
    /\ UNCHANGED <<hkey, cpc, schedule, plain, cipher, received>>

DecryptStep ==
    /\ cpc = "decrypt" /\ i >= 1
    /\ packet' = [packet EXCEPT ![i + 1] =
                     XorBlock(Decipher(schedule, packet[i + 1]), packet[i])]
    /\ i' = i - 1
    /\ UNCHANGED <<hkey, cpc, schedule, plain, cipher, received>>

DecryptEnd ==
    /\ cpc = "decrypt" /\ i = 0
    /\ cpc' = "done"
    /\ UNCHANGED <<hkey, schedule, packet, i, plain, cipher, received>>

(* The copy is the caller's; nothing is kept for the next packet. *)
Return ==
    /\ cpc = "done"
    /\ cpc' = "idle"
    /\ UNCHANGED <<hkey, schedule, packet, i, plain, cipher, received>>

ChainNext ==
    \/ \E m \in Messages : Encrypt(m)
    \/ EncryptStep \/ EncryptEnd
    \/ \E b \in DOMAIN received, noise \in Noise : Interfere(b, noise)
    \/ Decrypt \/ DecryptStep \/ DecryptEnd \/ Return

------------------------------------------------------------------------------
(* Properties.                                                             *)

ChainTypeOK ==
    /\ cpc \in {"keyless", "idle", "encrypt", "air", "decrypt", "done"}
    /\ cpc # "keyless" => hkey \in HashedKeys
    /\ cpc \notin {"keyless", "idle"} =>
           /\ plain \in Messages
           /\ schedule = SetKey(hkey)
           /\ packet \in Seq(Blocks) /\ Len(packet) = Len(plain)
    /\ i \in Nat /\ i <= Len(packet)
    /\ cpc \in {"air", "decrypt", "done"} =>
           /\ cipher \in Seq(Blocks) /\ Len(cipher) = Len(plain)
           /\ received \in Seq(Blocks) /\ Len(received) = Len(plain)

(* A damaged block spoils itself and the block after it: every other block of
   the packet is deciphered to what was sent, both loops working in place in
   their opposite directions. *)
Intact(b) == received[b] = cipher[b]

DamageConfined ==
    cpc = "done" =>
        /\ Intact(1) => packet[1] = plain[1]
        /\ \A b \in 2 .. Len(plain) : Intact(b - 1) /\ Intact(b) => packet[b] = plain[b]

(* The inductive strengthening: which blocks the loop has been through. *)
Chained(c, b) == c[b] = Encipher(schedule, XorBlock(plain[b], c[b - 1]))

EncryptKnown ==
    cpc = "encrypt" =>
        /\ i >= 1 /\ packet[1] = plain[1]
        /\ \A b \in 2 .. Len(plain) : IF b <= i THEN Chained(packet, b)
                                                ELSE packet[b] = plain[b]

CipherKnown ==
    cpc \in {"air", "decrypt", "done"} =>
        cipher[1] = plain[1] /\ \A b \in 2 .. Len(plain) : Chained(cipher, b)

DecryptKnown ==
    cpc \in {"decrypt", "done"} =>
        /\ cpc = "done" => i = 0
        /\ i < Len(plain)
        /\ packet[1] = received[1]
        /\ \A b \in 2 .. Len(plain) :
              packet[b] = IF b <= i + 1 THEN received[b]
                          ELSE XorBlock(Decipher(schedule, received[b]), received[b - 1])

ChainInv == ChainTypeOK /\ EncryptKnown /\ CipherKnown /\ DecryptKnown
==============================================================================
