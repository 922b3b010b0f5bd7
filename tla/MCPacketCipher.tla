---------------------------- MODULE MCPacketCipher ----------------------------
(* Model checking of PacketCipher with the real cipher and the real hash:    *)
(* keys whose padding ends in every part of a block, the packet of the       *)
(* encryption test, and one of four blocks with every pattern of damage.     *)
EXTENDS PacketCipher, Sha256Block, Aes256

(* The text hashed is the byte 2 and the key. *)
TextOf(key) == <<2>> \o key
abracadabra == <<97, 98, 114, 97, 99, 97, 100, 97, 98, 114, 97>>
KeyLengths == {0, 53, 54, 55, 61, 62, 63, 118}
MCTexts == {TextOf(abracadabra)}
               \cup {TextOf([k \in 1 .. n |-> (7 * k + n) % 256]) : n \in KeyLengths}

(* Uninitialised memory: zeros, or anything else. *)
MCLeftovers == {[o \in 0 .. 63 |-> 0], [o \in 0 .. 63 |-> 165]}

(* test.cpp: the packet hc_enc is "highcastle" under the key "abracadabra". *)
hc_iv == <<5, 183, 73, 105, 43, 39, 69, 61, 255, 30, 89, 201, 11, 134, 253, 62>>
hc_enc == <<hc_iv, <<106, 127, 124, 123, 173, 100, 90, 46, 197, 2, 254, 181, 0, 143, 22, 164>>>>
hc_plain == <<hc_iv, <<10, 0, 104, 105, 103, 104, 99, 97, 115, 116, 108, 101, 0, 0, 0, 0>>>>

Ramp(n) == [k \in 1 .. 16 |-> (n + 5 * k) % 256]
MCMessages == {hc_plain, <<hc_iv, Ramp(1), Ramp(2), Ramp(1)>>}
MCNoise == {Ramp(3)}

(* The ciphered packet that the test keeps is what encrypt() makes of the
   payload with that IV and that key: the hash, the key schedule, the cipher
   and the chain are those of the devices that made it. *)
KnownCiphertext ==
    cpc = "air" /\ text = TextOf(abracadabra) /\ plain = hc_plain => cipher = hc_enc
==============================================================================
