----------------------------- MODULE PacketCipher -----------------------------
(***************************************************************************)
(* The two parts of the encryption of LoRaL2.cpp together: hashed_key()    *)
(* makes the key of 32 bytes out of what the application gives, and        *)
(* encrypt() and decrypt() use it.                                         *)
(***************************************************************************)
EXTENDS Sha256, BlockChain

CONSTANT Digest(_)   \* the bytes of the state, in the order result() puts them

cipherVars == <<shaVars, chainVars>>

(* hashed_key() ends: it takes as many bytes of the result as the key has. *)
HashedKey ==
    /\ spc = "done"
    /\ SetHashedKey(Digest(state))
    /\ UNCHANGED shaVars

CipherInit == ShaInit /\ ChainInit

CipherNext ==
    \/ ShaNext /\ UNCHANGED chainVars
    \/ HashedKey
    \/ ChainNext /\ UNCHANGED shaVars

CipherSpec == CipherInit /\ [][CipherNext]_cipherVars

(* The types of both parts, and the strengthening that is inductive. *)
CipherTypeOK == ShaTypeOK /\ ChainTypeOK
CipherInv == ShaInv /\ ChainInv
==============================================================================
