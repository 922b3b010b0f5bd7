SPECIFICATION CipherSpec
CONSTANTS
    Compress <- Compressed
    Expand <- ScheduleLeft
    States <- HashState
    InitState <- SHA256_INIT_STATE
    Leftovers <- MCLeftovers
    Texts <- MCTexts
    Digest <- BytesOf
    SetKey <- setKey
    Encipher <- encryptBlock
    Decipher <- decryptBlock
    XorBlock <- XorBytes
    Blocks <- CipherBlock
    HashedKeys <- Key
    Messages <- MCMessages
    Noise <- MCNoise
INVARIANTS
    CipherTypeOK
    PaddingConforms
    DamageConfined
    CipherInv
    KnownCiphertext
PROPERTY HashesWholeBlocks
