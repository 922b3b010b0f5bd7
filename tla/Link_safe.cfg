SPECIFICATION FairSpec
CONSTANTS
    s1 = s1
    s2 = s2
    p1 = p1
    p2 = p2
    big = big
    NoPayload = NoPayload
    Stations <- MCStations
    Payloads <- MCPayloads
    Oversized <- MCOversized
    CallbackSends = TRUE
INVARIANTS
    TypeOK
    StatusMatchesRadio
    CodersNotShared
    OnePacketPerFrame
    IInv
PROPERTY ImplementsService
PROPERTY TransmissionEnds
