SPECIFICATION NetFairSpec
CONSTANTS
    a = a
    b = b
    c = c
    p1 = p1
    big = big
    NoPayload = NoPayload
    NoFrame = NoFrame
    Noise = Noise
    Stations <- MCStations
    Payloads <- MCPayloads
    Oversized <- MCOversized
    Hears <- MCHears
    KeyOf <- MCKeyOf
    Quota <- MCQuota
    CallbackSends = TRUE
    MaxReboots = 1
    MaxReports = 4
INVARIANTS
    NetTypeOK
    SilentStationsAreDeaf
    ReceiversListen
    NetInv
PROPERTIES
    ImplementsBroadcast
    FramesReported
