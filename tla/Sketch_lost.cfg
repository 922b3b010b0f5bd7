SPECIFICATION NodeSpec
CONSTANTS
    s1 = s1
    p1 = p1
    NoPayload = NoPayload
    Stations <- MCStations
    Payloads <- MCPayloads
    Oversized <- MCOversized
    CallbackSends = FALSE
    Board = s1
    MaxPackets = 4
PROPERTY LeftPacketHandled
