SPECIFICATION NodeFairSpec
CONSTANTS
    s1 = s1
    p1 = p1
    NoPayload = NoPayload
    Stations <- MCStations
    Payloads <- MCPayloads
    Oversized <- MCOversized
    CallbackSends = FALSE
    Board = s1
    MaxPackets = 4
INVARIANTS
    NodeTypeOK
    DanglingConfined
    NodeInv
PROPERTIES
    FaultsNeedTheWindow
    ShownInOrder
    PendingShown
INVARIANT BeginNeverRefused
