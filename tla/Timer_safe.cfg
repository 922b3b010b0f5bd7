SPECIFICATION TimerSpec
CONSTANTS
    Modulus = 30
    Half = 4
    LoopTime = 3
    SendTime = 2
INVARIANTS
    LateOnlyAcrossWrap
    TimerInv
PROPERTIES
    EarlyOnlyBeforeWrap
    MissedForAPeriod
