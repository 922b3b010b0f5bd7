SPECIFICATION Spec
CONSTANTS
    Order = 15
    ExpTable <- MCExpTable
    LogTable <- MCLogTable
    Add <- xor
    msg_length = 4
    ecc_length = 4
    Messages <- MCMessages
    Errors <- MCErrors
INVARIANT NeverAborts
