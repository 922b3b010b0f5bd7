SPECIFICATION Spec
CONSTANTS
    k1 = k1
    k2 = k2
    NoKey = NoKey
    Keys <- MCKeys
    Lengths <- MCLengths
    ForeignLengths <- MCForeignLengths
    Damages <- MCDamages
    LengthWords <- MCLengthWords
    SizeModulus = 1048576
INVARIANT DocumentedMaximum
