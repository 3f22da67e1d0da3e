SPECIFICATION Spec
CONSTANTS
    cr = cr
    lf = lf
    space = space
    d = d
    colon = colon
    Cr = cr
    Lf = lf
    Space = space
    Others <- MCOthers
    DataField <- MCDataField
    MaxText = 7
    MaxChunk = 2
CHECK_DEADLOCK FALSE
INVARIANTS
    FramedAsWhole
