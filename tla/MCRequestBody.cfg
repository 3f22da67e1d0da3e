SPECIFICATION Spec
CONSTANTS
    Permute <- MCPermute
    Unpermute <- MCUnpermute
    Keys = {1, 3, 4, 7}
    Bodies <- MCBodies
    ProtocolWords <- MCProtocolWords
INVARIANTS
    BodyRestored
    NothingLeft
    UntouchedVerbatim
    StillDetected
    DomainsAgree
    WithinMargin
CHECK_DEADLOCK FALSE
