SPECIFICATION Spec
CONSTANTS
    Keys <- MCKeys
    Y <- MCY
    Rounds = 10
    RadixLists <- MCRadixLists
    MaxAttempts = 3
CHECK_DEADLOCK FALSE
INVARIANTS
    RoundTrip
    NeverLost
