SPECIFICATION WindowSpec
CONSTANTS
    a = a
    b = b
    c = c
    x = x
    Chars <- MCChars
    Known <- MCKnown
    Lookahead <- MCLookahead
    Chunks <- MCChunks
    MaxText = 7
    Futures <- MCFutures
    MaxChunk = 3
    MaxFuture = 2
INVARIANTS
    NothingUnsettledReleased
    StreamedEqualsWhole
    RetentionBounded
