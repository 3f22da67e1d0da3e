SPECIFICATION WindowSpec
CONSTANTS
    a = a
    b = b
    c = c
    x = x
    Chars <- MCChars
    Known <- MCKnownPrefix
    Lookahead <- MCLookahead
    Chunks <- MCChunks
    MaxText = 4
    Futures <- MCFutures
    MaxChunk = 3
    MaxFuture = 2
INVARIANTS
    RestoredAcrossAnyBoundary
