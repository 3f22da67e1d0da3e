-------------------------- MODULE MCSlidingWindow --------------------------
(***************************************************************************)
(* SlidingWindow over registries like those of the code, in which nothing  *)
(* keeps surrogates and real values apart.  In MCKnown one surrogate       *)
(* begins with another, a third ends with what the first two begin with,   *)
(* one real value is longer than the lookahead and ends like the beginning *)
(* of a surrogate, and another is itself a surrogate.  MCKnownPrefix is    *)
(* the "Priya Khan" / "Priya Khanna" pair of rehydrate's docstring, and    *)
(* nothing else.                                                           *)
(***************************************************************************)
EXTENDS SlidingWindow, FiniteSetsExt, TLC

CONSTANTS a, b, c, x, MaxChunk, MaxFuture

MCChars == {a, b, c, x}

MCKnown ==
    (<<a, b>> :> <<x, x, x, a>>) @@ (<<a, b, c>> :> <<x>>) @@ (<<c, x, a>> :> <<a, b>>)
MCKnownPrefix == (<<a, b>> :> <<x>>) @@ (<<a, b, c>> :> <<x, x>>)

\* REQUIRED_WINDOW_LOOKAHEAD: the longest surrogate.
MCLookahead == Max({Len(s) : s \in DOMAIN Known})

MCChunks == BoundedSeq(MCChars, MaxChunk)
MCFutures == BoundedSeq(MCChars, MaxFuture)

\* The responses of the properties are not only those without a surrogate: both
\* surrogates of the pair occur in some, two surrogates touch, and a real value is put
\* in that is another one's surrogate, or looks like the beginning of one.
ASSUME MCStanding ==
    /\ Standing(MCKnown, <<a, b, x>>) /\ ~Standing(MCKnown, <<a, b, c>>)
    /\ Standing(MCKnown, <<b, a, b, a, b>>)
    /\ ~Standing(MCKnown, <<c, x, a>>)
=============================================================================
