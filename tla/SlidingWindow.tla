--------------------------- MODULE SlidingWindow ---------------------------
(***************************************************************************)
(* SlidingWindow (src/src/pipeline/sliding_window.py): the buffer between  *)
(* the chunks an upstream streams and the text released to the client.     *)
(* `transform' is what the response path injects: rehydrate, over a        *)
(* registry that does not change while the response lasts.  No surrogate   *)
(* is longer than `lookahead' (REQUIRED_WINDOW_LOOKAHEAD, rehydrate.py).   *)
(* Surrogates may be parts of each other, and real values may look like    *)
(* surrogates.                                                             *)
(***************************************************************************)
EXTENDS Integers, Sequences, SequencesExt, Rehydration

CONSTANTS
    Chars,      \* characters
    Known,      \* the session's surrogates, each with its real value
    Lookahead,  \* _lookahead
    Chunks,     \* the chunks that may be fed
    MaxText,    \* bound of the text fed in all
    Futures     \* the continuations of a stream that the properties look at

ASSUME WindowAssumptions ==
    /\ DOMAIN Known \subseteq Seq(Chars)
    /\ \A s \in DOMAIN Known : Known[s] \in Seq(Chars) /\ s # <<>> /\ Len(s) <= Lookahead
    /\ Lookahead \in Nat
    /\ MaxText \in Nat
    /\ Chunks \subseteq Seq(Chars)
    /\ Futures \subseteq Seq(Chars)

VARIABLES
    buffer,    \* _buffer
    flushed,   \* _flushed
    received,  \* history: everything fed
    released   \* history: everything returned

windowVars == <<buffer, flushed, received, released>>

WindowTypeOK ==
    /\ buffer \in Seq(Chars)
    /\ flushed \in BOOLEAN
    /\ received \in Seq(Chars)
    /\ released \in Seq(Chars)

WindowInit ==
    /\ buffer = <<>>
    /\ flushed = FALSE
    /\ received = <<>>
    /\ released = <<>>
-----------------------------------------------------------------------------
\* _transform
Transform(text) == Rehydrate(Known, text)

\* The part of the retained text that is let go, and the part that is kept.
Excess(text) ==
    IF Len(text) <= Lookahead THEN <<>> ELSE SubSeq(text, 1, Len(text) - Lookahead)
Kept(text) ==
    IF Len(text) <= Lookahead THEN text
    ELSE SubSeq(text, Len(text) - Lookahead + 1, Len(text))

\* Mutant: the transform is applied to what is released, after the slice.
FeedSliceFirst(chunk) ==
    LET text == buffer \o chunk IN
    /\ ~flushed
    /\ buffer' = Kept(text)
    /\ released' = released \o Transform(Excess(text))
    /\ received' = received \o chunk
    /\ UNCHANGED flushed

\* Mutant: everything is released as soon as more than the lookahead is there.
FeedReleaseAll(chunk) ==
    LET text == Transform(buffer \o chunk) IN
    /\ ~flushed
    /\ buffer' = IF Len(text) <= Lookahead THEN text ELSE <<>>
    /\ released' = released \o (IF Len(text) <= Lookahead THEN <<>> ELSE text)
    /\ received' = received \o chunk
    /\ UNCHANGED flushed

\* feed: the whole retained text is transformed before the slice.
Feed(chunk) ==
    LET text == Transform(buffer \o chunk) IN
    /\ ~flushed
    /\ buffer' = Kept(text)
    /\ released' = released \o Excess(text)
    /\ received' = received \o chunk
    /\ UNCHANGED flushed

\* Mutant: flush leaves the buffer behind.
FlushNothing ==
    /\ ~flushed
    /\ flushed' = TRUE
    /\ UNCHANGED <<buffer, received, released>>

\* flush: everything that is left goes, transformed once more.
Flush ==
    /\ ~flushed
    /\ flushed' = TRUE
    /\ buffer' = <<>>
    /\ released' = released \o Transform(buffer)
    /\ UNCHANGED received

\* feed or flush of a closed window raises RuntimeError and changes nothing.
Raise == flushed /\ UNCHANGED windowVars

WindowNext ==
    \/ \E chunk \in Chunks : Len(received) + Len(chunk) <= MaxText /\ Feed(chunk)
    \/ Flush
    \/ Raise

WindowSpec == WindowInit /\ [][WindowNext]_windowVars
-----------------------------------------------------------------------------
(* Properties *)

\* "Never emit a byte that could still be part of an unmatched surrogate"
\* (ARCHITECTURE.md): what has been released is settled, whatever comes next, of every
\* response in which the surrogates stand apart.
NothingUnsettledReleased ==
    ~flushed => \A future \in Futures :
                    Standing(Known, received \o future) =>
                        IsPrefix(released, Transform(received \o future))

\* Once flushed, the client has what one pass over the whole response gives, however
\* it was cut into chunks, if the surrogates stand apart in it.
StreamedEqualsWhole ==
    flushed /\ Standing(Known, received) => released = Transform(received)

\* "Real values are restored in the response correctly across arbitrary SSE chunk
\* boundaries" (README.md), and of two surrogates that both match, "the longer one
\* wins" (rehydrate.py): the same of every response, also where one surrogate begins
\* with another, like "Priya Khan" and "Priya Khanna".
RestoredAcrossAnyBoundary == flushed => released = Transform(received)

\* The window retains a bounded amount of text, however long the response and
\* however long the values it puts in.
RetentionBounded == Len(buffer) <= Lookahead /\ (flushed => buffer = <<>>)
=============================================================================
