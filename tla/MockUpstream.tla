--------------------------- MODULE MockUpstream ---------------------------
(***************************************************************************)
(* The upstream the gateway is developed and demonstrated against          *)
(* (src/src/mock_upstream): it echoes the last message, in one body or as  *)
(* a stream of SSE lines whose pieces are words and the space between      *)
(* them or, on request, exactly n slices.                                  *)
(*                                                                         *)
(* It is the sender to the receiver in SseFraming; MCSseFraming puts the   *)
(* two together.                                                           *)
(***************************************************************************)
EXTENDS Integers, Sequences, SequencesExt

CONSTANTS
    Blank(_),    \* the characters \s matches
    Dumped(_)    \* json.dumps of a chunk object: no line ends within

NoDirective == 0

EchoedContent(messages) == IF messages = <<>> THEN <<>> ELSE Last(messages).content
-----------------------------------------------------------------------------
(* core/chunking.py and mock_upstream/chunking.py *)

\* The first Len(text) % n pieces are one longer; the last ones may be empty.
SplitIntoNChunks(text, n) ==
    LET base == Len(text) \div n
        remainder == Len(text) % n
        start(i) == base * (i - 1) + (IF i - 1 < remainder THEN i - 1 ELSE remainder)
    IN  [i \in 1..n |-> SubSeq(text, start(i) + 1, start(i + 1))]

\* Maximal runs of blank and of other characters.
DefaultTokenSplit(content) ==
    FoldLeft(LAMBDA pieces, ch :
                IF pieces # <<>> /\ Blank(Last(Last(pieces))) = Blank(ch)
                THEN Append(Front(pieces), Append(Last(pieces), ch))
                ELSE Append(pieces, <<ch>>),
             <<>>, content)

ResolveChunks(content, n) ==
    IF n # NoDirective THEN SplitIntoNChunks(content, n) ELSE DefaultTokenSplit(content)
-----------------------------------------------------------------------------
(* mock_upstream/main.py *)

ChunkObject(delta, content, finishReason) ==
    [delta |-> delta, content |-> content, finish_reason |-> finishReason]

Done == ChunkObject("[DONE]", <<>>, "none")

\* The objects of one streamed response, in the order in which they are yielded.
StreamResponse(content, n) ==
    LET pieces == ResolveChunks(content, n) IN
    <<ChunkObject("role", <<>>, "none")>>
    \o [i \in DOMAIN pieces |-> ChunkObject("content", pieces[i], "none")]
    \o <<ChunkObject("empty", <<>>, "stop"), Done>>

NonStreamingResponse(content) == ChunkObject("message", content, "stop")

ChatCompletions(request) ==
    LET content == EchoedContent(request.messages) IN
    IF request.stream THEN StreamResponse(content, request.chunking)
    ELSE <<NonStreamingResponse(content)>>

SseLine(dataField, space, lf, object) ==
    dataField \o <<space>> \o Dumped(object) \o <<lf, lf>>
=============================================================================
