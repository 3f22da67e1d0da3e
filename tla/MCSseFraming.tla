--------------------------- MODULE MCSseFraming ---------------------------
(***************************************************************************)
(* SseFraming over every text of few characters in every chunking.  The    *)
(* field's name is two characters, so that a cut can fall within it; a     *)
(* line that starts with the second is a comment.                          *)
(***************************************************************************)
EXTENDS SseFraming

CONSTANTS cr, lf, space, d, colon

MCOthers == {d, colon}
MCDataField == <<d, colon>>

\* What json.dumps makes of a chunk: its kind and its text, whose LF is escaped.
MCDumped(object) ==
    <<object.delta, object.finish_reason>>
    \o [i \in DOMAIN object.content |-> IF object.content[i] = lf THEN "\\n" ELSE object.content[i]]

MCBlank(ch) == ch \in {space, lf}

Mock == INSTANCE MockUpstream WITH Blank <- MCBlank, Dumped <- MCDumped

Contents == BoundedSeq({space, lf, d}, 5)
Directives == 0..7

Asked(content, n) ==
    [messages |-> <<[content |-> <<d>>], [content |-> content]>>, stream |-> TRUE, chunking |-> n]

\* However the mock splits a text, its pieces make up the text again, a directive is taken
\* at its word and the pieces differ by one character at most ("pieces that concatenate
\* back to text exactly", core/chunking.py).
ASSUME MockSplitsExactly ==
    \A content \in Contents, n \in Directives :
        LET pieces == Mock!ResolveChunks(content, n) IN
        /\ FlattenSeq(pieces) = content
        /\ n # 0 => /\ Len(pieces) = n
                    /\ \A i, j \in 1..n : Len(pieces[i]) \in {Len(pieces[j]) - 1, Len(pieces[j]),
                                                              Len(pieces[j]) + 1}
        /\ n = 0 => \A i \in DOMAIN pieces : pieces[i] # <<>>

\* The gateway's parser finds in the mock's stream the objects the mock has put there.
ASSUME MockIsUnderstood ==
    \A content \in Contents, n \in Directives :
        LET objects == Mock!ChatCompletions(Asked(content, n))
            lines == [i \in DOMAIN objects |-> Mock!SseLine(DataField, Space, Lf, objects[i])]
        IN  EventsIn(FlattenSeq(lines)) = [i \in DOMAIN objects |-> MCDumped(objects[i])]
=============================================================================
