---------------------------- MODULE RequestBody ----------------------------
(***************************************************************************)
(* One body on its way out and back: sanitize (src/src/pipeline/           *)
(* sanitize.py) walks it, replaces what the Tier-1 detectors find in each  *)
(* field and rebuilds it; the upstream answers with the strings it was     *)
(* sent; rehydrate_body (rehydrate.py) walks the answer, puts the values   *)
(* back and rebuilds that.  The field walker, the detectors and the        *)
(* surrogate domains are composed here as they are, character by           *)
(* character.  Tier 2 and its names are in Session and Gateway.            *)
(***************************************************************************)
EXTENDS FieldWalker, Tier1Detectors

CONSTANTS
    Permute(_, _, _, _), Unpermute(_, _, _, _),
    Keys,
    Bodies,         \* the request bodies of the run
    ProtocolWords   \* allowed_values of messages[].role

INSTANCE SurrogateDomains

VARIABLES
    body,           \* the request's body, then untouched
    key,
    phase,
    fields,         \* the regions walk() has found and the loop has yet to do
    substitutions,
    known,          \* the session's surrogates, each with its type
    sent,           \* what sanitize returned
    answer          \* the upstream's answer, then what rehydrate_body returned

vars == <<body, key, phase, fields, substitutions, known, sent, answer>>

Init ==
    /\ body \in Bodies
    /\ key \in Keys
    /\ phase = "sanitizing"
    /\ fields = Walk(body, <<>>)
    /\ substitutions = <<>>
    /\ known = <<>>
    /\ sent = Scalar
    /\ answer = Scalar
-----------------------------------------------------------------------------
(* sanitize *)

Value(text, span) == SubSeq(text, span.start, span.end)

\* The spans of a text that are not surrogates of this session.
Fresh(text) == {s \in Detected(text) : Value(text, s) \notin DOMAIN known}

SurrogateOf(text, span) == Encrypted(span.type, Value(text, span), key)

\* What the spans S add to the registry; the loop goes from the last one to the first.
Recorded(text, S) ==
    [g \in {SurrogateOf(text, s) : s \in S} |->
        (CHOOSE s \in S : SurrogateOf(text, s) = g
                          /\ \A t \in S : SurrogateOf(text, t) = g => s.start <= t.start).type]

\* The text with the spans S replaced.
Spliced(text, S) ==
    LET from[i \in 1..(Len(text) + 1)] ==
            IF i > Len(text) THEN <<>>
            ELSE IF \E s \in S : s.start = i
                 THEN LET s == CHOOSE s \in S : s.start = i
                      IN  SurrogateOf(text, s) \o from[s.end + 1]
                 ELSE <<text[i]>> \o from[i + 1]
    IN  from[1]

Substituted(path, text) ==
    [p \in DOMAIN substitutions \cup {path} |-> IF p = path THEN text ELSE substitutions[p]]

SkipProtocolWord ==
    /\ phase = "sanitizing" /\ fields # <<>>
    /\ IsProtocolEnumValue(Head(fields).path, Head(fields).text, ProtocolWords)
    /\ fields' = Tail(fields)
    /\ UNCHANGED <<body, key, phase, substitutions, known, sent, answer>>

SanitizeField ==
    LET text == Head(fields).text
        fresh == Fresh(text)
    IN
    /\ phase = "sanitizing" /\ fields # <<>>
    /\ ~IsProtocolEnumValue(Head(fields).path, text, ProtocolWords)
    /\ \A s \in fresh : SurrogateOf(text, s) # NoSurrogate
    /\ substitutions' = IF fresh = {} THEN substitutions
                        ELSE Substituted(Head(fields).path, Spliced(text, fresh))
    /\ known' = Recorded(text, fresh) @@ known
    /\ fields' = Tail(fields)
    /\ UNCHANGED <<body, key, phase, sent, answer>>

\* SurrogateDomainError: the spans behind the refused one are recorded by then.
RefuseField ==
    LET text == Head(fields).text
        fresh == Fresh(text)
        refused == {s \in fresh : SurrogateOf(text, s) = NoSurrogate}
    IN
    /\ phase = "sanitizing" /\ fields # <<>>
    /\ ~IsProtocolEnumValue(Head(fields).path, text, ProtocolWords)
    /\ refused # {}
    /\ known' = Recorded(text, {s \in fresh : \A r \in refused : s.start > r.start}) @@ known
    /\ phase' = "refused"
    /\ UNCHANGED <<body, key, fields, substitutions, sent, answer>>

Forward ==
    /\ phase = "sanitizing" /\ fields = <<>>
    /\ sent' = Rebuild(body, <<>>, substitutions)
    /\ phase' = "sent"
    /\ UNCHANGED <<body, key, fields, substitutions, known, answer>>
-----------------------------------------------------------------------------
(* The upstream, which repeats what it was sent: as it is, as the contents of its
   choices, or as the arguments of its tool calls *)

Said(node) == [i \in 1..Len(Walk(node, <<>>)) |-> Walk(node, <<>>)[i].text]

AnswerOf(key_, string(_), texts) ==
    Object(<<<<"choices",
              List([i \in 1..Len(texts) |-> Object(<<<<key_, string(texts[i])>>>>)])>>>>)

AsArgument(text) == Json(Object(<<<<"value", Text(text)>>>>), "sender")

Answer ==
    /\ phase = "sent"
    /\ answer' \in {sent, AnswerOf("content", Text, Said(sent)),
                    AnswerOf("arguments", AsArgument, Said(sent))}
    /\ fields' = Walk(answer', <<>>)
    /\ substitutions' = <<>>
    /\ phase' = "rehydrating"
    /\ UNCHANGED <<body, key, known, sent>>
-----------------------------------------------------------------------------
(* rehydrate_body *)

\* _pattern_for: the surrogates that begin at a place, the longest first.
SurrogatesAt(text, i) ==
    {g \in DOMAIN known : i + Len(g) - 1 <= Len(text) /\ SubSeq(text, i, i + Len(g) - 1) = g}

Rehydrated(text) ==
    LET from[i \in 1..(Len(text) + 1)] ==
            IF i > Len(text) THEN <<>>
            ELSE IF SurrogatesAt(text, i) # {}
                 THEN LET g == CHOOSE g \in SurrogatesAt(text, i) :
                                  \A h \in SurrogatesAt(text, i) : Len(h) <= Len(g)
                      IN  Decrypted(known[g], g, key) \o from[i + Len(g)]
                 ELSE <<text[i]>> \o from[i + 1]
    IN  from[1]

\* A surrogate its own domain does not accept is a SurrogateDomainError.
RehydrateField ==
    LET text == Head(fields).text
        fails == \E i \in 1..Len(text) : \E g \in SurrogatesAt(text, i) :
                    Decrypted(known[g], g, key) = NoSurrogate
    IN
    /\ phase = "rehydrating" /\ fields # <<>>
    /\ substitutions' = IF Rehydrated(text) = text THEN substitutions
                        ELSE Substituted(Head(fields).path, Rehydrated(text))
    /\ phase' = IF fails THEN "failed" ELSE phase
    /\ fields' = Tail(fields)
    /\ UNCHANGED <<body, key, known, sent, answer>>

Return ==
    /\ phase = "rehydrating" /\ fields = <<>>
    /\ answer' = Rebuild(answer, <<>>, substitutions)
    /\ phase' = "restored"
    /\ UNCHANGED <<body, key, fields, substitutions, known, sent>>

Next ==
    \/ SkipProtocolWord \/ SanitizeField \/ RefuseField \/ Forward
    \/ Answer \/ RehydrateField \/ Return

Spec == Init /\ [][Next]_vars
-----------------------------------------------------------------------------
(* Properties *)

\* Every string at any depth, whatever holds it: what a reader of the body could see.
RECURSIVE AllTexts(_)
AllTexts(node) ==
    CASE node.kind \in {"object", "list"} ->
            UNION {AllTexts(Children(node)[i][2]) : i \in 1..Len(Children(node))}
      [] node.kind = "json" -> AllTexts(node.inner)
      [] node.kind = "text" -> {node.text}
      [] OTHER -> {}

\* Every string node with its path, opened or not.
RECURSIVE Strings(_, _)
Strings(node, path) ==
    CASE node.kind \in {"object", "list"} ->
            UNION {Strings(Children(node)[i][2], Append(path, Children(node)[i][1])) :
                      i \in 1..Len(Children(node))}
      [] node.kind = "json" -> {<<path, node>>} \cup Strings(node.inner, path)
      [] node.kind = "text" -> {<<path, node>>}
      [] OTHER -> {}

ValuesIn(texts) == UNION {{Value(text, s) : s \in Detected(text)} : text \in texts}

\* body, sent and known stay as they are from here on.
Forwarded == phase = "sent"

\* A text with the digits of its detected values in ASCII, as decrypt writes them.
ValuesInAscii(text) ==
    [i \in 1..Len(text) |->
        IF text[i] \in Digits /\ \E s \in Detected(text) : i \in s.start..s.end
        THEN DigitValue(text[i]) ELSE text[i]]

\* The client gets back the strings of its own request, whichever place the upstream
\* repeats them in and through both walks and both rebuilds: the same but for the
\* script of the digits of its values, which is lost: domain.py's "decrypt(encrypt(v,
\* key), key) == v" is true of values in ASCII digits only.
BodyRestored ==
    phase = "restored" =>
        Said(answer) = [i \in 1..Len(Said(body)) |-> ValuesInAscii(Said(body)[i])]

\* No value that is detected in the request is detected in what is sent, at any depth
\* ("every text-bearing field", sanitize.py): the walk finds what the rebuild can reach.
NothingLeft == Forwarded => ValuesIn(AllTexts(body)) \cap ValuesIn(AllTexts(sent)) = {}

\* A string in which nothing is detected is sent as the very string it was, its spacing
\* included ("returned as its original, byte-identical string", field_walker.py).
UntouchedVerbatim ==
    Forwarded =>
        \A s \in Strings(body, <<>>) :
            ValuesIn(AllTexts(s[2])) = {} => s \in Strings(sent, <<>>)

\* A surrogate keeps the form of what it replaces: where a detector found a value, the
\* detectors find the surrogate, the check digits and the category letter included.
StillDetected ==
    Forwarded =>
        \A i \in 1..Len(Said(body)) : \A s \in Detected(Said(body)[i]) :
            \E t \in Detected(Said(sent)[i]) : t.start <= s.start /\ s.end <= t.end

\* Detectors and domains agree on what a value looks like: a body is refused only for a
\* type that has no domain, and no surrogate is refused by the domain that made it.
DomainsAgree ==
    /\ phase = "refused" =>
          \E text \in AllTexts(body) : \E s \in Detected(text) : s.type \notin Domains
    /\ phase # "failed"

\* No surrogate is longer than the margin the response window keeps back for it
\* (max_registered_surrogate_length in REQUIRED_WINDOW_LOOKAHEAD, rehydrate.py).
WithinMargin == \A g \in DOMAIN known : Len(g) <= MaxRegisteredSurrogateLength
=============================================================================
