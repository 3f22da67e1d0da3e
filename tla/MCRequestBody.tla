--------------------------- MODULE MCRequestBody ---------------------------
(***************************************************************************)
(* RequestBody on every format the detectors know, alone and beside        *)
(* others, and on every shape of body the walker tells apart.  The         *)
(* permutation adds to each symbol the key and its left neighbour.         *)
(***************************************************************************)
EXTENDS RequestBody

MCPermute(k, tweak, symbols, radixes) ==
    [i \in 1..Len(symbols) |->
        (symbols[i] + k * i + (IF i = 1 THEN Len(tweak) ELSE symbols[i - 1])) % radixes[i]]

MCUnpermute(k, tweak, symbols, radixes) ==
    LET plain[i \in 1..Len(symbols)] ==
            (symbols[i] - k * i - (IF i = 1 THEN Len(tweak) ELSE plain[i - 1])) % radixes[i]
    IN  [i \in 1..Len(symbols) |-> plain[i]]

Word == Times(Lower, 4)

Pan == <<10, 11, 12, 25, 14, 1, 2, 3, 4, 15>>
OtherPan == <<35, 11, 12, 17, 14, 9, 9, 9, 9, 10>>
Ifsc == <<17, 13, 15, 12, 0, 10, 1, 11, 2, 12, 3>>
Aadhaar == <<2, 3, 4, 5, 6, 7, 8, 9, 0, 1, 2, 4>>
Card(n) == <<4>> \o Times(1, n - 2) \o <<CASE n = 12 -> 7 [] n = 16 -> 1 [] n = 19 -> 0>>
Phone == <<9, 8, 7, 6, 5, 4, 3, 2, 1, 0>>
StateMark(d, s) == <<20, 10>> \o Times(1, d) \o Times(10, s) \o <<1, 2, 3, 4>>
BhMark(x) == <<2, 3, 11, 17, 1, 2, 3, 4>> \o Times(10, x)
Upi == Word \o <<At>> \o Word
Email == Word \o <<At>> \o Word \o <<Dot, Lower, Lower>>

Spaced(texts) == FlattenSeq([i \in 1..Len(texts) |-> texts[i] \o <<Space>>])

\* The same value in the digits of another script, which the patterns take as well.
Foreign(value) == [i \in 1..Len(value) |->
                      IF i > 1 /\ value[i] \in AsciiDigits THEN value[i] + 100 ELSE value[i]]

\* One text to each format, with its neighbours, prefixes and near misses.
Texts ==
    {Spaced(<<Pan, Word, OtherPan>>), <<Dash>> \o Pan \o <<Dash>>, Pan \o <<Lower>>,
     Spaced(<<Ifsc, Pan>>), Spaced(<<Aadhaar, Word>>), <<Plus>> \o Aadhaar,
     Append(Front(Aadhaar), 5),
     Spaced(<<Card(12), Card(16)>>), Card(19),
     Spaced(<<Phone, <<0>> \o Phone>>), Spaced(<<<<9, 1>> \o Phone, <<Plus, 9, 1>> \o Phone>>),
     Phone \o <<Lower>>, Phone \o <<1>>,
     Spaced(<<Foreign(Phone), Foreign(<<1, 2>>), Foreign(Pan)>>), Foreign(Aadhaar),
     Spaced(<<Phone, Foreign(Phone)>>),
     Spaced(<<Pan, Upi, Phone>>), Email, Spaced(<<Word, Word>>)}
    \cup {StateMark(d, s) : d \in 1..2, s \in 1..3} \cup {BhMark(x) : x \in 1..2}

Chat(messages) == Object(<<<<"messages", List(messages)>>>>)
Message(role, content) == Object(<<<<"role", role>>, <<"content", content>>>>)
Call(arguments) == Object(<<<<"arguments", arguments>>>>)

Arguments(text) == Object(<<<<"city", Text(text)>>, <<"unit", Scalar>>>>)

MCBodies ==
    {Chat(<<Message(Text(Word), Text(t))>>) : t \in Texts}
    \cup {Chat(<<Message(Text(Word), node), Message(Text(Pan), Scalar)>>) : node \in
            {\* what is JSON elsewhere is text; a call's arguments are opened
             Json(Arguments(Pan), "sender"),
             Call(Json(Arguments(Pan), "sender")),
             Call(Json(Arguments(Word), "sender")),
             Call(Text(Pan)),
             Call(Json(Text(Pan), "sender")),
             Call(Json(List(<<Text(Word), Text(Phone)>>), "sender")),
             \* two calls, only one of which has anything in it
             List(<<Call(Json(Arguments(OtherPan), "sender")), Call(Json(List(<<>>), "sender"))>>),
             \* arguments within arguments, of which the inner ones are clean or not
             Call(Json(Object(<<<<"x", Text(Phone)>>,
                                <<"arguments", Json(Arguments(Word), "sender")>>>>), "sender")),
             Call(Json(Object(<<<<"x", Text(Word)>>,
                                <<"arguments", Json(Arguments(Phone), "sender")>>>>), "sender")),
             \* the same value twice, the second time beside another
             List(<<Text(Pan), Text(Spaced(<<Phone, Pan>>))>>)}}
    \cup {Object(<<<<"role", Text(Word)>>, <<"name", Text(Word)>>>>)}

MCProtocolWords == {Word}
=============================================================================
