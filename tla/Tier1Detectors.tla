--------------------------- MODULE Tier1Detectors ---------------------------
(***************************************************************************)
(* The Tier-1 detectors (src/src/detect/tier1/) and their registration     *)
(* order (registry.py), as what finditer finds of each pattern in a text.  *)
(* A pattern without a star is the set of the shapes it can take, a shape  *)
(* being a sequence of character classes; a span's places count from 1 and *)
(* include its end.                                                        *)
(***************************************************************************)
EXTENDS Checksums, FiniteSets

\* Registration order (_TIER1_DETECTORS).
EntityTypes == <<"AADHAAR", "CARD", "PAN", "IFSC", "UPI", "VEHICLE_REG", "EMAIL", "PHONE">>
Types == {EntityTypes[i] : i \in 1..Len(EntityTypes)}
-----------------------------------------------------------------------------
(* Patterns *)

\* A class n times over; a class for each character of a literal.
Times(class, n) == [i \in 1..n |-> class]
Literal(characters) == [i \in 1..Len(characters) |-> {characters[i]}]

Category == {10, 11, 12, 15, 16, 17, 19, 21, 25, 29}  \* A B C F G H J L P T

AadhaarShapes == {Times(Digits, 12)}
CardShapes == {Times(Digits, n) : n \in 12..19}
\* PAN_CATEGORY_LETTERS, checked after the match, is a class like the others here.
PanShapes == {Times(Capitals, 3) \o <<Category, Capitals>> \o Times(Digits, 4) \o <<Capitals>>}
IfscShapes == {Times(Capitals, 4) \o <<{0}>> \o Times(AsciiDigits \cup Capitals, 6)}

StateShapes ==
    {Times(Capitals, 2) \o Times(Digits, d) \o Times(Capitals, s) \o Times(Digits, 4) :
        d \in 1..2, s \in 1..3}
BhShapes ==
    {Times(Digits, 2) \o Literal(<<11, 17>>) \o Times(Digits, 4) \o Times(Capitals, x) :
        x \in 1..2}
VehicleShapes == StateShapes \cup BhShapes

PhonePrefixes == {<<>>, <<0>>, <<9, 1>>, <<Plus, 9, 1>>}
PhoneShapes == {Literal(p) \o <<6..9>> \o Times(Digits, 9) : p \in PhonePrefixes}

Shapes(type) ==
    CASE type = "AADHAAR"     -> AadhaarShapes
      [] type = "CARD"        -> CardShapes
      [] type = "PAN"         -> PanShapes
      [] type = "IFSC"        -> IfscShapes
      [] type = "VEHICLE_REG" -> VehicleShapes
      [] type = "PHONE"       -> PhoneShapes
-----------------------------------------------------------------------------
(* Matching *)

\* The character at a place, or none of any class beyond the ends.
CharacterAt(text, i) == IF i \in 1..Len(text) THEN text[i] ELSE -1

Fits(value, shape) ==
    /\ Len(value) = Len(shape)
    /\ \A i \in 1..Len(shape) : value[i] \in shape[i]

\* \b before the first or behind the last of word characters; the lookarounds of the
\* phone pattern, which let a letter follow and a `+' precede.
Isolated(text, i, j, type) ==
    IF type = "PHONE"
    THEN /\ CharacterAt(text, i - 1) \notin AlphaNumeric
         /\ CharacterAt(text, j + 1) \notin AsciiDigits
    ELSE /\ CharacterAt(text, i - 1) \notin WordCharacters
         /\ CharacterAt(text, j + 1) \notin WordCharacters

\* The longest shape has 19 characters.
ShapeMatches(text, type) ==
    {<<i, j>> \in (1..Len(text)) \X (1..Len(text)) :
        /\ j - i \in 7..18
        /\ \E shape \in Shapes(type) : Fits(SubSeq(text, i, j), shape)
        /\ Isolated(text, i, j, type)}

UpiLocal == AlphaNumeric \cup {Dot, Underscore, Dash}
EmailLocal == UpiLocal \cup {Percent, Plus}
EmailDomain == AlphaNumeric \cup {Dot, Dash}

AllIn(text, i, j, class) == \A k \in i..j : text[k] \in class

\* The lookarounds leave no choice: the local part begins where its run of characters
\* does, and the rest ends where its own does.
UpiMatches(text) ==
    {<<i, j>> \in (1..Len(text)) \X (1..Len(text)) :
        \E at \in (i + 2)..(j - 2) :
            /\ text[at] = At /\ at - i <= 256 /\ j - at <= 65
            /\ AllIn(text, i, at - 1, UpiLocal)
            /\ CharacterAt(text, i - 1) \notin UpiLocal
            /\ text[at + 1] \in Letters /\ AllIn(text, at + 2, j, AlphaNumeric)
            /\ CharacterAt(text, j + 1) \notin AlphaNumeric \cup {Dot}}

EmailMatches(text) ==
    {<<i, j>> \in (1..Len(text)) \X (1..Len(text)) :
        \E at \in (i + 1)..(j - 4) : \E dot \in (at + 2)..(j - 2) :
            /\ text[at] = At /\ text[dot] = Dot
            /\ AllIn(text, i, at - 1, EmailLocal)
            /\ CharacterAt(text, i - 1) \notin EmailLocal
            /\ AllIn(text, at + 1, dot - 1, EmailDomain)
            /\ AllIn(text, dot + 1, j, Letters)
            /\ CharacterAt(text, j + 1) \notin EmailDomain}

Matches(text, type) ==
    CASE type = "UPI"   -> UpiMatches(text)
      [] type = "EMAIL" -> EmailMatches(text)
      [] OTHER          -> ShapeMatches(text, type)

\* What makes a candidate evidence.
Evidence(value, type) ==
    /\ type = "AADHAAR" => VerhoeffIsValid(value)
    /\ type = "CARD" => LuhnIsValid(value)

\* finditer goes on behind what it has found: a match is taken unless one taken before it
\* reaches into it.
Taken(matches) ==
    CHOOSE K \in SUBSET matches :
        \A m \in matches : m \in K <=> \A n \in K : ~(n[1] < m[1] /\ m[1] <= n[2])

\* A detector's detect.
DetectedBy(text, type) ==
    {[start |-> m[1], end |-> m[2], type |-> type] : m \in
        {m \in Taken(Matches(text, type)) : Evidence(SubSeq(text, m[1], m[2]), type)}}
-----------------------------------------------------------------------------
(* The registered detectors together, and precedence.py among them *)

Registered(type) == CHOOSE i \in 1..Len(EntityTypes) : EntityTypes[i] = type

Outranks(s, t) ==
    \/ s.end - s.start > t.end - t.start
    \/ s.end - s.start = t.end - t.start /\ Registered(s.type) < Registered(t.type)

Overlapping(s, t) == s.start <= t.end /\ t.start <= s.end

\* resolve: the one set of spans that holds whatever no accepted span outranks.
Resolved(spans) ==
    CHOOSE K \in SUBSET spans :
        \A s \in spans : s \in K <=> \A t \in K : Overlapping(s, t) /\ s # t => ~Outranks(t, s)

Detected(text) == Resolved(UNION {DetectedBy(text, type) : type \in Types})
=============================================================================
