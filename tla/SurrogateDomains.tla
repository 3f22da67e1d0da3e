-------------------------- MODULE SurrogateDomains --------------------------
(***************************************************************************)
(* The surrogate domains (src/src/surrogate/domains/), their registry and  *)
(* the engine: what each domain takes apart into free symbols and frozen   *)
(* characters, and puts together again.  The permutation of the free       *)
(* symbols is a constant here; MixedRadixFF1 is about it.                  *)
(***************************************************************************)
EXTENDS Checksums, FiniteSets

CONSTANTS
    Permute(_, _, _, _),    \* key, tweak, symbols, radixes -> symbols
    Unpermute(_, _, _, _)

\* A value the domain refuses (SurrogateDomainError).
NoSurrogate == <<>>

IsDigits(value) == \A i \in 1..Len(value) : value[i] \in Digits
AreIn(value, places, class) == \A i \in places : value[i] \in class

\* A layout is the places of the free symbols in the order they are handed over, each
\* with its radix; what is at no place of it is frozen.
Radixes(layout) == [k \in 1..Len(layout) |-> layout[k][2]]

\* The digit or letter at a place as a symbol, and a symbol as a character.
SymbolAt(value, place, radix) ==
    IF radix = 26 THEN value[place] - 10
    ELSE IF value[place] \in Digits THEN DigitValue(value[place]) ELSE value[place]
CharacterOf(symbol, radix) == IF radix = 26 THEN symbol + 10 ELSE symbol

Symbols(value, layout) ==
    [k \in 1..Len(layout) |-> SymbolAt(value, layout[k][1], layout[k][2])]

\* The value with its free places set anew.
Rebuilt(value, layout, symbols) ==
    [i \in 1..Len(value) |->
        IF \E k \in 1..Len(layout) : layout[k][1] = i
        THEN LET k == CHOOSE k \in 1..Len(layout) : layout[k][1] = i
             IN  CharacterOf(symbols[k], layout[k][2])
        ELSE value[i]]

Run(first, last, radix) == [k \in 1..(last - first + 1) |-> <<first + k - 1, radix>>]
-----------------------------------------------------------------------------
(* Which values a domain accepts, and their layout; <<>>: refused *)

AadhaarLayout(value) ==
    IF Len(value) = 12 /\ IsDigits(value) THEN Run(1, 11, 10) ELSE <<>>

CardLayout(value) ==
    IF Len(value) \in 12..19 /\ IsDigits(value) THEN Run(1, Len(value) - 1, 10) ELSE <<>>

\* The letters first, then the digits; the category, the fourth, is frozen.
PanLayout(value) ==
    IF Len(value) = 10 /\ AreIn(value, {1, 2, 3, 4, 5, 10}, Capitals)
                       /\ AreIn(value, 6..9, Digits)
    THEN Run(1, 3, 26) \o <<<<5, 26>>, <<10, 26>>>> \o Run(6, 9, 10)
    ELSE <<>>

\* The literal zero, the fifth, is frozen.
IfscLayout(value) ==
    IF Len(value) = 11 /\ AreIn(value, 1..4, Capitals) /\ value[5] = 0
                       /\ AreIn(value, 6..11, Digits \cup Capitals)
    THEN Run(1, 4, 26) \o Run(6, 11, 36)
    ELSE <<>>

\* _split_prefix: how many characters stand before the ten of the core.
PhonePrefix(value) ==
    CASE Len(value) = 13 /\ SubSeq(value, 1, 3) = <<Plus, 9, 1>> -> 3
      [] Len(value) = 12 /\ SubSeq(value, 1, 2) = <<9, 1>>       -> 2
      [] Len(value) = 11 /\ value[1] = 0                         -> 1
      [] Len(value) = 10                                         -> 0
      [] OTHER                                                   -> -1

\* The prefix and the leading digit are frozen.
PhoneLayout(value) ==
    LET p == PhonePrefix(value)
    IN  IF p >= 0 /\ AreIn(value, (p + 1)..(p + 10), Digits) /\ value[p + 1] \in 6..9
        THEN Run(p + 2, p + 10, 10)
        ELSE <<>>

\* Mutant: the shortest mark is the only one thought of.
StateLayoutShort(value) ==
    IF Len(value) = 8 /\ AreIn(value, {1, 2, 4}, Capitals) /\ AreIn(value, {3} \cup 5..8, Digits)
    THEN Run(1, 2, 26) \o <<<<3, 10>>, <<4, 26>>>> \o Run(5, 8, 10)
    ELSE <<>>

\* The state-code scheme: two letters, d digits, s letters, four digits.
StateLayout(value) ==
    LET n == Len(value)
        Parses(d, s) == /\ n = 6 + d + s
                        /\ AreIn(value, 1..2 \cup (3 + d)..(2 + d + s), Capitals)
                        /\ AreIn(value, 3..(2 + d) \cup (3 + d + s)..n, Digits)
    IN  IF \E d \in 1..2, s \in 1..3 : Parses(d, s)
        THEN LET d == CHOOSE d \in 1..2 : \E s \in 1..3 : Parses(d, s)
             IN  Run(1, 2, 26) \o Run(3, 2 + d, 10) \o Run(3 + d, n - 4, 26)
                     \o Run(n - 3, n, 10)
        ELSE <<>>

\* The BH series: the year, a frozen BH, the number, one or two letters.
BhLayout(value) ==
    IF /\ Len(value) \in 9..10
       /\ AreIn(value, {1, 2} \cup 5..8, Digits)
       /\ SubSeq(value, 3, 4) = <<11, 17>>
       /\ AreIn(value, 9..Len(value), Capitals)
    THEN Run(1, 2, 10) \o Run(5, 8, 10) \o Run(9, Len(value), 26)
    ELSE <<>>

VehicleLayout(value) ==
    IF StateLayout(value) # <<>> THEN StateLayout(value) ELSE BhLayout(value)

\* get_surrogate_domain: UPI and e-mail have none.
Domains == {"AADHAAR", "PAN", "CARD", "IFSC", "PHONE", "VEHICLE_REG"}

Layout(type, value) ==
    CASE type = "AADHAAR"     -> AadhaarLayout(value)
      [] type = "CARD"        -> CardLayout(value)
      [] type = "PAN"         -> PanLayout(value)
      [] type = "IFSC"        -> IfscLayout(value)
      [] type = "PHONE"       -> PhoneLayout(value)
      [] type = "VEHICLE_REG" -> VehicleLayout(value)
      [] OTHER                -> <<>>

\* Mutant: the longest card is thought to have 16 digits.
MaxSurrogateLengthOf16(type) ==
    CASE type = "CARD" -> 16
      [] type = "PHONE" -> 13
      [] type = "AADHAAR" -> 12
      [] type \in {"IFSC", "VEHICLE_REG"} -> 11
      [] type = "PAN" -> 10

MaxSurrogateLength(type) ==
    CASE type = "CARD" -> 19
      [] type = "PHONE" -> 13
      [] type = "AADHAAR" -> 12
      [] type \in {"IFSC", "VEHICLE_REG"} -> 11
      [] type = "PAN" -> 10

\* max_registered_surrogate_length
MaxRegisteredSurrogateLength ==
    CHOOSE n \in {MaxSurrogateLength(t) : t \in Domains} :
        \A t \in Domains : MaxSurrogateLength(t) <= n
-----------------------------------------------------------------------------
(* engine.py *)

\* Aadhaar's and the card's last digit is computed anew, on either side.
Repaired(type, value) ==
    LET payload == SubSeq(value, 1, Len(value) - 1)
    IN  CASE type = "AADHAAR" -> Append(payload, VerhoeffCheckDigit(payload))
          [] type = "CARD"    -> Append(payload, LuhnCheckDigit(payload))
          [] OTHER            -> value

Encrypted(type, value, key) ==
    LET layout == Layout(type, value)
    IN  IF layout = <<>> THEN NoSurrogate
        ELSE Repaired(type, Rebuilt(value, layout,
                 Permute(key, type, Symbols(value, layout), Radixes(layout))))

\* Mutant: the last digit is computed anew on the way out only.
DecryptedUnrepaired(type, surrogate, key) ==
    LET layout == Layout(type, surrogate)
    IN  IF layout = <<>> THEN NoSurrogate
        ELSE Rebuilt(surrogate, layout,
                 Unpermute(key, type, Symbols(surrogate, layout), Radixes(layout)))

Decrypted(type, surrogate, key) ==
    LET layout == Layout(type, surrogate)
    IN  IF layout = <<>> THEN NoSurrogate
        ELSE Repaired(type, Rebuilt(surrogate, layout,
                 Unpermute(key, type, Symbols(surrogate, layout), Radixes(layout))))
=============================================================================
