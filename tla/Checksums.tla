----------------------------- MODULE Checksums -----------------------------
(***************************************************************************)
(* Characters, and the two check digits that tell a number from evidence   *)
(* (src/src/detect/tier1/checksum.py).  A text is a sequence of numbers:   *)
(* ASCII digits are 0..9 and capitals 10..35, as in radix 36; another      *)
(* script's digits, which \d and isdigit() take and int() reads, are       *)
(* 100..109.                                                               *)
(***************************************************************************)
EXTENDS Integers, Sequences, SequencesExt

AsciiDigits == 0..9
OtherDigits == 100..109
Digits == AsciiDigits \cup OtherDigits  \* \d, str.isdigit
Capitals == 10..35                      \* [A-Z]
Lower == 36                             \* stands for [a-z]
Plus == 40
At == 41
Dot == 42
Dash == 43
Underscore == 44
Percent == 45
Space == 46
Quote == 47                             \* stands for JSON's punctuation
Colon == 48

Letters == Capitals \cup {Lower}
AlphaNumeric == AsciiDigits \cup Letters               \* [A-Za-z0-9]
WordCharacters == AlphaNumeric \cup OtherDigits \cup {Underscore}

\* int(c) and str(d): the value of a digit of any script, written in ASCII.
DigitValue(c) == c % 100
-----------------------------------------------------------------------------
(* Verhoeff *)

\* _VERHOEFF_D_TABLE: the dihedral group of order 10, 5..9 being its reflections.
VerhoeffD(a, b) ==
    CASE a < 5 /\ b < 5   -> (a + b) % 5
      [] a < 5 /\ b >= 5  -> 5 + ((a + b) % 5)
      [] a >= 5 /\ b < 5  -> 5 + ((a - b) % 5)
      [] a >= 5 /\ b >= 5 -> (a - b) % 5

\* _VERHOEFF_P_TABLE: row i is row 1 applied i times.
VerhoeffP(i, x) ==
    LET step == <<1, 5, 7, 6, 2, 8, 3, 0, 9, 4>>
        row[k \in 0..7] == IF k = 0 THEN x ELSE step[row[k - 1] + 1]
    IN  row[i % 8]

\* _VERHOEFF_INV_TABLE
VerhoeffInverse(a) == IF a \in 1..4 THEN 5 - a ELSE a

\* The register after the digits, the last one first, at positions from `offset' on.
VerhoeffChecksum(number, offset) ==
    LET register[i \in 0..Len(number)] ==
            IF i = 0 THEN 0
            ELSE VerhoeffD(register[i - 1],
                           VerhoeffP(i - 1 + offset, DigitValue(Reverse(number)[i])))
    IN  register[Len(number)]

VerhoeffIsValid(number) == VerhoeffChecksum(number, 0) = 0

\* Mutant: the positions are not moved on by the check digit to come.
VerhoeffCheckDigitUnmoved(payload) == VerhoeffInverse(VerhoeffChecksum(payload, 0))

VerhoeffCheckDigit(payload) == VerhoeffInverse(VerhoeffChecksum(payload, 1))
-----------------------------------------------------------------------------
(* Luhn *)

\* The sum of the digits, the last one first, every other one doubled, the first of
\* these at position `first'.
LuhnTotal(number, first) ==
    LET addend(i) ==
            LET d == DigitValue(Reverse(number)[i])
            IN  IF (i - 1) % 2 # first THEN d ELSE IF 2 * d > 9 THEN 2 * d - 9 ELSE 2 * d
        total[i \in 0..Len(number)] == IF i = 0 THEN 0 ELSE total[i - 1] + addend(i)
    IN  total[Len(number)]

LuhnIsValid(number) == Len(number) >= 2 /\ LuhnTotal(number, 1) % 10 = 0

LuhnCheckDigit(payload) == (10 - (LuhnTotal(payload, 0) % 10)) % 10
=============================================================================
