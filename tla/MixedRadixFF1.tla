-------------------------- MODULE MixedRadixFF1 --------------------------
(***************************************************************************)
(* Format-preserving encryption of one list of symbols and its inverse:    *)
(* encrypt_combined and decrypt_combined (src/src/surrogate/               *)
(* mixed_radix_ff1.py), the codes of mixed_radix.py, and FF1's Feistel     *)
(* rounds (ff1.py), one step per round.                                    *)
(*                                                                         *)
(* FF1 works on lists of bits here, as the cycle walk calls it.  A list of *)
(* digits stands as the number it denotes (_num_radix, _str_m_radix), so a *)
(* half of n digits is a number below 2^n, and the covering domain is the  *)
(* product of its two halves.  AES is the operator Y: the number that the  *)
(* bytes S of a round make, any function of key, length, round and half.   *)
(***************************************************************************)
EXTENDS Integers, Sequences

CONSTANTS
    Keys,
    Y(_, _, _, _),  \* key, length, round, half -> Nat
    Rounds,         \* _ROUNDS
    RadixLists,     \* the radixes of the free positions, one list per shape
    MaxAttempts     \* _MAX_CYCLE_WALK_ATTEMPTS
-----------------------------------------------------------------------------
(* mixed_radix.py *)

DomainSize(radixes) ==
    LET size[i \in 0..Len(radixes)] == IF i = 0 THEN 1 ELSE size[i - 1] * radixes[i]
    IN  size[Len(radixes)]

Encode(symbols, radixes) ==
    LET value[i \in 0..Len(radixes)] ==
            IF i = 0 THEN 0 ELSE value[i - 1] * radixes[i] + symbols[i]
    IN  value[Len(radixes)]

Decode(value, radixes) ==
    LET rest[i \in 1..Len(radixes)] ==
            IF i = Len(radixes) THEN value ELSE rest[i + 1] \div radixes[i + 1]
    IN  [i \in 1..Len(radixes) |-> rest[i] % radixes[i]]

\* The lists of symbols a domain hands over: each within its radix.
SymbolLists(radixes) ==
    {s \in [1..Len(radixes) -> 0..(DomainSize(radixes) - 1)] :
        \A i \in 1..Len(radixes) : s[i] < radixes[i]}

\* The lists of n bits there are: _walk takes a point apart with the radixes [2] * bits.
Points(n) == DomainSize([i \in 1..n |-> 2])

\* _covering_bits: the width of the smallest binary domain that holds the true one.
CoveringBits(radixes) ==
    LET size == DomainSize(radixes)
    IN  CHOOSE n \in 1..size : Points(n) >= size /\ (n = 1 \/ Points(n - 1) < size)

\* _feistel_params: the first half has half of the bits, rounded down.
LeftSize(radixes) == Points(CoveringBits(radixes) \div 2)
RightSize(radixes) == Points(CoveringBits(radixes) - CoveringBits(radixes) \div 2)

\* The rounds end with the halves in their first places; a shape is any list of
\* radixes; and a round adds a number to a half.
ASSUME CipherAssumption ==
    /\ MaxAttempts \in Nat \ {0}
    /\ Rounds \in Nat \ {0} /\ Rounds % 2 = 0
    /\ \A r \in RadixLists :
          /\ r \in Seq(Nat \ {0})
          /\ \A k \in Keys, i \in 0..(Rounds - 1), x \in 0..(LeftSize(r) + RightSize(r)) :
                Y(k, CoveringBits(r), i, x) \in Nat
-----------------------------------------------------------------------------
VARIABLES
    key, radixes, symbols, \* what the domain module calls encrypt_combined with
    mode,                  \* the call under way, or how it ended
    a, b,                  \* the Feistel halves, as numbers
    round,                 \* the round to be done next; to be undone, plus one
    attempts,              \* walks of the covering domain finished in this call
    result,                \* the symbols the last call returned
    trail,                 \* history: the halves before each round of encryption
    walked                 \* history: the walks encryption took

call == <<key, radixes, symbols>>
history == <<trail, walked>>
vars == <<call, mode, a, b, round, attempts, result, history>>

Modes == {"called", "encrypting", "surrogate", "decrypting", "restored",
          "refused", "not converged", "surrogate lost"}

Size == DomainSize(radixes)
Bits == CoveringBits(radixes)
Left == LeftSize(radixes)
Right == RightSize(radixes)

\* A point of the covering domain and its two halves.
Point == a * Right + b
Split(point) ==
    /\ a' = point \div Right
    /\ b' = point % Right

Init ==
    /\ key \in Keys
    /\ radixes \in RadixLists
    /\ symbols \in SymbolLists(radixes)
    /\ mode = "called"
    /\ a = 0 /\ b = 0 /\ round = 0 /\ attempts = 0
    /\ result = <<>>
    /\ trail = [k \in 0..(MaxAttempts - 1) |-> [i \in 0..Rounds |-> <<0, 0>>]]
    /\ walked = 0
-----------------------------------------------------------------------------
(* ff1.py *)

\* _validate: one bit has no two halves.
Refuse ==
    /\ mode = "called"
    /\ Bits < 2
    /\ mode' = "refused"
    /\ UNCHANGED <<call, a, b, round, attempts, result, history>>

\* radix ** m: the size of the half that round i replaces.
Modulus(i) == IF i % 2 = 0 THEN Left ELSE Right

EncryptRound ==
    /\ mode = "encrypting"
    /\ round < Rounds
    /\ a' = b
    /\ b' = (a + Y(key, Bits, round, b)) % Modulus(round)
    /\ round' = round + 1
    /\ trail' = [trail EXCEPT ![attempts][round + 1] = <<a', b'>>]
    /\ UNCHANGED <<call, mode, attempts, result, walked>>

\* The last round first, with the halves in each other's place.
DecryptRound ==
    LET i == round - 1 IN
    /\ mode = "decrypting"
    /\ round > 0
    /\ b' = a
    /\ a' = (b - Y(key, Bits, i, a)) % Modulus(i)
    /\ round' = round - 1
    /\ UNCHANGED <<call, mode, attempts, result, history>>
-----------------------------------------------------------------------------
(* mixed_radix_ff1.py *)

Encrypt ==
    /\ mode = "called"
    /\ Bits >= 2
    /\ mode' = "encrypting"
    /\ Split(Encode(symbols, radixes))
    /\ round' = 0 /\ attempts' = 0
    /\ trail' = [trail EXCEPT ![0][0] = <<a', b'>>]
    /\ UNCHANGED <<call, result, walked>>

Decrypt ==
    /\ mode = "surrogate"
    /\ mode' = "decrypting"
    /\ Split(Encode(result, radixes))
    /\ round' = Rounds /\ attempts' = 0
    /\ UNCHANGED <<call, result, history>>

\* Mutant: the end of the domain counts as part of it.
InsideOrAtEnd == Point <= Size

\* _walk stops at the first point that is inside the true domain.
Inside == Point < Size

\* A point outside is permuted again, under the same key and tweak.
WalkOn ==
    /\ mode = "encrypting" /\ round = Rounds
    /\ ~Inside
    /\ attempts + 1 < MaxAttempts
    /\ attempts' = attempts + 1
    /\ round' = 0
    /\ Split(Point)
    /\ trail' = [trail EXCEPT ![attempts + 1][0] = <<a', b'>>]
    /\ UNCHANGED <<call, mode, result, walked>>

Arrive ==
    /\ mode = "encrypting" /\ round = Rounds
    /\ Inside
    /\ mode' = "surrogate"
    /\ result' = Decode(Point, radixes)
    /\ walked' = attempts + 1
    /\ UNCHANGED <<call, a, b, round, attempts, trail>>

\* Mutant: decryption starts the next walk at the surrogate again.
WalkBackAfresh ==
    /\ mode = "decrypting" /\ round = 0
    /\ ~Inside
    /\ attempts + 1 < MaxAttempts
    /\ attempts' = attempts + 1
    /\ round' = Rounds
    /\ Split(Encode(result, radixes))
    /\ UNCHANGED <<call, mode, result, history>>

WalkBack ==
    /\ mode = "decrypting" /\ round = 0
    /\ ~Inside
    /\ attempts + 1 < MaxAttempts
    /\ attempts' = attempts + 1
    /\ round' = Rounds
    /\ Split(Point)
    /\ UNCHANGED <<call, mode, result, history>>

Return ==
    /\ mode = "decrypting" /\ round = 0
    /\ Inside
    /\ mode' = "restored"
    /\ result' = Decode(Point, radixes)
    /\ UNCHANGED <<call, a, b, round, attempts, history>>

\* The limit, the same for both directions of _walk.
GiveUp ==
    /\ mode \in {"encrypting", "decrypting"}
    /\ round = (IF mode = "encrypting" THEN Rounds ELSE 0)
    /\ ~Inside
    /\ attempts + 1 = MaxAttempts
    /\ mode' = (IF mode = "encrypting" THEN "not converged" ELSE "surrogate lost")
    /\ UNCHANGED <<call, a, b, round, attempts, result, history>>

Next ==
    \/ Refuse \/ Encrypt \/ EncryptRound \/ WalkOn \/ Arrive
    \/ Decrypt \/ DecryptRound \/ WalkBack \/ Return \/ GiveUp

Spec == Init /\ [][Next]_vars
-----------------------------------------------------------------------------
(* Properties *)

\* The halves before round i: the one to be replaced, and the other one.
Halves(i) ==
    IF i % 2 = 0 THEN (0..(Left - 1)) \X (0..(Right - 1))
                 ELSE (0..(Right - 1)) \X (0..(Left - 1))

TypeOK ==
    /\ key \in Keys
    /\ radixes \in RadixLists
    /\ symbols \in SymbolLists(radixes)
    /\ mode \in Modes
    /\ <<a, b>> \in Halves(round)
    /\ round \in 0..Rounds
    /\ attempts \in 0..(MaxAttempts - 1)
    /\ trail \in [0..(MaxAttempts - 1) -> [0..Rounds -> Nat \X Nat]]
    /\ \A k \in 0..(MaxAttempts - 1), i \in 0..Rounds : trail[k][i] \in Halves(i)
    /\ walked \in 0..MaxAttempts

\* Decryption gives back the symbols encryption was called with ("restricting to `walk
\* forward until landing in V' defines a genuine permutation of V and its own inverse
\* is `walk backward'", mixed_radix_ff1.py), for every key and shape.
RoundTrip == mode = "restored" => result = symbols

\* The limit on walks never strikes on the way back: what could be encrypted within it
\* can be decrypted within it, so a surrogate once sent can always be restored.
NeverLost == mode # "surrogate lost"

\* Decryption passes through the points of encryption in reverse, round by round and
\* walk by walk (the mirrored update of ff1_decrypt).
Retraced ==
    mode = "decrypting" => <<a, b>> = trail[walked - 1 - attempts][round]
=============================================================================
