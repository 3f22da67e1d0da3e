------------------------- MODULE MCMixedRadixFF1 -------------------------
(***************************************************************************)
(* MixedRadixFF1 on domains of 2 to 6 values under 2 to 8 points.  A key   *)
(* is one function for the even rounds and one for the odd; the round      *)
(* number is mixed in, so that no two rounds are the same.                 *)
(***************************************************************************)
EXTENDS MixedRadixFF1

MCKeys == [even : [0..3 -> 0..1], odd : [0..1 -> 0..3]]

MCY(k, bits, i, x) == i + bits + (IF i % 2 = 0 THEN k.even[x % 4] ELSE k.odd[x % 2])

\* One bit; a domain that fills its covering; an odd width; mixed radixes.
MCRadixLists == {<<2>>, <<2, 2>>, <<3>>, <<5>>, <<2, 3>>}

\* Decode undoes Encode and Encode undoes Decode, on longer lists as well: what
\* MixedRadixFF1Proofs shows of every list.
ASSUME MCCodesInverse ==
    \A r \in MCRadixLists \cup {<<>>, <<1, 3>>, <<3, 2, 4>>, <<2, 1, 2, 3>>} :
        /\ Points(CoveringBits(r)) >= DomainSize(r)
        /\ \A s \in SymbolLists(r) :
              /\ Encode(s, r) \in 0..(DomainSize(r) - 1)
              /\ Decode(Encode(s, r), r) = s
        /\ \A x \in 0..(DomainSize(r) - 1) : Encode(Decode(x, r), r) = x
=============================================================================
