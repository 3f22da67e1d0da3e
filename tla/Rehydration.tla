---------------------------- MODULE Rehydration ----------------------------
(***************************************************************************)
(* rehydrate (src/src/pipeline/rehydrate.py) as a function: one left to    *)
(* right pass of re.sub over an alternation of the known surrogates,       *)
(* longest first.  `known' is the session's registry at the time of the    *)
(* call with each surrogate resolved to its real value (module Session     *)
(* says what that is); texts are sequences of characters.                  *)
(***************************************************************************)
EXTENDS Integers, Sequences

\* The surrogates of `known' that text has at position i.
MatchesAt(known, text, i) ==
    {s \in DOMAIN known :
        /\ i + Len(s) - 1 <= Len(text)
        /\ SubSeq(text, i, i + Len(s) - 1) = s}

\* _pattern_for: of several alternatives at one position, the longest.
Longest(S) == CHOOSE s \in S : \A r \in S : Len(r) <= Len(s)

\* What the pass makes of text from position i on: a match is replaced, and the
\* pass goes on behind it without looking at what it has put in.
Rehydrate(known, text) ==
    LET from[i \in 1..(Len(text) + 1)] ==
            LET found == MatchesAt(known, text, i) IN
            IF i > Len(text) THEN <<>>
            ELSE IF found = {} THEN <<text[i]>> \o from[i + 1]
            ELSE known[Longest(found)] \o from[i + Len(Longest(found))]
    IN  from[1]
-----------------------------------------------------------------------------
(* When a text may be rehydrated piece by piece *)

\* The places and the surrogates of `known' that the text has there.
Occurrences(known, text) ==
    {m \in (1..Len(text)) \X DOMAIN known : m[2] \in MatchesAt(known, text, m[1])}

\* No two surrogates share a character of the text, and what is put in for the last one
\* of a beginning does not, with what surrounds it, look like a surrogate again.
Standing(known, text) ==
    LET found == Occurrences(known, text)
        End(m) == m[1] + Len(m[2])
        Restored(m) == Rehydrate(known, SubSeq(text, 1, End(m) - 1))
    IN  /\ \A m, n \in found : m = n \/ End(m) <= n[1] \/ End(n) <= m[1]
        /\ \A m \in found : \A k \in 1..Len(Restored(m)) :
              MatchesAt(known, Restored(m) \o SubSeq(text, End(m), Len(text)), k) = {}
=============================================================================
