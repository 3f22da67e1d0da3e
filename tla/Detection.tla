----------------------------- MODULE Detection -----------------------------
(***************************************************************************)
(* One text region on its way through detect (src/src/detect/cascade.py),  *)
(* precedence.resolve and _sanitize_region: the detectors' spans, the one  *)
(* pass that settles their overlaps, and the splices that put surrogates   *)
(* in place.  Offsets are 0-based and half-open, as Span's are; the text   *)
(* is the sequence of its characters, each named by its place, and a       *)
(* surrogate repeats the span it stands for.                               *)
(***************************************************************************)
EXTENDS Integers, Sequences, FiniteSets

CONSTANTS
    Length,           \* the length of the region's text
    Tier1Detectors,   \* registration order: these numbers ...
    Tier2Detectors,   \* ... then these
    SurrogateLength,  \* length of each detector's surrogates; None: as the original
    MaxSpans,         \* bound of the spans one detector reports
    FailModes,
    None

Detectors == Tier1Detectors \cup Tier2Detectors

ASSUME DetectionAssumptions ==
    /\ Length \in Nat
    /\ IsFiniteSet(Detectors)
    /\ Detectors \subseteq Nat \ {0}
    /\ \A d \in Tier1Detectors, e \in Tier2Detectors : d < e
    /\ None \notin Nat
    /\ SurrogateLength \in [Detectors -> Nat \cup {None}]
    /\ MaxSpans \in Nat
    /\ FailModes \subseteq {"open", "closed"}

\* A detector drops empty matches and DetectionError rejects offsets out of bounds.
Spans == {s \in [start : 0..Length, end : 0..Length, detector : Detectors] : s.start < s.end}

VARIABLES
    candidates,  \* indexed_spans: what the detectors have reported
    accepted,    \* resolve's result so far
    pending,     \* spans resolve has yet to consider, then spans yet to be spliced
    newText,     \* new_text
    replays,     \* resolved spans whose text the session has minted
    pc

vars == <<candidates, accepted, pending, newText, replays, pc>>

\* A character of the text is a span of its own, of no detector.
Character(i) == [start |-> i, end |-> i + 1, detector |-> 0]
Original == [i \in 1..Length |-> Character(i - 1)]

TypeOK ==
    /\ candidates \in SUBSET Spans
    /\ accepted \in SUBSET Spans
    /\ pending \in SUBSET Spans
    /\ newText \in Seq(Spans \cup {Character(i) : i \in 0..(Length - 1)})
    /\ replays \in SUBSET Spans
    /\ pc \in {"tier1", "tier2", "resolving", "splicing", "sanitized", "refused"}

Init ==
    /\ candidates = {}
    /\ accepted = {}
    /\ pending = {}
    /\ newText = Original
    /\ replays = {}
    /\ pc = "tier1"
-----------------------------------------------------------------------------
(* Precedence *)

\* _spans_overlap
Overlap(a, b) == a.start < b.end /\ b.start < a.end

Tier(s) == IF s.detector \in Tier1Detectors THEN 1 ELSE 2
Width(s) == s.end - s.start

\* Mutant: the tier is forgotten, the longest match wins.
AheadByLength(a, b) ==
    \/ Width(a) > Width(b)
    \/ Width(a) = Width(b) /\ a.detector < b.detector

\* priority: the tier, then the longer span, then registration order.
Ahead(a, b) ==
    \/ Tier(a) < Tier(b)
    \/ Tier(a) = Tier(b) /\ Width(a) > Width(b)
    \/ Tier(a) = Tier(b) /\ Width(a) = Width(b) /\ a.detector < b.detector
-----------------------------------------------------------------------------
(* The cascade *)

\* finditer never yields overlapping matches; a model may.
Reports(d) ==
    {S \in SUBSET {s \in Spans : s.detector = d} :
        /\ Cardinality(S) <= MaxSpans
        /\ d \in Tier1Detectors => \A a, b \in S : a # b => ~Overlap(a, b)}

\* What the detectors D may report between them.
ReportsOf(D) == {UNION {f[d] : d \in D} : f \in {g \in [D -> UNION {Reports(d) : d \in D}] :
                                                  \A d \in D : g[d] \in Reports(d)}}

RunTier1 ==
    /\ pc = "tier1"
    /\ candidates' \in ReportsOf(Tier1Detectors)
    /\ pc' = "tier2"
    /\ UNCHANGED <<accepted, pending, newText, replays>>

RunTier2 ==
    /\ pc = "tier2"
    /\ \E S \in ReportsOf(Tier2Detectors) : candidates' = candidates \cup S
    /\ pending' = candidates'
    /\ pc' = "resolving"
    /\ UNCHANGED <<accepted, newText, replays>>

\* The model raises, or an offset is out of bounds; under FAIL_MODE=open the region
\* goes on with Tier 1's spans.
Tier2FailsOpen ==
    /\ pc = "tier2" /\ "open" \in FailModes
    /\ pending' = candidates
    /\ pc' = "resolving"
    /\ UNCHANGED <<candidates, accepted, newText, replays>>

Tier2FailsClosed ==
    /\ pc = "tier2" /\ "closed" \in FailModes
    /\ pc' = "refused"
    /\ UNCHANGED <<candidates, accepted, pending, newText, replays>>

\* Mutant: the spans are not ranked and are taken as they come.
ConsiderAnyOrder ==
    /\ pc = "resolving"
    /\ \E s \in pending :
          /\ accepted' = IF \E kept \in accepted : Overlap(s, kept) THEN accepted
                         ELSE accepted \cup {s}
          /\ pending' = pending \ {s}
    /\ UNCHANGED <<candidates, newText, replays, pc>>

\* Mutant: a span is compared with its own detector's only.
ConsiderOwnDetector ==
    /\ pc = "resolving"
    /\ \E s \in pending :
          /\ \A other \in pending : ~Ahead(other, s)
          /\ accepted' = IF \E kept \in accepted : kept.detector = s.detector /\ Overlap(s, kept)
                         THEN accepted ELSE accepted \cup {s}
          /\ pending' = pending \ {s}
    /\ UNCHANGED <<candidates, newText, replays, pc>>

\* resolve: the next span of the ranking is kept unless it overlaps one that was.
Consider ==
    /\ pc = "resolving"
    /\ \E s \in pending :
          /\ \A other \in pending : ~Ahead(other, s)
          /\ accepted' = IF \E kept \in accepted : Overlap(s, kept) THEN accepted
                         ELSE accepted \cup {s}
          /\ pending' = pending \ {s}
    /\ UNCHANGED <<candidates, newText, replays, pc>>

\* detect ends: the spans the session knows are marked, and will stay.
Recognise ==
    /\ pc = "resolving" /\ pending = {}
    /\ replays' \in SUBSET accepted
    /\ pending' = accepted \ replays'
    /\ pc' = "splicing"
    /\ UNCHANGED <<candidates, accepted, newText>>
-----------------------------------------------------------------------------
(* _sanitize_region *)

Surrogate(s) ==
    [i \in 1..(IF SurrogateLength[s.detector] = None THEN Width(s)
               ELSE SurrogateLength[s.detector]) |-> s]

Spliced(text, s) ==
    SubSeq(text, 1, s.start) \o Surrogate(s) \o SubSeq(text, s.end + 1, Len(text))

\* Mutant: left to right, as the spans come.
SpliceAscending ==
    /\ pc = "splicing"
    /\ \E s \in pending :
          /\ \A other \in pending : s.start <= other.start
          /\ newText' = Spliced(newText, s)
          /\ pending' = pending \ {s}
    /\ UNCHANGED <<candidates, accepted, replays, pc>>

\* The rightmost span left gets its surrogate, whatever its length.
Splice ==
    /\ pc = "splicing"
    /\ \E s \in pending :
          /\ \A other \in pending : other.start <= s.start
          /\ newText' = Spliced(newText, s)
          /\ pending' = pending \ {s}
    /\ UNCHANGED <<candidates, accepted, replays, pc>>

\* A span has no surrogate: the region, and with it the body, is refused.
Refuse ==
    /\ pc = "splicing" /\ pending # {}
    /\ pc' = "refused"
    /\ UNCHANGED <<candidates, accepted, pending, newText, replays>>

Finish ==
    /\ pc = "splicing" /\ pending = {}
    /\ pc' = "sanitized"
    /\ UNCHANGED <<candidates, accepted, pending, newText, replays>>

Next ==
    \/ RunTier1
    \/ RunTier2
    \/ Tier2FailsOpen
    \/ Tier2FailsClosed
    \/ Consider
    \/ Recognise
    \/ Splice
    \/ Refuse
    \/ Finish

Spec == Init /\ [][Next]_vars
-----------------------------------------------------------------------------
(* Properties *)

\* No two spans that are kept share a character (resolve's first postcondition), on
\* which the splices and the ingress lookups rest.
NoOverlap == \A a, b \in accepted : a # b => ~Overlap(a, b)

\* A detection is given up only for one that outranks it or ties with it, and that is
\* itself kept: a span eliminated by a loser would leave real text in the body.
OnlyOutranked ==
    pc \in {"splicing", "sanitized"} =>
        \A c \in candidates \ accepted :
            \E kept \in accepted : Overlap(c, kept) /\ ~Ahead(c, kept)

\* "Deterministic evidence beats probabilistic evidence, always" (precedence.py): the
\* Tier-1 spans kept are those that resolve makes of the Tier-1 spans alone, whatever
\* Tier 2 reports and whether or not it fails.
Tier1Undisturbed ==
    LET tier1 == {s \in candidates : Tier(s) = 1}
        alone[S \in SUBSET tier1] ==
            IF S = {} THEN {}
            ELSE LET first == CHOOSE s \in S : \A t \in S : t = s \/ ~Ahead(t, s) IN
                 {first} \cup alone[{s \in S : ~Overlap(s, first)} \ {first}]
    IN  pc \in {"splicing", "sanitized"} => {s \in accepted : Tier(s) = 1} = alone[tier1]

\* The splices do what replacing all the spans at once does: no surrogate lands in the
\* wrong place when an earlier one was longer or shorter than what it replaced.
ReplacedAtOnce ==
    LET replaced == accepted \ replays
        from[i \in 0..Length] ==
            IF i = Length THEN <<>>
            ELSE IF \E s \in replaced : s.start = i
            THEN LET s == CHOOSE s \in replaced : s.start = i IN Surrogate(s) \o from[s.end]
            ELSE <<Character(i)>> \o from[i + 1]
    IN  pc = "sanitized" => newText = from[0]
=============================================================================
