-------------------------- MODULE DetectionProofs --------------------------
(***************************************************************************)
(* Theorems about Detection, for texts of any length and any detectors.    *)
(*                                                                         *)
(* NoOverlap is inductive with the types; OnlyOutranked is not.  It needs  *)
(* to know what the spans that resolve has gone through have in common     *)
(* (Settled: each is kept, or lost to a kept one) and that no span still   *)
(* pending is ahead of a kept one (KeptAhead).  That the text stays a      *)
(* sequence needs every span yet to be spliced to lie within it (InText).  *)
(*                                                                         *)
(* ReplacedAtOnce and Tier1Undisturbed compare resolve and the splices     *)
(* with recursive functions.  Each needs a lemma that the function exists  *)
(* (FromEquation, AloneEquation), proved by induction over a set of        *)
(* numbers (Downward), and an invariant: the text is the original before   *)
(* the last splice and replaced at once behind it (Rebuilding); what was   *)
(* reported of Tier 1 has just one resolution (Reported, OneResolution).   *)
(***************************************************************************)
EXTENDS Detection, TLAPS, SequenceTheorems, FiniteSetTheorems

\* The spans resolve has yet to look at; later `pending' holds the splices to do.
Unconsidered == IF pc = "resolving" THEN pending ELSE {}

Settled ==
    pc \in {"resolving", "splicing", "sanitized"} =>
        \A c \in candidates \ (accepted \cup Unconsidered) :
            \E kept \in accepted : Overlap(c, kept) /\ ~Ahead(c, kept)

KeptAhead ==
    pc = "resolving" => \A c \in pending, kept \in accepted : ~Ahead(c, kept)

InText ==
    /\ pc \in {"tier1", "tier2", "resolving"} => newText = Original
    /\ pc = "splicing" => \A s \in pending : s \in accepted /\ s.end <= Len(newText)

NothingYet == pc \in {"tier1", "tier2"} => accepted = {}

Inv == TypeOK /\ NoOverlap /\ NothingYet /\ KeptAhead /\ Settled /\ InText

Elements == Spans \cup {Character(i) : i \in 0..(Length - 1)}

LEMMA SpanFacts ==
    ASSUME NEW s \in Spans
    PROVE  s.start \in Nat /\ s.end \in Nat /\ s.start < s.end /\ s.end <= Length
  BY DetectionAssumptions DEF Spans

\* What the detectors report are spans of the region.
LEMMA ReportsAreSpans ==
    ASSUME NEW D, NEW S \in ReportsOf(D)
    PROVE  S \subseteq Spans
<1>1. PICK f \in [D -> UNION {Reports(d) : d \in D}] :
        S = UNION {f[d] : d \in D} /\ \A d \in D : f[d] \in Reports(d)
  BY DEF ReportsOf
<1>2. \A d \in D : Reports(d) \subseteq SUBSET Spans
  BY DEF Reports
<1> QED
  BY <1>1, <1>2

LEMMA SurrogateIsSequence ==
    ASSUME NEW s \in Spans
    PROVE  Surrogate(s) \in Seq(Elements)
<1> DEFINE n == IF SurrogateLength[s.detector] = None THEN Width(s)
                ELSE SurrogateLength[s.detector]
<1>1. s.detector \in Detectors /\ Width(s) \in Nat
  BY SpanFacts DEF Spans, Width
<1>2. n \in Nat
  BY <1>1, DetectionAssumptions
<1>3. Surrogate(s) = [i \in 1..n |-> s]
  BY DEF Surrogate
<1>4. s \in Elements
  BY DEF Elements
<1> HIDE DEF n
<1> QED
  BY <1>2, <1>3, <1>4

\* Splicing a span that lies within the text leaves a text, in which everything before
\* the span is still there.
LEMMA SplicedText ==
    ASSUME NEW text \in Seq(Elements), NEW s \in Spans, s.end <= Len(text)
    PROVE  /\ Spliced(text, s) \in Seq(Elements)
           /\ s.start <= Len(Spliced(text, s))
<1> DEFINE before == SubSeq(text, 1, s.start)
           after == SubSeq(text, s.end + 1, Len(text))
<1>1. s.start \in Nat /\ s.end \in Nat /\ s.start < s.end /\ Len(text) \in Nat
  BY SpanFacts
<1>2. \A i \in 1..Len(text) : text[i] \in Elements
  OBVIOUS
<1>3. before \in Seq(Elements) /\ Len(before) = s.start
  <2>1. \A i \in 1..s.start : text[i] \in Elements
    BY <1>1, <1>2
  <2> QED
    BY <1>1, <2>1, SubSeqProperties
<1>4. after \in Seq(Elements)
  <2>1. \A i \in (s.end + 1)..Len(text) : text[i] \in Elements
    BY <1>1, <1>2
  <2> QED
    BY <1>1, <2>1, SubSeqProperties
<1>5. Surrogate(s) \in Seq(Elements)
  BY SurrogateIsSequence
<1>6. Spliced(text, s) = before \o Surrogate(s) \o after
  BY DEF Spliced
<1> HIDE DEF before, after
<1> QED
  BY <1>1, <1>3, <1>4, <1>5, <1>6

LEMMA OriginalIsText == Original \in Seq(Elements) /\ Len(Original) = Length
<1>1. \A i \in 1..Length : Character(i - 1) \in Elements
  BY DetectionAssumptions DEF Elements
<1> QED
  BY <1>1, DetectionAssumptions DEF Original
-----------------------------------------------------------------------------
LEMMA InitInv == Init => Inv
<1> SUFFICES ASSUME Init PROVE Inv
  OBVIOUS
<1>1. TypeOK
  BY OriginalIsText DEF Init, TypeOK, Elements
<1> QED
  BY <1>1 DEF Init, Inv, NoOverlap, NothingYet, KeptAhead, Settled, InText

\* What Consider does to the spans kept and pending.
LEMMA ConsiderInv == Inv /\ Consider => Inv'
<1> SUFFICES ASSUME Inv, Consider PROVE Inv'
  OBVIOUS
<1>1. PICK s \in pending :
        /\ \A other \in pending : ~Ahead(other, s)
        /\ accepted' = IF \E kept \in accepted : Overlap(s, kept) THEN accepted
                       ELSE accepted \cup {s}
        /\ pending' = pending \ {s}
  BY DEF Consider
<1>2. pc = "resolving" /\ pc' = "resolving" /\ UNCHANGED <<candidates, newText, replays>>
  BY DEF Consider
<1>3. s \in Spans
  BY DEF Inv, TypeOK
<1>4. TypeOK'
  BY <1>1, <1>2, <1>3 DEF Inv, TypeOK
<1>5. NoOverlap'
  <2> SUFFICES ASSUME NEW a \in accepted', NEW b \in accepted', a # b
               PROVE  ~Overlap(a, b)
    BY DEF NoOverlap, Overlap
  <2>1. CASE \E kept \in accepted : Overlap(s, kept)
    BY <1>1, <2>1 DEF Inv, NoOverlap
  <2>2. CASE ~\E kept \in accepted : Overlap(s, kept)
    <3>1. \A kept \in accepted : ~Overlap(s, kept) /\ ~Overlap(kept, s)
      BY <2>2 DEF Overlap
    <3>2. accepted' = accepted \cup {s}
      BY <1>1, <2>2
    <3> QED
      BY <3>1, <3>2 DEF Inv, NoOverlap
  <2> QED
    BY <2>1, <2>2
<1>6. KeptAhead'
  <2> SUFFICES ASSUME NEW c \in pending', NEW kept \in accepted' PROVE ~Ahead(c, kept)
    BY DEF KeptAhead, Ahead, Tier, Width
  <2>1. c \in pending /\ (kept \in accepted \/ kept = s)
    BY <1>1
  <2> QED
    BY <1>1, <1>2, <2>1 DEF Inv, KeptAhead
<1>7. Settled'
  <2> SUFFICES ASSUME NEW c \in candidates \ (accepted' \cup pending')
               PROVE  \E kept \in accepted' : Overlap(c, kept) /\ ~Ahead(c, kept)
    BY <1>2 DEF Settled, Unconsidered, Overlap, Ahead, Tier, Width
  <2>1. accepted \subseteq accepted'
    BY <1>1
  <2>2. CASE c = s
    <3>1. PICK kept \in accepted : Overlap(s, kept)
      BY <1>1, <2>2
    <3>2. ~Ahead(s, kept)
      BY <1>2 DEF Inv, KeptAhead
    <3> QED
      BY <2>1, <2>2, <3>1, <3>2
  <2>3. CASE c # s
    <3>1. c \in candidates \ (accepted \cup pending)
      BY <1>1, <2>1, <2>3
    <3> QED
      BY <1>2, <2>1, <3>1 DEF Inv, Settled, Unconsidered
  <2> QED
    BY <2>2, <2>3
<1>8. NothingYet' /\ InText'
  BY <1>2 DEF Inv, NothingYet, InText
<1> QED
  BY <1>4, <1>5, <1>6, <1>7, <1>8 DEF Inv

\* What a splice does to the text, and to the spans still to be spliced.
LEMMA SpliceInv == Inv /\ Splice => Inv'
<1> SUFFICES ASSUME Inv, Splice PROVE Inv'
  OBVIOUS
<1>1. PICK s \in pending :
        /\ \A other \in pending : other.start <= s.start
        /\ newText' = Spliced(newText, s)
        /\ pending' = pending \ {s}
  BY DEF Splice
<1>2. pc = "splicing" /\ pc' = "splicing" /\ UNCHANGED <<candidates, accepted, replays>>
  BY DEF Splice
<1>3. s \in Spans /\ s \in accepted /\ s.end <= Len(newText) /\ newText \in Seq(Elements)
  BY <1>2 DEF Inv, TypeOK, InText, Elements
<1>4. newText' \in Seq(Elements) /\ s.start <= Len(newText')
  BY <1>1, <1>3, SplicedText
<1>5. TypeOK'
  BY <1>1, <1>2, <1>4 DEF Inv, TypeOK, Elements
<1>6. InText'
  <2> SUFFICES ASSUME NEW o \in pending' PROVE o \in accepted' /\ o.end <= Len(newText')
    BY <1>2 DEF InText
  <2>1. o \in pending /\ o # s /\ o \in accepted /\ o \in Spans
    BY <1>1, <1>2 DEF Inv, InText, TypeOK
  <2>2. ~Overlap(o, s) /\ o.start <= s.start
    BY <1>1, <1>3, <2>1 DEF Inv, NoOverlap
  <2>3. o.end <= s.start
    BY <1>3, <2>1, <2>2, SpanFacts DEF Overlap
  <2>4. Len(newText') \in Nat /\ s.start \in Nat /\ o.end \in Nat
    BY <1>3, <1>4, <2>1, SpanFacts
  <2> QED
    BY <1>2, <1>4, <2>1, <2>3, <2>4
<1>7. NoOverlap' /\ NothingYet' /\ KeptAhead' /\ Settled'
  BY <1>2 DEF Inv, NoOverlap, NothingYet, KeptAhead, Settled, Unconsidered, Overlap, Ahead,
      Tier, Width
<1> QED
  BY <1>5, <1>6, <1>7 DEF Inv

\* Of the other steps only the detectors' and Recognise touch what Inv speaks of.
LEMMA DetectInv == Inv /\ (RunTier1 \/ RunTier2 \/ Tier2FailsOpen) => Inv'
<1> SUFFICES ASSUME Inv, RunTier1 \/ RunTier2 \/ Tier2FailsOpen PROVE Inv'
  OBVIOUS
<1>1. accepted = {} /\ accepted' = {} /\ newText' = newText /\ newText = Original
      /\ pc' \in {"tier2", "resolving"} /\ UNCHANGED replays
  BY DEF Inv, NothingYet, InText, RunTier1, RunTier2, Tier2FailsOpen
<1>2. candidates' \subseteq Spans
  <2>1. CASE RunTier1
    BY <2>1, ReportsAreSpans DEF RunTier1
  <2>2. CASE RunTier2
    BY <2>2, ReportsAreSpans DEF RunTier2, Inv, TypeOK
  <2>3. CASE Tier2FailsOpen
    BY <2>3 DEF Tier2FailsOpen, Inv, TypeOK
  <2> QED
    BY <2>1, <2>2, <2>3
<1>3. pending' \subseteq Spans /\ (pc' = "resolving" => pending' = candidates')
  BY <1>2 DEF RunTier1, RunTier2, Tier2FailsOpen, Inv, TypeOK
<1>4. TypeOK'
  BY <1>1, <1>2, <1>3 DEF Inv, TypeOK
<1> QED
  BY <1>1, <1>3, <1>4 DEF Inv, NoOverlap, NothingYet, KeptAhead, Settled, Unconsidered, InText

LEMMA RecogniseInv == Inv /\ Recognise => Inv'
<1> SUFFICES ASSUME Inv, Recognise PROVE Inv'
  OBVIOUS
<1>1. /\ pc = "resolving" /\ pc' = "splicing" /\ pending = {}
      /\ pending' \subseteq accepted /\ replays' \subseteq accepted
      /\ UNCHANGED <<candidates, accepted, newText>>
  BY DEF Recognise
<1>2. TypeOK'
  BY <1>1 DEF Inv, TypeOK
<1>3. InText'
  <2> SUFFICES ASSUME NEW s \in pending' PROVE s \in accepted' /\ s.end <= Len(newText')
    BY <1>1 DEF InText
  <2>1. newText' = Original /\ s \in Spans
    BY <1>1 DEF Inv, InText, TypeOK
  <2> QED
    BY <1>1, <2>1, SpanFacts, OriginalIsText
<1>4. NoOverlap' /\ NothingYet' /\ KeptAhead' /\ Settled'
  BY <1>1 DEF Inv, NoOverlap, NothingYet, KeptAhead, Settled, Unconsidered, Overlap, Ahead,
      Tier, Width
<1> QED
  BY <1>2, <1>3, <1>4 DEF Inv

\* Every step keeps Inv.
LEMMA NextInv == Inv /\ [Next]_vars => Inv'
<1> SUFFICES ASSUME Inv, [Next]_vars PROVE Inv'
  OBVIOUS
<1>1. CASE RunTier1 \/ RunTier2 \/ Tier2FailsOpen
  BY <1>1, DetectInv
<1>2. CASE Consider
  BY <1>2, ConsiderInv
<1>3. CASE Recognise
  BY <1>3, RecogniseInv
<1>4. CASE Splice
  BY <1>4, SpliceInv
<1>5. CASE Tier2FailsClosed \/ Refuse \/ Finish
  BY <1>5 DEF Tier2FailsClosed, Refuse, Finish, Inv, TypeOK, NoOverlap, NothingYet, KeptAhead,
      Settled, Unconsidered, InText
<1>6. CASE UNCHANGED vars
  BY <1>6 DEF vars, Inv, TypeOK, NoOverlap, NothingYet, KeptAhead, Settled, Unconsidered, InText
<1> QED
  BY <1>1, <1>2, <1>3, <1>4, <1>5, <1>6 DEF Next

THEOREM DetectionInvariance == Spec => []Inv
  BY InitInv, NextInv, PTL DEF Spec

\* The spans are always spans of the region and the text a text: no splice reaches past
\* its end, whatever the lengths of the surrogates.
THEOREM DetectionTypeCorrect == Spec => []TypeOK
  BY DetectionInvariance, PTL DEF Inv

\* precedence.resolve keeps no two spans that share a character, for any detectors.
THEOREM NoOverlapHolds == Spec => []NoOverlap
  BY DetectionInvariance, PTL DEF Inv

\* precedence.resolve gives a span up only for a kept one that it does not outrank.
THEOREM OnlyOutrankedHolds == Spec => []OnlyOutranked
<1>1. Inv => OnlyOutranked
  BY DEF Inv, Settled, Unconsidered, OnlyOutranked
<1> QED
  BY <1>1, DetectionInvariance, PTL
-----------------------------------------------------------------------------
(* Induction, by the least element of a set of numbers *)

\* Every set of numbers that is not empty has a least element.
LEMMA LeastNatural ==
    ASSUME NEW S \in SUBSET Nat, S # {}
    PROVE  \E m \in S : \A k \in S : m <= k
<1> DEFINE T == {0..k : k \in S}
<1>1. T \subseteq FiniteSubsetsOf(Nat)
  <2>1. \A k \in S : IsFiniteSet(0..k) /\ 0..k \subseteq Nat
    BY FS_Interval
  <2> QED
    BY <2>1 DEF FiniteSubsetsOf
<1>2. PICK x \in T : \A y \in T : <<y, x>> \notin StrictSubsetOrdering(Nat)
  <2>1. T # {}
    OBVIOUS
  <2> HIDE DEF T
  <2> QED
    BY <1>1, <2>1, FS_StrictSubsetOrderingWellFounded, WFMin
<1>3. PICK m \in S : x = 0..m
  OBVIOUS
<1>4. ASSUME NEW k \in S, k < m PROVE FALSE
  <2>1. 0..k \in T /\ 0..k \subseteq 0..m /\ 0..k # 0..m
    BY <1>4
  <2>2. 0..k \subseteq Nat /\ 0..m \subseteq Nat
    OBVIOUS
  <2>3. <<0..k, x>> \in StrictSubsetOrdering(Nat)
    BY <1>3, <2>1, <2>2 DEF StrictSubsetOrdering
  <2> QED
    BY <1>2, <2>1, <2>3
<1> QED
  BY <1>4

\* Induction from m down to 0, over a set rather than a predicate.
LEMMA Downward ==
    ASSUME NEW m \in Nat, NEW S, m \in S, \A n \in 1..m : n \in S => n - 1 \in S
    PROVE  0..m \subseteq S
<1> DEFINE Missed == {n \in Nat : n <= m /\ m - n \notin S}
<1> SUFFICES ASSUME Missed # {} PROVE FALSE
  <2>1. ASSUME NEW i \in 0..m PROVE i \in S
    <3>1. m - i \in Nat /\ m - i <= m /\ m - (m - i) = i
      OBVIOUS
    <3> QED
      BY <3>1
  <2> QED
    BY <2>1
<1>1. PICK n \in Missed : \A k \in Missed : n <= k
  <2> HIDE DEF Missed
  <2>1. Missed \in SUBSET Nat
    BY DEF Missed
  <2> QED
    BY <2>1, LeastNatural
<1>2. n # 0
  OBVIOUS
<1>3. n - 1 \in Nat /\ n - 1 \notin Missed
  BY <1>1, <1>2
<1>4. m - (n - 1) \in S /\ m - (n - 1) \in 1..m
  BY <1>3
<1>5. m - n \in S
  <2>1. (m - (n - 1)) - 1 = m - n
    OBVIOUS
  <2> QED
    BY <1>4, <2>1
<1> QED
  BY <1>5
-----------------------------------------------------------------------------
(* What replacing all the spans at once makes of the text *)

\* The recursion of ReplacedAtOnce, with the function it defines as a parameter.
Rebuilt(R, f, i) ==
    IF i = Length THEN <<>>
    ELSE IF \E s \in R : s.start = i
    THEN LET s == CHOOSE s \in R : s.start = i IN Surrogate(s) \o f[s.end]
    ELSE <<Character(i)>> \o f[i + 1]

From(R) == CHOOSE f : f = [i \in 0..Length |-> Rebuilt(R, f, i)]

\* It looks only further back in the text.
LEMMA RebuiltLooksBack ==
    ASSUME NEW R \in SUBSET Spans, NEW f, NEW g, NEW i \in 0..Length,
           \A j \in (i + 1)..Length : f[j] = g[j]
    PROVE  Rebuilt(R, f, i) = Rebuilt(R, g, i)
<1>1. CASE i = Length
  BY <1>1 DEF Rebuilt
<1>2. CASE i # Length /\ \E s \in R : s.start = i
  <2> DEFINE s == CHOOSE s \in R : s.start = i
  <2>1. s \in R /\ s.start = i
    BY <1>2
  <2>2. s.end \in (i + 1)..Length
    BY <2>1, SpanFacts, DetectionAssumptions
  <2>3. Rebuilt(R, f, i) = Surrogate(s) \o f[s.end] /\ Rebuilt(R, g, i) = Surrogate(s) \o g[s.end]
    BY <1>2 DEF Rebuilt
  <2> HIDE DEF s
  <2> QED
    BY <2>2, <2>3
<1>3. CASE i # Length /\ ~\E s \in R : s.start = i
  <2>1. i + 1 \in (i + 1)..Length
    BY <1>3, DetectionAssumptions
  <2> QED
    BY <1>3, <2>1 DEF Rebuilt
<1> QED
  BY <1>1, <1>2, <1>3

\* So there is a function that satisfies it.
LEMMA FromEquation ==
    ASSUME NEW R \in SUBSET Spans
    PROVE  \A i \in 0..Length : From(R)[i] = Rebuilt(R, From(R), i)
<1> DEFINE Solves(g, n) == \A i \in n..Length : g[i] = Rebuilt(R, g, i)
           Solved == {n \in 0..Length : \E g : Solves(g, n)}
<1>1. Length \in Solved
  <2> DEFINE g == [i \in 0..Length |-> <<>>]
  <2>1. \A i \in Length..Length : i = Length
    BY DetectionAssumptions
  <2>2. Solves(g, Length)
    BY <2>1, DetectionAssumptions DEF Rebuilt
  <2> HIDE DEF g, Solves
  <2> QED
    BY <2>2, DetectionAssumptions
<1>2. ASSUME NEW n \in 1..Length, n \in Solved PROVE n - 1 \in Solved
  <2>1. PICK g : Solves(g, n)
    BY <1>2
  <2> DEFINE h == [i \in 0..Length |-> IF i = n - 1 THEN Rebuilt(R, g, i) ELSE g[i]]
  <2>2. \A i \in (n - 1)..Length : \A j \in (i + 1)..Length : h[j] = g[j]
    BY DetectionAssumptions
  <2>3. \A i \in (n - 1)..Length : Rebuilt(R, h, i) = Rebuilt(R, g, i)
    <3> HIDE DEF h
    <3>1. \A i \in (n - 1)..Length : i \in 0..Length
      BY DetectionAssumptions
    <3> QED
      BY <2>2, <3>1, RebuiltLooksBack
  <2>4. \A i \in (n - 1)..Length : h[i] = Rebuilt(R, g, i)
    BY <2>1, DetectionAssumptions
  <2>5. Solves(h, n - 1)
    <3> HIDE DEF h
    <3> QED
      BY <2>3, <2>4
  <2>6. n - 1 \in 0..Length
    BY DetectionAssumptions
  <2> HIDE DEF h, Solves
  <2> QED
    BY <2>5, <2>6
<1>3. 0 \in Solved
  <2> HIDE DEF Solved
  <2>1. 0..Length \subseteq Solved
    BY <1>1, <1>2, Downward, DetectionAssumptions
  <2> QED
    BY <2>1, DetectionAssumptions
<1>4. PICK g : Solves(g, 0)
  BY <1>3
<1> DEFINE h == [i \in 0..Length |-> g[i]]
<1>5. \A i \in 0..Length : Rebuilt(R, h, i) = Rebuilt(R, g, i)
  <2>1. \A i \in 0..Length : \A j \in (i + 1)..Length : h[j] = g[j]
    BY DetectionAssumptions
  <2> HIDE DEF h
  <2> QED
    BY <2>1, RebuiltLooksBack
<1>6. h = [i \in 0..Length |-> Rebuilt(R, h, i)]
  <2>1. \A i \in 0..Length : h[i] = Rebuilt(R, h, i)
    BY <1>4, <1>5
  <2>2. h = [i \in 0..Length |-> h[i]]
    OBVIOUS
  <2> HIDE DEF h
  <2> QED
    BY <2>1, <2>2
<1>7. From(R) = [i \in 0..Length |-> Rebuilt(R, From(R), i)]
  <2> HIDE DEF h
  <2> QED
    BY <1>6 DEF From
<1> QED
  BY <1>7

\* It makes texts.
LEMMA FromIsText ==
    ASSUME NEW R \in SUBSET Spans
    PROVE  \A i \in 0..Length : From(R)[i] \in Seq(Elements)
<1> DEFINE F == From(R)
           Typed == {n \in 0..Length : \A i \in n..Length : F[i] \in Seq(Elements)}
<1>1. Length \in Typed
  <2>1. Length \in 0..Length /\ \A i \in Length..Length : i = Length
    BY DetectionAssumptions
  <2> HIDE DEF F
  <2>2. F[Length] = Rebuilt(R, F, Length)
    BY <2>1, FromEquation DEF F
  <2>3. F[Length] \in Seq(Elements)
    BY <2>2 DEF Rebuilt
  <2> QED
    BY <2>1, <2>3
<1>2. ASSUME NEW n \in 1..Length, n \in Typed PROVE n - 1 \in Typed
  <2>1. F[n - 1] = Rebuilt(R, F, n - 1) /\ n - 1 \in 0..Length /\ n - 1 # Length
    BY FromEquation, DetectionAssumptions
  <2> HIDE DEF F
  <2>2. CASE \E s \in R : s.start = n - 1
    <3> DEFINE s == CHOOSE s \in R : s.start = n - 1
    <3>1. s \in R /\ s.start = n - 1
      BY <2>2
    <3>2. F[n - 1] = Surrogate(s) \o F[s.end]
      BY <2>1, <2>2 DEF Rebuilt
    <3> HIDE DEF s
    <3>3. s.end \in n..Length
      BY <3>1, SpanFacts, DetectionAssumptions
    <3>4. F[n - 1] \in Seq(Elements)
      BY <1>2, <3>1, <3>2, <3>3, SurrogateIsSequence, ConcatProperties
    <3> QED
      BY <1>2, <3>4, <2>1
  <2>3. CASE ~\E s \in R : s.start = n - 1
    <3>1. F[n - 1] = <<Character(n - 1)>> \o F[n]
      BY <2>1, <2>3 DEF Rebuilt
    <3>2. Character(n - 1) \in Elements
      BY <2>1, DetectionAssumptions DEF Elements
    <3>3. F[n] \in Seq(Elements)
      BY <1>2, DetectionAssumptions
    <3>4. F[n - 1] \in Seq(Elements)
      BY <3>1, <3>2, <3>3
    <3> QED
      BY <1>2, <2>1, <3>4
  <2> QED
    BY <2>2, <2>3
<1>3. 0..Length \subseteq Typed
  <2> HIDE DEF Typed
  <2> QED
    BY <1>1, <1>2, Downward, DetectionAssumptions
<1> QED
  BY <1>3, DetectionAssumptions

\* Where no span starts it leaves the text as it was.
LEMMA Between ==
    ASSUME NEW R \in SUBSET Spans, NEW m \in 0..Length, NEW k \in 0..m,
           \A r \in R : ~(k <= r.start /\ r.start < m)
    PROVE  From(R)[k] = SubSeq(Original, k + 1, m) \o From(R)[m]
<1> DEFINE F == From(R)
           Copied == {n \in 0..m : n >= k => F[n] = SubSeq(Original, n + 1, m) \o F[m]}
<1>1. /\ m \in Nat /\ m <= Length /\ Length \in Nat
      /\ Original \in Seq(Elements) /\ Len(Original) = Length
  BY OriginalIsText, DetectionAssumptions
<1>2. F[m] \in Seq(Elements)
  BY <1>1, FromIsText
<1> HIDE DEF F
<1>3. m \in Copied
  <2>1. SubSeq(Original, m + 1, m) = <<>>
    BY <1>1, SubSeqEmpty
  <2>2. <<>> \o F[m] = F[m]
    BY <1>2, ConcatEmptySeq
  <2>3. F[m] = SubSeq(Original, m + 1, m) \o F[m]
    BY <2>1, <2>2, Zenon
  <2> QED
    BY <1>1, <2>3
<1>4. ASSUME NEW n \in 1..m, n \in Copied PROVE n - 1 \in Copied
  <2>0. n - 1 \in 0..m /\ (n - 1) + 1 = n
    BY <1>1
  <2> SUFFICES ASSUME n - 1 >= k
               PROVE  F[n - 1] = SubSeq(Original, (n - 1) + 1, m) \o F[m]
    BY <2>0
  <2>1. n - 1 \in 0..Length /\ n - 1 # Length /\ (n - 1) + 1 = n
    BY <1>1
  <2>2. ~\E s \in R : s.start = n - 1
    BY <1>1
  <2>3. F[n - 1] = <<Character(n - 1)>> \o F[n]
    <3>1. F[n - 1] = Rebuilt(R, F, n - 1)
      BY <2>1, FromEquation DEF F
    <3> QED
      BY <2>1, <2>2, <3>1 DEF Rebuilt
  <2>4. F[n] = SubSeq(Original, n + 1, m) \o F[m]
    <3>1. n >= k
      BY <1>1
    <3> QED
      BY <1>4, <3>1
  <2>5. Original[n] = Character(n - 1)
    BY <1>1 DEF Original
  <2>6. SubSeq(Original, n, m) = <<Character(n - 1)>> \o SubSeq(Original, n + 1, m)
    BY <1>1, <2>5, SubSeqRecursiveFirst
  <2>7. SubSeq(Original, n + 1, m) \in Seq(Elements)
    <3>1. \A i \in (n + 1)..m : Original[i] \in Elements
      BY <1>1
    <3> QED
      BY <1>1, <3>1, SubSeqProperties
  <2>8. Character(n - 1) \in Elements
    BY <1>1 DEF Elements
  <2>9. <<Character(n - 1)>> \in Seq(Elements)
    BY <2>8
  <2> DEFINE rest == SubSeq(Original, n + 1, m)
             last == F[m]
  <2>10. (<<Character(n - 1)>> \o rest) \o last = <<Character(n - 1)>> \o (rest \o last)
    <3>1. rest \in Seq(Elements) /\ last \in Seq(Elements)
      BY <1>2, <2>7
    <3> HIDE DEF rest, last
    <3> QED
      BY <2>9, <3>1, ConcatAssociative
  <2> QED
    BY <2>0, <2>3, <2>4, <2>6, <2>10
<1>5. k \in Copied
  <2> HIDE DEF Copied
  <2>1. 0..m \subseteq Copied
    BY <1>1, <1>3, <1>4, Downward
  <2> QED
    BY <2>1
<1>6. k >= k
  BY <1>1
<1> QED
  BY <1>5, <1>6 DEF F

\* What a splice takes from a text whose start is still the original's.
LEMMA Untouched ==
    ASSUME NEW e \in 0..Length, NEW st \in 0..e, NEW rest \in Seq(Elements)
    PROVE  LET text == SubSeq(Original, 1, e) \o rest IN
               /\ SubSeq(text, 1, st) = SubSeq(Original, 1, st)
               /\ SubSeq(text, e + 1, Len(text)) = rest
<1> DEFINE front == SubSeq(Original, 1, e)
           text == front \o rest
<1>1. /\ Length \in Nat /\ e \in Nat /\ st \in Nat
      /\ Original \in Seq(Elements) /\ Len(Original) = Length
  BY OriginalIsText, DetectionAssumptions
<1>2. front \in Seq(Elements) /\ Len(front) = e
  <2>1. \A i \in 1..e : Original[i] \in Elements
    BY <1>1
  <2> QED
    BY <1>1, <2>1, SubSeqProperties
<1>3. SubSeq(text, 1, st) = SubSeq(Original, 1, st)
  <2>1. CASE st = 0
    BY <2>1, SubSeqEmpty
  <2>2. CASE st # 0
    <3>1. 1 \in 1..Len(front) /\ st \in 1..Len(front)
      BY <1>1, <1>2, <2>2
    <3>2. SubSeq(text, 1, st) = SubSeq(front, 1, st)
      BY <1>2, <3>1, SubSeqOfConcat1
    <3>3. SubSeq(front, 1, st) = SubSeq(Original, 1 + 1 - 1, 1 + st - 1)
      <4>1. 1 \in 1..Len(Original) /\ e \in 1..Len(Original)
            /\ 1 \in 1..(e - 1 + 1) /\ st \in 1..(e - 1 + 1)
        BY <1>1, <2>2
      <4> QED
        BY <1>1, <4>1, SubSeqOfSubSeq
    <3>4. 1 + 1 - 1 = 1 /\ 1 + st - 1 = st
      BY <1>1
    <3> QED
      BY <3>2, <3>3, <3>4
  <2> QED
    BY <2>1, <2>2
<1>4. SubSeq(text, e + 1, Len(text)) = rest
  <2>1. Len(rest) \in Nat /\ Len(text) = e + Len(rest)
    BY <1>2, ConcatProperties
  <2> HIDE DEF text
  <2>2. CASE rest = <<>>
    BY <1>1, <2>1, <2>2, SubSeqEmpty
  <2>3. CASE rest # <<>>
    <3>1. Len(rest) \in Nat \ {0}
      BY <2>3, EmptySeq
    <3>2. e + 1 \in (Len(front) + 1)..(Len(front) + Len(rest))
          /\ Len(text) \in (Len(front) + 1)..(Len(front) + Len(rest))
      BY <1>1, <1>2, <2>1, <3>1
    <3>3. SubSeq(text, e + 1, Len(text))
            = SubSeq(rest, (e + 1) - Len(front), Len(text) - Len(front))
      <4> HIDE DEF front
      <4> QED
        BY <1>2, <3>2, SubSeqOfConcat2 DEF text
    <3>4. (e + 1) - Len(front) = 1 /\ Len(text) - Len(front) = Len(rest)
      BY <1>1, <1>2, <2>1
    <3> QED
      BY <3>3, <3>4, SubSeqFull
  <2> QED
    BY <2>2, <2>3
<1> QED
  BY <1>3, <1>4
-----------------------------------------------------------------------------
Replaced == accepted \ replays

\* While the spans are spliced from the right, the text is the original up to any place
\* between those yet to be spliced and those that have been, and behind it what replacing
\* all at once makes of the rest.
Rebuilding ==
    /\ pc = "splicing" =>
          /\ pending \subseteq Replaced
          /\ \A p \in pending, d \in Replaced \ pending : p.end <= d.start
          /\ \A k \in 0..Length :
                (/\ \A p \in pending : p.end <= k
                 /\ \A d \in Replaced \ pending : k <= d.start)
                => newText = SubSeq(Original, 1, k) \o From(Replaced)[k]
    /\ pc = "sanitized" => newText = From(Replaced)[0]

LEMMA RecogniseRebuilding == Inv /\ Recognise => Rebuilding'
<1> SUFFICES ASSUME Inv, Recognise PROVE Rebuilding'
  OBVIOUS
<1>1. /\ pc' = "splicing" /\ accepted' = accepted /\ newText' = newText
      /\ pending' = accepted \ replays' /\ newText = Original
  BY DEF Recognise, Inv, InText
<1>2. Replaced' = pending'
  BY <1>1 DEF Replaced
<1>3. Replaced' \subseteq Spans
  BY <1>1 DEF Inv, TypeOK, Replaced
<1>4. ASSUME NEW k \in 0..Length, \A p \in pending' : p.end <= k
      PROVE  newText' = SubSeq(Original, 1, k) \o From(Replaced')[k]
  <2>1. Length \in Nat /\ Original \in Seq(Elements) /\ Len(Original) = Length
    BY OriginalIsText, DetectionAssumptions
  <2>2. \A r \in Replaced' : ~(k <= r.start /\ r.start < Length)
    BY <1>2, <1>3, <1>4, SpanFacts
  <2>3. From(Replaced')[k] = SubSeq(Original, k + 1, Length) \o From(Replaced')[Length]
    <3>1. Length \in 0..Length
      BY <2>1
    <3> QED
      BY <1>3, <2>2, <3>1, Between
  <2>4. From(Replaced')[Length] = <<>>
    <3>1. From(Replaced')[Length] = Rebuilt(Replaced', From(Replaced'), Length)
      BY <1>3, <2>1, FromEquation
    <3> QED
      BY <3>1 DEF Rebuilt
  <2>5. SubSeq(Original, k + 1, Length) \in Seq(Elements)
    <3>1. \A i \in (k + 1)..Length : Original[i] \in Elements
      BY <2>1
    <3> QED
      BY <2>1, <3>1, SubSeqProperties
  <2>6. SubSeq(Original, 1, k) \o SubSeq(Original, k + 1, Length) = Original
    <3>1. 1 \in 1..(Len(Original) + 1) /\ k \in (1 - 1)..Len(Original)
          /\ Length \in k..Len(Original)
      BY <2>1
    <3>2. SubSeq(Original, 1, k) \o SubSeq(Original, k + 1, Length) = SubSeq(Original, 1, Length)
      BY <2>1, <3>1, ConcatAdjacentSubSeq
    <3> QED
      BY <2>1, <3>2, SubSeqFull
  <2>7. SubSeq(Original, k + 1, Length) \o <<>> = SubSeq(Original, k + 1, Length)
    BY <2>5, ConcatEmptySeq
  <2> QED
    BY <1>1, <2>3, <2>4, <2>6, <2>7
<1> QED
  BY <1>1, <1>2, <1>4 DEF Rebuilding

LEMMA SpliceRebuilding == Inv /\ Rebuilding /\ Splice => Rebuilding'
<1> SUFFICES ASSUME Inv, Rebuilding, Splice PROVE Rebuilding'
  OBVIOUS
<1>1. PICK s \in pending :
        /\ \A other \in pending : other.start <= s.start
        /\ newText' = Spliced(newText, s)
        /\ pending' = pending \ {s}
  BY DEF Splice
<1>2. pc = "splicing" /\ pc' = "splicing" /\ UNCHANGED <<accepted, replays>>
  BY DEF Splice
<1> DEFINE R == Replaced
           F == From(R)
<1>3. R' = R /\ R \subseteq accepted
  BY <1>2 DEF Replaced
<1>4. R \in SUBSET Spans /\ pending \subseteq R /\ s \in R
  BY <1>2, <1>3 DEF Inv, TypeOK, Rebuilding
<1>5. \A p \in pending, d \in R \ pending : p.end <= d.start
  BY <1>2 DEF Rebuilding
<1>6. \A k \in 0..Length :
         (/\ \A p \in pending : p.end <= k
          /\ \A d \in R \ pending : k <= d.start)
         => newText = SubSeq(Original, 1, k) \o F[k]
  BY <1>2 DEF Rebuilding
<1> HIDE DEF R
<1>7. \A a, b \in R : a # b => ~Overlap(a, b)
  BY <1>3 DEF Inv, NoOverlap
<1>8. s.start \in Nat /\ s.end \in Nat /\ s.start < s.end /\ s.end <= Length /\ Length \in Nat
  BY <1>4, SpanFacts, DetectionAssumptions
<1>9. \A p \in pending' : p.end <= s.start /\ p \in R /\ p \in Spans
  <2> SUFFICES ASSUME NEW p \in pending' PROVE p.end <= s.start /\ p \in R /\ p \in Spans
    OBVIOUS
  <2>1. p \in R /\ p # s /\ p.start <= s.start /\ p \in Spans
    BY <1>1, <1>4
  <2>2. ~Overlap(p, s)
    BY <1>4, <1>7, <2>1
  <2> QED
    BY <1>8, <2>1, <2>2, SpanFacts DEF Overlap
<1>10. newText = SubSeq(Original, 1, s.end) \o F[s.end]
  <2>1. \A p \in pending : p.end <= s.end
    <3> SUFFICES ASSUME NEW p \in pending PROVE p.end <= s.end
      OBVIOUS
    <3>1. CASE p = s
      BY <1>8, <3>1
    <3>2. CASE p # s
      <4>1. p.end <= s.start /\ p \in Spans
        BY <1>1, <1>9, <3>2
      <4> QED
        BY <1>8, <4>1, SpanFacts
    <3> QED
      BY <3>1, <3>2
  <2>2. \A d \in R \ pending : s.end <= d.start
    BY <1>1, <1>5
  <2> QED
    <3>1. s.end \in 0..Length
      BY <1>8
    <3> HIDE DEF F
    <3> QED
      BY <1>6, <2>1, <2>2, <3>1
<1>11. F[s.start] = Surrogate(s) \o F[s.end]
  <2>1. F[s.start] = Rebuilt(R, F, s.start)
    BY <1>4, <1>8, FromEquation
  <2>2. \A t \in R : t.start = s.start => t = s
    <3> SUFFICES ASSUME NEW t \in R, t.start = s.start, t # s PROVE FALSE
      OBVIOUS
    <3>1. t \in Spans /\ ~Overlap(t, s)
      BY <1>4, <1>7
    <3> QED
      BY <1>8, <3>1, SpanFacts DEF Overlap
  <2>3. (CHOOSE t \in R : t.start = s.start) = s
    BY <1>4, <2>2
  <2>4. s.start # Length
    BY <1>8
  <2>5. \E t \in R : t.start = s.start
    BY <1>4
  <2> HIDE DEF F
  <2>6. Rebuilt(R, F, s.start)
          = LET t == CHOOSE t \in R : t.start = s.start IN Surrogate(t) \o F[t.end]
    BY <2>4, <2>5 DEF Rebuilt
  <2> QED
    BY <2>1, <2>3, <2>6
<1>12. F[s.end] \in Seq(Elements) /\ F[s.start] \in Seq(Elements)
  BY <1>4, <1>8, FromIsText
<1>13. newText' = SubSeq(Original, 1, s.start) \o F[s.start]
  <2> HIDE DEF F
  <2>1. /\ SubSeq(newText, 1, s.start) = SubSeq(Original, 1, s.start)
        /\ SubSeq(newText, s.end + 1, Len(newText)) = F[s.end]
    <3>1. s.end \in 0..Length /\ s.start \in 0..s.end
      BY <1>8
    <3> QED
      BY <1>10, <1>12, <3>1, Untouched
  <2>2. newText' = (SubSeq(Original, 1, s.start) \o Surrogate(s)) \o F[s.end]
    BY <1>1, <2>1 DEF Spliced
  <2>3. SubSeq(Original, 1, s.start) \in Seq(Elements) /\ Surrogate(s) \in Seq(Elements)
    <3>1. \A i \in 1..s.start : Original[i] \in Elements
      BY <1>8, OriginalIsText
    <3> QED
      BY <1>4, <1>8, <3>1, SubSeqProperties, SurrogateIsSequence
  <2> DEFINE front == SubSeq(Original, 1, s.start)
             middle == Surrogate(s)
             last == F[s.end]
  <2>4. (front \o middle) \o last = front \o (middle \o last)
    <3>1. front \in Seq(Elements) /\ middle \in Seq(Elements) /\ last \in Seq(Elements)
      BY <1>12, <2>3
    <3> HIDE DEF front, middle, last
    <3> QED
      BY <3>1, ConcatAssociative
  <2> QED
    BY <1>11, <2>2, <2>4
<1>14. \A p \in pending', d \in R' \ pending' : p.end <= d.start
  <2> SUFFICES ASSUME NEW p \in pending', NEW d \in R \ pending' PROVE p.end <= d.start
    BY <1>3
  <2>1. d = s \/ d \in R \ pending
    BY <1>1
  <2> QED
    BY <1>1, <1>5, <1>9, <2>1
<1>15. ASSUME NEW k \in 0..Length, \A p \in pending' : p.end <= k,
              \A d \in R \ pending' : k <= d.start
       PROVE  newText' = SubSeq(Original, 1, k) \o F[k]
  <2>1. k \in 0..s.start /\ s.start \in 0..Length
    BY <1>1, <1>4, <1>8, <1>15
  <2>2. \A r \in R : ~(k <= r.start /\ r.start < s.start)
    <3> SUFFICES ASSUME NEW r \in R, k <= r.start, r.start < s.start PROVE FALSE
      OBVIOUS
    <3>1. r \in Spans /\ k \in Nat
      BY <1>4
    <3>2. CASE r \in pending'
      BY <1>15, <3>1, <3>2, SpanFacts
    <3>3. CASE r = s
      BY <1>8, <3>3
    <3>4. CASE r \in R \ pending
      BY <1>1, <1>5, <1>8, <3>1, <3>4, SpanFacts
    <3> QED
      BY <1>1, <3>2, <3>3, <3>4
  <2>3. F[k] = SubSeq(Original, k + 1, s.start) \o F[s.start]
    BY <1>4, <2>1, <2>2, Between
  <2> HIDE DEF F
  <2>4. SubSeq(Original, 1, k) \o SubSeq(Original, k + 1, s.start) = SubSeq(Original, 1, s.start)
    <3>1. 1 \in 1..(Len(Original) + 1) /\ k \in (1 - 1)..Len(Original)
          /\ s.start \in k..Len(Original)
      BY <1>8, <2>1, OriginalIsText
    <3> QED
      BY <3>1, OriginalIsText, ConcatAdjacentSubSeq
  <2>5. SubSeq(Original, 1, k) \in Seq(Elements) /\ SubSeq(Original, k + 1, s.start) \in Seq(Elements)
    <3>1. /\ \A i \in 1..k : Original[i] \in Elements
          /\ \A i \in (k + 1)..s.start : Original[i] \in Elements
      BY <1>8, <2>1, OriginalIsText
    <3> QED
      BY <1>8, <2>1, <3>1, SubSeqProperties
  <2> DEFINE front == SubSeq(Original, 1, k)
             middle == SubSeq(Original, k + 1, s.start)
             last == F[s.start]
  <2>6. (front \o middle) \o last = front \o (middle \o last)
    <3>1. front \in Seq(Elements) /\ middle \in Seq(Elements) /\ last \in Seq(Elements)
      BY <1>12, <2>5
    <3> HIDE DEF front, middle, last
    <3> QED
      BY <3>1, ConcatAssociative, SMTT(30)
  <2> QED
    BY <1>13, <2>3, <2>4, <2>6
<1>16. pending' \subseteq R'
  BY <1>1, <1>3, <1>4
<1> QED
  BY <1>2, <1>3, <1>14, <1>15, <1>16 DEF Rebuilding, R

LEMMA FinishRebuilding == Inv /\ Rebuilding /\ Finish => Rebuilding'
<1> SUFFICES ASSUME Inv, Rebuilding, Finish PROVE Rebuilding'
  OBVIOUS
<1>1. /\ pc = "splicing" /\ pc' = "sanitized" /\ pending = {}
      /\ UNCHANGED <<accepted, replays, newText>>
  BY DEF Finish
<1>2. Replaced \subseteq Spans
  BY DEF Inv, TypeOK, Replaced
<1>3. newText = SubSeq(Original, 1, 0) \o From(Replaced)[0]
  <2>1. \A d \in Replaced : 0 <= d.start
    BY <1>2, SpanFacts
  <2>2. 0 \in 0..Length
    BY DetectionAssumptions
  <2>3. \A k \in 0..Length : (\A d \in Replaced : k <= d.start) =>
           newText = SubSeq(Original, 1, k) \o From(Replaced)[k]
    BY <1>1 DEF Rebuilding
  <2> QED
    BY <2>1, <2>2, <2>3
<1>4. SubSeq(Original, 1, 0) = <<>> /\ From(Replaced)[0] \in Seq(Elements)
  BY <1>2, SubSeqEmpty, FromIsText, DetectionAssumptions
<1>5. newText = From(Replaced)[0]
  BY <1>3, <1>4, ConcatEmptySeq
<1>6. Replaced' = Replaced
  BY <1>1 DEF Replaced
<1> QED
  BY <1>1, <1>5, <1>6 DEF Rebuilding

LEMMA NextRebuilding == Inv /\ Rebuilding /\ [Next]_vars => Rebuilding'
<1> SUFFICES ASSUME Inv, Rebuilding, [Next]_vars PROVE Rebuilding'
  OBVIOUS
<1>1. CASE Recognise
  BY <1>1, RecogniseRebuilding
<1>2. CASE Splice
  BY <1>2, SpliceRebuilding
<1>3. CASE Finish
  BY <1>3, FinishRebuilding
<1>4. CASE RunTier1 \/ RunTier2 \/ Tier2FailsOpen \/ Tier2FailsClosed \/ Consider \/ Refuse
  <2>1. pc' \notin {"splicing", "sanitized"}
    BY <1>4 DEF RunTier1, RunTier2, Tier2FailsOpen, Tier2FailsClosed, Consider, Refuse
  <2> QED
    BY <2>1 DEF Rebuilding
<1>5. CASE UNCHANGED vars
  BY <1>5 DEF vars, Rebuilding, Replaced
<1> QED
  BY <1>1, <1>2, <1>3, <1>4, <1>5 DEF Next

\* The splices, which run from right to left and change the length of the text, do what
\* replacing all the resolved spans at once does (_sanitize_region).
THEOREM ReplacedAtOnceHolds == Spec => []ReplacedAtOnce
<1>1. Init => Rebuilding
  BY DEF Init, Rebuilding
<1>2. Inv /\ Rebuilding /\ [Next]_vars => Rebuilding'
  BY NextRebuilding
<1>3. Rebuilding => ReplacedAtOnce
  <2> SUFFICES ASSUME pc = "sanitized", newText = From(Replaced)[0] PROVE ReplacedAtOnce
    BY DEF Rebuilding, ReplacedAtOnce
  <2> QED
    BY DEF ReplacedAtOnce, From, Rebuilt, Replaced
<1> QED
  BY <1>1, <1>2, <1>3, DetectionInvariance, PTL DEF Spec
-----------------------------------------------------------------------------
(* What the ranking makes of spans *)

\* Of any spans there is one that no other is ahead of.
LEMMA MostAhead ==
    ASSUME NEW S \in SUBSET Spans, S # {}
    PROVE  \E s \in S : \A t \in S : t = s \/ ~Ahead(t, s)
<1> DEFINE tiers == {Tier(s) : s \in S}
<1>1. PICK m \in tiers : \A k \in tiers : m <= k
  <2>1. tiers \in SUBSET Nat /\ tiers # {}
    BY DEF Tier
  <2> HIDE DEF tiers
  <2> QED
    BY <2>1, LeastNatural
<1> DEFINE S1 == {s \in S : Tier(s) = m}
           gaps == {Length - Width(s) : s \in S1}
<1>2. \A s \in S : Width(s) \in Nat /\ Width(s) <= Length
  BY SpanFacts, DetectionAssumptions DEF Width
<1>3. PICK g \in gaps : \A k \in gaps : g <= k
  <2>1. gaps \in SUBSET Nat
    BY <1>2, DetectionAssumptions
  <2>2. gaps # {}
    BY <1>1
  <2> HIDE DEF gaps
  <2> QED
    BY <2>1, <2>2, LeastNatural
<1> DEFINE S2 == {s \in S1 : Length - Width(s) = g}
           orders == {s.detector : s \in S2}
<1>4. PICK d \in orders : \A k \in orders : d <= k
  <2>1. orders \in SUBSET Nat
    BY DetectionAssumptions DEF Spans
  <2>2. orders # {}
    BY <1>3
  <2> HIDE DEF orders
  <2> QED
    BY <2>1, <2>2, LeastNatural
<1>5. PICK s \in S2 : s.detector = d
  BY <1>4
<1>6. ASSUME NEW t \in S PROVE ~Ahead(t, s)
  <2>1. Tier(t) \in Nat /\ Tier(s) = m /\ m <= Tier(t) /\ m \in Nat
    BY <1>1, <1>5 DEF Tier
  <2>2. s \in S /\ Width(t) \in Nat /\ Width(s) \in Nat /\ Length \in Nat
    BY <1>2, <1>5, DetectionAssumptions
  <2>3. s.detector \in Nat /\ t.detector \in Nat
    BY <2>2, DetectionAssumptions DEF Spans
  <2>4. Tier(t) = m => Length - Width(s) <= Length - Width(t)
    BY <1>3, <1>5
  <2>5. Tier(t) = m /\ Width(t) = Width(s) => s.detector <= t.detector
    BY <1>4, <1>5
  <2> QED
    BY <2>1, <2>2, <2>3, <2>4, <2>5 DEF Ahead
<1> QED
  BY <1>5, <1>6

LEMMA SpansAreFinite == IsFiniteSet(Spans)
<1> DEFINE P == ((0..Length) \X (0..Length)) \X Detectors
           f == [s \in Spans |-> <<<<s.start, s.end>>, s.detector>>]
<1>1. IsFiniteSet(P)
  <2>1. IsFiniteSet(0..Length)
    BY DetectionAssumptions, FS_Interval
  <2>2. IsFiniteSet((0..Length) \X (0..Length))
    BY <2>1, FS_Product
  <2> QED
    BY <2>2, DetectionAssumptions, FS_Product
<1>2. f \in Injection(Spans, P)
  <2>1. f \in [Spans -> P]
    BY DEF Spans
  <2>2. \A a, b \in Spans : f[a] = f[b] => a = b
    BY DEF Spans
  <2> HIDE DEF f, P
  <2> QED
    BY <2>1, <2>2 DEF Injection, IsInjective
<1> HIDE DEF f, P
<1> QED
  BY <1>1, <1>2, FS_Injection

\* The recursion of Tier1Undisturbed, with the function it defines as a parameter.
First(S) == CHOOSE s \in S : \A t \in S : t = s \/ ~Ahead(t, s)
Clear(S) == {s \in S : ~Overlap(s, First(S))} \ {First(S)}
Greedy(f, S) == IF S = {} THEN {} ELSE {First(S)} \cup f[Clear(S)]
Alone(C) == CHOOSE f : f = [S \in SUBSET C |-> Greedy(f, S)]

LEMMA FirstFacts ==
    ASSUME NEW S \in SUBSET Spans, S # {}
    PROVE  /\ First(S) \in S /\ \A t \in S : t = First(S) \/ ~Ahead(t, First(S))
           /\ Clear(S) \subseteq S
           /\ IsFiniteSet(S) /\ IsFiniteSet(Clear(S))
           /\ Cardinality(S) \in Nat /\ Cardinality(Clear(S)) \in Nat
           /\ Cardinality(Clear(S)) < Cardinality(S)
<1>1. First(S) \in S /\ \A t \in S : t = First(S) \/ ~Ahead(t, First(S))
  BY MostAhead DEF First
<1>2. Clear(S) \subseteq S \ {First(S)}
  BY DEF Clear
<1>3. IsFiniteSet(S) /\ Cardinality(S) \in Nat
  BY SpansAreFinite, FS_Subset, FS_CardinalityType
<1>4. IsFiniteSet(S \ {First(S)}) /\ Cardinality(S \ {First(S)}) = Cardinality(S) - 1
  BY <1>1, <1>3, FS_RemoveElement
<1>5. /\ IsFiniteSet(Clear(S)) /\ Cardinality(Clear(S)) \in Nat
      /\ Cardinality(Clear(S)) <= Cardinality(S) - 1
  BY <1>2, <1>4, FS_Subset, FS_CardinalityType
<1> QED
  BY <1>1, <1>2, <1>3, <1>5

LEMMA GreedyLooksSmaller ==
    ASSUME NEW C \in SUBSET Spans, NEW S \in SUBSET C, NEW f, NEW g,
           \A T \in SUBSET C : Cardinality(T) < Cardinality(S) => f[T] = g[T]
    PROVE  Greedy(f, S) = Greedy(g, S)
<1>1. CASE S = {}
  BY <1>1 DEF Greedy
<1>2. CASE S # {}
  <2>1. Clear(S) \in SUBSET C /\ Cardinality(Clear(S)) < Cardinality(S)
    BY <1>2, FirstFacts
  <2> QED
    BY <1>2, <2>1 DEF Greedy
<1> QED
  BY <1>1, <1>2

LEMMA AloneEquation ==
    ASSUME NEW C \in SUBSET Spans
    PROVE  \A S \in SUBSET C : Alone(C)[S] = Greedy(Alone(C), S)
<1> DEFINE N == Cardinality(C)
           Solves(g, n) == \A S \in SUBSET C : Cardinality(S) <= N - n => g[S] = Greedy(g, S)
           Solved == {n \in 0..N : \E g : Solves(g, n)}
<1>1. /\ N \in Nat
      /\ \A S \in SUBSET C : IsFiniteSet(S) /\ Cardinality(S) \in Nat /\ Cardinality(S) <= N
  BY SpansAreFinite, FS_Subset, FS_CardinalityType
<1> HIDE DEF N
<1>2. N \in Solved
  <2> DEFINE g == [S \in SUBSET C |-> {}]
  <2>1. \A S \in SUBSET C : Cardinality(S) <= N - N => S = {}
    <3> SUFFICES ASSUME NEW S \in SUBSET C, Cardinality(S) <= N - N PROVE S = {}
      OBVIOUS
    <3>1. Cardinality(S) = 0 /\ IsFiniteSet(S)
      BY <1>1
    <3> QED
      BY <3>1, FS_EmptySet
  <2>2. Solves(g, N)
    BY <2>1 DEF Greedy
  <2> HIDE DEF g, Solves
  <2> QED
    BY <1>1, <2>2
<1>3. ASSUME NEW n \in 1..N, n \in Solved PROVE n - 1 \in Solved
  <2>1. PICK g : Solves(g, n)
    BY <1>3
  <2> DEFINE h == [S \in SUBSET C |-> Greedy(g, S)]
  <2>2. \A S \in SUBSET C : Cardinality(S) <= N - n => h[S] = g[S]
    BY <2>1
  <2>3. ASSUME NEW S \in SUBSET C, Cardinality(S) <= N - (n - 1)
        PROVE  h[S] = Greedy(h, S)
    <3>1. h[S] = Greedy(g, S)
      OBVIOUS
    <3> HIDE DEF h
    <3>2. \A T \in SUBSET C : Cardinality(T) < Cardinality(S) => g[T] = h[T]
      <4> SUFFICES ASSUME NEW T \in SUBSET C, Cardinality(T) < Cardinality(S) PROVE g[T] = h[T]
        OBVIOUS
      <4>1. Cardinality(T) \in Nat /\ Cardinality(S) \in Nat
        BY <1>1
      <4>2. Cardinality(T) <= N - n
        BY <1>1, <2>3, <4>1
      <4> QED
        BY <2>2, <4>2
    <3>3. Greedy(g, S) = Greedy(h, S)
      BY <3>2, GreedyLooksSmaller
    <3> QED
      BY <3>1, <3>3
  <2>4. Solves(h, n - 1)
    <3> HIDE DEF h
    <3> QED
      BY <2>3
  <2>5. n - 1 \in 0..N
    BY <1>1
  <2> HIDE DEF h, Solves
  <2> QED
    BY <2>4, <2>5
<1>4. 0 \in Solved
  <2> HIDE DEF Solved
  <2>1. 0..N \subseteq Solved
    BY <1>1, <1>2, <1>3, Downward
  <2> QED
    BY <1>1, <2>1
<1>5. PICK g : Solves(g, 0)
  BY <1>4
<1> DEFINE h == [S \in SUBSET C |-> g[S]]
<1>6. \A S \in SUBSET C : h[S] = Greedy(h, S)
  <2> SUFFICES ASSUME NEW S \in SUBSET C PROVE h[S] = Greedy(h, S)
    OBVIOUS
  <2>1. Cardinality(S) <= N - 0
    BY <1>1
  <2>2. h[S] = Greedy(g, S)
    BY <1>5, <2>1
  <2>3. \A T \in SUBSET C : Cardinality(T) < Cardinality(S) => g[T] = h[T]
    OBVIOUS
  <2> HIDE DEF h
  <2>4. Greedy(g, S) = Greedy(h, S)
    BY <2>3, GreedyLooksSmaller
  <2> QED
    BY <2>2, <2>4
<1>7. h = [S \in SUBSET C |-> Greedy(h, S)]
  <2>1. h = [S \in SUBSET C |-> h[S]]
    OBVIOUS
  <2> HIDE DEF h
  <2> QED
    BY <1>6, <2>1
<1>8. Alone(C) = [S \in SUBSET C |-> Greedy(Alone(C), S)]
  <2> HIDE DEF h
  <2> QED
    BY <1>7 DEF Alone
<1> QED
  BY <1>8
-----------------------------------------------------------------------------
\* K resolves S: it keeps no two spans that overlap, and loses one only to one ahead of it.
Resolves(K, S) ==
    /\ K \subseteq S
    /\ \A a, b \in K : a # b => ~Overlap(a, b)
    /\ \A c \in S \ K : \E k \in K : Overlap(c, k) /\ Ahead(k, c)

\* Spans of Tier 1 of which no two of one detector overlap, as finditer reports them.
Apart(C) ==
    /\ C \subseteq Spans
    /\ \A s \in C : Tier(s) = 1
    /\ \A a, b \in C : a # b /\ a.detector = b.detector => ~Overlap(a, b)

\* Of two such spans that overlap one is ahead of the other.
LEMMA Ranked ==
    ASSUME NEW C, Apart(C), NEW a \in C, NEW b \in C, a # b, Overlap(a, b), ~Ahead(a, b)
    PROVE  Ahead(b, a)
<1>1. Tier(a) = 1 /\ Tier(b) = 1 /\ a.detector # b.detector
  BY DEF Apart
<1>2. a \in Spans /\ b \in Spans
  BY DEF Apart
<1>3. Width(a) \in Nat /\ Width(b) \in Nat /\ a.detector \in Nat /\ b.detector \in Nat
  <2>1. a.detector \in Detectors /\ b.detector \in Detectors
    BY <1>2 DEF Spans
  <2>2. Width(a) \in Nat /\ Width(b) \in Nat
    BY <1>2, SpanFacts DEF Width
  <2> QED
    BY <2>1, <2>2, DetectionAssumptions
<1> QED
  BY <1>1, <1>3 DEF Ahead

\* There is only one way to resolve them: of the spans on which two ways differ, consider
\* the one most ahead.
LEMMA OneResolution ==
    ASSUME NEW C, Apart(C), NEW K, NEW L, Resolves(K, C), Resolves(L, C)
    PROVE  K = L
<1> DEFINE D == (K \ L) \cup (L \ K)
<1> SUFFICES ASSUME D # {} PROVE FALSE
  OBVIOUS
<1>1. D \in SUBSET Spans
  BY DEF Resolves, Apart
<1>2. PICK s \in D : \A t \in D : t = s \/ ~Ahead(t, s)
  <2> HIDE DEF D
  <2> QED
    BY <1>1, MostAhead
<1>3. ASSUME NEW A, NEW B, Resolves(A, C), Resolves(B, C), s \in A \ B, D = (A \ B) \cup (B \ A)
      PROVE  FALSE
  <2>1. PICK k \in B : Overlap(s, k) /\ Ahead(k, s)
    BY <1>3 DEF Resolves
  <2>2. k # s
    BY <1>3
  <2>3. k \notin A
    BY <1>3, <2>1, <2>2 DEF Resolves
  <2> QED
    BY <1>2, <1>3, <2>1, <2>2, <2>3
<1>4. CASE s \in K \ L
  BY <1>3, <1>4
<1>5. CASE s \in L \ K
  <2>1. D = (L \ K) \cup (K \ L)
    OBVIOUS
  <2> QED
    BY <1>3, <1>5, <2>1
<1> QED
  BY <1>4, <1>5

\* Taking the one most ahead again and again resolves them.
LEMMA AloneResolves ==
    ASSUME NEW C, Apart(C)
    PROVE  Resolves(Alone(C)[C], C)
<1> DEFINE N == Cardinality(C)
           Right == {n \in 0..N : \A S \in SUBSET C :
                                     Cardinality(S) <= N - n => Resolves(Alone(C)[S], S)}
<1>1. /\ C \in SUBSET Spans
      /\ N \in Nat
      /\ \A S \in SUBSET C : IsFiniteSet(S) /\ Cardinality(S) \in Nat /\ Cardinality(S) <= N
  BY SpansAreFinite, FS_Subset, FS_CardinalityType DEF Apart
<1>2. \A S \in SUBSET C : Alone(C)[S] = Greedy(Alone(C), S)
  BY <1>1, AloneEquation
<1> HIDE DEF N
<1>3. Resolves(Alone(C)[{}], {})
  <2>1. Alone(C)[{}] = {}
    BY <1>2 DEF Greedy
  <2> QED
    BY <2>1 DEF Resolves
<1>4. N \in Right
  <2>1. \A S \in SUBSET C : Cardinality(S) <= N - N => S = {}
    <3> SUFFICES ASSUME NEW S \in SUBSET C, Cardinality(S) <= N - N PROVE S = {}
      OBVIOUS
    <3>1. Cardinality(S) = 0 /\ IsFiniteSet(S)
      BY <1>1
    <3> QED
      BY <3>1, FS_EmptySet
  <2> QED
    BY <1>1, <1>3, <2>1
<1>5. ASSUME NEW n \in 1..N, n \in Right PROVE n - 1 \in Right
  <2>1. ASSUME NEW S \in SUBSET C, Cardinality(S) <= N - (n - 1), S # {}
        PROVE  Resolves(Alone(C)[S], S)
    <3> DEFINE first == First(S)
               K == Alone(C)[Clear(S)]
    <3>1. /\ first \in S /\ \A t \in S : t = first \/ ~Ahead(t, first)
          /\ Clear(S) \subseteq S
          /\ Cardinality(Clear(S)) \in Nat /\ Cardinality(S) \in Nat
          /\ Cardinality(Clear(S)) < Cardinality(S)
      BY <1>1, <2>1, FirstFacts
    <3>2. Cardinality(Clear(S)) <= N - n
      BY <1>1, <2>1, <3>1
    <3>3. Resolves(K, Clear(S))
      BY <1>5, <3>1, <3>2
    <3>4. Alone(C)[S] = {first} \cup K
      BY <1>2, <2>1 DEF Greedy
    <3>5. Clear(S) = {s \in S : ~Overlap(s, first)} \ {first}
      BY DEF Clear
    <3> HIDE DEF first, K
    <3>6. K \subseteq Clear(S)
      BY <3>3 DEF Resolves
    <3>7. {first} \cup K \subseteq S
      BY <3>1, <3>6
    <3>8. \A a, b \in {first} \cup K : a # b => ~Overlap(a, b)
      <4>1. \A a \in K : ~Overlap(a, first) /\ ~Overlap(first, a)
        BY <3>5, <3>6 DEF Overlap
      <4>2. \A a, b \in K : a # b => ~Overlap(a, b)
        BY <3>3 DEF Resolves
      <4> QED
        BY <4>1, <4>2
    <3>9. ASSUME NEW c \in S \ ({first} \cup K)
          PROVE  \E k \in {first} \cup K : Overlap(c, k) /\ Ahead(k, c)
      <4>1. CASE c \in Clear(S)
        BY <3>3, <3>9, <4>1 DEF Resolves
      <4>2. CASE c \notin Clear(S)
        <5>1. c # first /\ Overlap(c, first) /\ ~Ahead(c, first)
          BY <3>1, <3>5, <3>9, <4>2
        <5>2. Ahead(first, c)
          BY <3>1, <5>1, Ranked
        <5> QED
          BY <5>1, <5>2
      <4> QED
        BY <4>1, <4>2
    <3> QED
      BY <3>4, <3>7, <3>8, <3>9 DEF Resolves
  <2>2. \A S \in SUBSET C : Cardinality(S) <= N - (n - 1) => Resolves(Alone(C)[S], S)
    BY <1>3, <2>1
  <2>3. n - 1 \in 0..N
    BY <1>1
  <2> QED
    BY <2>2, <2>3
<1>6. 0 \in Right
  <2> HIDE DEF Right
  <2>1. 0..N \subseteq Right
    BY <1>1, <1>4, <1>5, Downward
  <2> QED
    BY <1>1, <2>1
<1>7. Cardinality(C) <= N - 0
  BY <1>1
<1> QED
  BY <1>6, <1>7
-----------------------------------------------------------------------------
Tier1Candidates == {s \in candidates : Tier(s) = 1}

\* What is kept or considered was reported, and a Tier-1 detector reports no overlaps.
Reported ==
    /\ accepted \subseteq candidates
    /\ pc = "resolving" => pending \subseteq candidates
    /\ Apart(Tier1Candidates)
    /\ pc = "tier1" => candidates = {}

LEMMA ReportFacts ==
    ASSUME NEW D \in SUBSET Detectors, NEW S \in ReportsOf(D)
    PROVE  /\ \A s \in S : s \in Spans /\ s.detector \in D
           /\ \A a, b \in S : a # b /\ a.detector = b.detector /\ a.detector \in Tier1Detectors
                                => ~Overlap(a, b)
<1>1. PICK f \in [D -> UNION {Reports(d) : d \in D}] :
        S = UNION {f[d] : d \in D} /\ \A d \in D : f[d] \in Reports(d)
  BY DEF ReportsOf
<1>2. \A d \in D : \A s \in f[d] : s \in Spans /\ s.detector = d
  BY <1>1 DEF Reports
<1>3. \A d \in D : d \in Tier1Detectors => \A a, b \in f[d] : a # b => ~Overlap(a, b)
  BY <1>1 DEF Reports
<1> QED
  BY <1>1, <1>2, <1>3

LEMMA NextReported == Inv /\ Reported /\ [Next]_vars => Reported'
<1> SUFFICES ASSUME Inv, Reported, [Next]_vars PROVE Reported'
  OBVIOUS
<1>1. CASE RunTier1
  <2>1. /\ candidates' \in ReportsOf(Tier1Detectors) /\ pc' = "tier2"
        /\ accepted' = {}
    BY <1>1 DEF RunTier1, Inv, NothingYet
  <2>2. Apart(Tier1Candidates')
    <3>1. Tier1Detectors \in SUBSET Detectors
      BY DEF Detectors
    <3>2. \A s \in candidates' : s \in Spans /\ s.detector \in Tier1Detectors
      BY <2>1, <3>1, ReportFacts
    <3>3. \A a, b \in candidates' :
             a # b /\ a.detector = b.detector /\ a.detector \in Tier1Detectors => ~Overlap(a, b)
      BY <2>1, <3>1, ReportFacts
    <3> QED
      BY <3>2, <3>3 DEF Apart, Tier1Candidates, Tier
  <2> QED
    BY <2>1, <2>2 DEF Reported
<1>2. CASE RunTier2
  <2>1. PICK S \in ReportsOf(Tier2Detectors) : candidates' = candidates \cup S
    BY <1>2 DEF RunTier2
  <2>2. pc' = "resolving" /\ accepted' = {} /\ pending' = candidates'
    BY <1>2 DEF RunTier2, Inv, NothingYet
  <2>3. \A s \in S : s.detector \in Tier2Detectors
    BY <2>1, ReportFacts DEF Detectors
  <2>4. \A s \in S : Tier(s) = 2
    <3>1. Tier1Detectors \cap Tier2Detectors = {}
      BY DetectionAssumptions DEF Detectors
    <3> QED
      BY <2>3, <3>1 DEF Tier
  <2>5. Tier1Candidates' = Tier1Candidates
    BY <2>1, <2>4 DEF Tier1Candidates, Tier
  <2> QED
    BY <2>2, <2>5 DEF Reported
<1>3. CASE Consider
  <2>1. PICK s \in pending : accepted' \subseteq accepted \cup {s} /\ pending' = pending \ {s}
    BY <1>3 DEF Consider
  <2>2. pc = "resolving" /\ pc' = "resolving" /\ candidates' = candidates
    BY <1>3 DEF Consider
  <2>3. Tier1Candidates' = Tier1Candidates
    BY <2>2 DEF Tier1Candidates, Tier
  <2> QED
    BY <2>1, <2>2, <2>3 DEF Reported
<1>4. CASE Tier2FailsOpen
  <2>1. Tier1Candidates' = Tier1Candidates
    BY <1>4 DEF Tier1Candidates, Tier, Tier2FailsOpen
  <2> QED
    BY <1>4, <2>1 DEF Tier2FailsOpen, Reported
<1>5. CASE Tier2FailsClosed \/ Recognise \/ Splice \/ Refuse \/ Finish
  <2>1. UNCHANGED <<candidates, accepted>> /\ pc' \notin {"resolving", "tier1"}
    BY <1>5 DEF Tier2FailsClosed, Recognise, Splice, Refuse, Finish
  <2>2. Tier1Candidates' = Tier1Candidates
    BY <2>1 DEF Tier1Candidates, Tier
  <2> QED
    BY <2>1, <2>2 DEF Reported
<1>6. CASE UNCHANGED vars
  <2>1. Tier1Candidates' = Tier1Candidates
    BY <1>6 DEF vars, Tier1Candidates, Tier
  <2> QED
    BY <1>6, <2>1 DEF vars, Reported
<1> QED
  BY <1>1, <1>2, <1>3, <1>4, <1>5, <1>6 DEF Next

\* What resolve has kept of Tier 1 resolves what Tier 1 reported.
LEMMA KeptResolves ==
    Inv /\ Reported /\ pc \in {"splicing", "sanitized"}
        => Resolves({s \in accepted : Tier(s) = 1}, Tier1Candidates)
<1> SUFFICES ASSUME Inv, Reported, pc \in {"splicing", "sanitized"}
             PROVE  Resolves({s \in accepted : Tier(s) = 1}, Tier1Candidates)
  OBVIOUS
<1> DEFINE K == {s \in accepted : Tier(s) = 1}
<1>1. K \subseteq Tier1Candidates
  BY DEF Reported, Tier1Candidates
<1>2. \A a, b \in K : a # b => ~Overlap(a, b)
  BY DEF Inv, NoOverlap
<1>3. ASSUME NEW c \in Tier1Candidates \ K
      PROVE  \E k \in K : Overlap(c, k) /\ Ahead(k, c)
  <2>1. c \in candidates \ accepted /\ Tier(c) = 1
    BY <1>3 DEF Tier1Candidates
  <2>2. PICK k \in accepted : Overlap(c, k) /\ ~Ahead(c, k)
    BY <2>1 DEF Inv, Settled, Unconsidered
  <2>3. k \in K
    BY <2>1, <2>2 DEF Ahead, Tier
  <2>4. Ahead(k, c)
    BY <1>1, <1>3, <2>1, <2>2, <2>3, Ranked DEF Reported
  <2> QED
    BY <2>2, <2>3, <2>4
<1> QED
  BY <1>1, <1>2, <1>3 DEF Resolves

\* Whatever Tier 2 reports, and whether or not it fails, resolve keeps of Tier 1's spans
\* those it would have kept without Tier 2 (precedence.resolve).
THEOREM Tier1UndisturbedHolds == Spec => []Tier1Undisturbed
<1>1. Init => Reported
  BY DEF Init, Reported, Apart, Tier1Candidates
<1>2. Inv /\ Reported /\ [Next]_vars => Reported'
  BY NextReported
<1>3. Inv /\ Reported => Tier1Undisturbed
  <2> SUFFICES ASSUME Inv, Reported, pc \in {"splicing", "sanitized"}
               PROVE  {s \in accepted : Tier(s) = 1} = Alone(Tier1Candidates)[Tier1Candidates]
    BY DEF Tier1Undisturbed, Tier1Candidates, Alone, Greedy, First, Clear
  <2>1. Apart(Tier1Candidates)
    BY DEF Reported
  <2> QED
    BY <2>1, KeptResolves, AloneResolves, OneResolution
<1> QED
  BY <1>1, <1>2, <1>3, DetectionInvariance, PTL DEF Spec
=============================================================================
