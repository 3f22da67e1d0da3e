------------------------ MODULE ResponseStreamProofs ------------------------
(***************************************************************************)
(* Theorems about modules Rehydration, SlidingWindow and ResponseStream,   *)
(* for every registry of texts that are not longer than the lookahead.     *)
(* The pass: where the surrogates stand apart, it may be run over a text   *)
(* piece by piece.  The window: its types, its bound, that of such a       *)
(* response streaming gives what one pass over the whole gives, and that   *)
(* nothing leaves before it is settled.  The stream, for any events and    *)
(* batches: the types, the carriage of what the window releases, the order *)
(* of what the client gets, and the whole answer at the end.               *)
(*                                                                         *)
(* The window's invariants are stated of its variables, which the stream   *)
(* shares, and shown of one feed and one flush: both specifications take   *)
(* these steps.  What is proved of TextOf, a fold, and of Rehydrate, a     *)
(* recursive function, is by induction: the least element of a set of      *)
(* numbers.                                                                *)
(***************************************************************************)
EXTENDS ResponseStream, SequenceTheorems, FiniteSetTheorems, TLAPS

Texts == Seq(Chars)
Items == [kind : Kinds, text : Texts, mark : Marks]

(* Induction, by the least element of a set of numbers *)

\* Every set of numbers that is not empty has a least element.
LEMMA LeastNatural ==
    ASSUME NEW S \in SUBSET Nat, S # {}
    PROVE  \E m \in S : \A k \in S : m <= k
<1> DEFINE T == {0..k : k \in S}
<1>1. T \subseteq FiniteSubsetsOf(Nat)
  <2>1. \A k \in S : IsFiniteSet(0..k) /\ 0..k \subseteq Nat
    BY FS_Interval
  <2> QED
    BY <2>1 DEF FiniteSubsetsOf
<1>2. PICK x \in T : \A y \in T : <<y, x>> \notin StrictSubsetOrdering(Nat)
  <2>1. T # {}
    OBVIOUS
  <2> HIDE DEF T
  <2> QED
    BY <1>1, <2>1, FS_StrictSubsetOrderingWellFounded, WFMin
<1>3. PICK m \in S : x = 0..m
  OBVIOUS
<1>4. ASSUME NEW k \in S, k < m PROVE FALSE
  <2>1. 0..k \in T /\ 0..k \subseteq 0..m /\ 0..k # 0..m
    BY <1>4
  <2>2. 0..k \subseteq Nat /\ 0..m \subseteq Nat
    OBVIOUS
  <2>3. <<0..k, x>> \in StrictSubsetOrdering(Nat)
    BY <1>3, <2>1, <2>2 DEF StrictSubsetOrdering
  <2> QED
    BY <1>2, <2>1, <2>3
<1> QED
  BY <1>4

\* Induction up to m, over a set rather than a predicate.
LEMMA Upward ==
    ASSUME NEW m \in Nat, NEW S, 0 \in S, \A n \in 1..m : n - 1 \in S => n \in S
    PROVE  0..m \subseteq S
<1> DEFINE Missed == (0..m) \ S
<1> SUFFICES ASSUME Missed # {} PROVE FALSE
  OBVIOUS
<1>1. PICK n \in Missed : \A k \in Missed : n <= k
  <2>1. Missed \in SUBSET Nat
    OBVIOUS
  <2> HIDE DEF Missed
  <2> QED
    BY <2>1, LeastNatural
<1>2. n \in 1..m /\ n - 1 \in 0..m /\ n - 1 \notin Missed
  BY <1>1
<1> QED
  BY <1>2

\* A set of places in a sequence has a last one.
LEMMA LastPlace ==
    ASSUME NEW m \in Nat, NEW S \in SUBSET (1..m), S # {}
    PROVE  Max(S) \in S /\ \A i \in S : i <= Max(S)
<1> DEFINE gaps == {m - i : i \in S}
<1>1. PICK g \in gaps : \A k \in gaps : g <= k
  <2>1. \A i \in S : m - i \in Nat
    OBVIOUS
  <2>2. gaps \in SUBSET Nat /\ gaps # {}
    BY <2>1
  <2> HIDE DEF gaps
  <2> QED
    BY <2>2, LeastNatural
<1>2. PICK last \in S : g = m - last
  OBVIOUS
<1>3. \A i \in S : last >= i
  <2> TAKE i \in S
  <2>1. g <= m - i
    BY <1>1
  <2> QED
    BY <1>2, <2>1
<1>4. \A i \in S : Max(S) >= i /\ Max(S) \in S
  BY <1>3 DEF Max
<1> QED
  BY <1>4

LEMMA MaxIs ==
    ASSUME NEW S \in SUBSET Nat, NEW last \in S, \A i \in S : i <= last
    PROVE  Max(S) = last
<1>1. \E i \in S : \A j \in S : i >= j
  OBVIOUS
<1>2. Max(S) \in S /\ \A j \in S : Max(S) >= j
  BY <1>1 DEF Max
<1>3. Max(S) <= last /\ Max(S) >= last /\ Max(S) \in Nat
  BY <1>2
<1> QED
  BY <1>3
-----------------------------------------------------------------------------
(* TextOf *)

\* The recursion of the fold, over sets of places.
Fold(items, f, S) ==
    IF S = {} THEN <<>> ELSE f[S \ {Max(S)}] \o items[Max(S)].text

Folded(items) == CHOOSE f : f = [S \in SUBSET (DOMAIN items) |-> Fold(items, f, S)]

LEMMA TextOfIsFolded == \A items : TextOf(items) = Folded(items)[DOMAIN items]
  BY DEF TextOf, FoldLeft, MapThenFoldSet, Folded, Fold

LEMMA PlacesFinite ==
    ASSUME NEW m \in Nat, NEW S \in SUBSET (1..m), S # {}
    PROVE  /\ IsFiniteSet(S) /\ Cardinality(S) \in Nat
           /\ S \ {Max(S)} \in SUBSET (1..m)
           /\ Cardinality(S \ {Max(S)}) = Cardinality(S) - 1
<1>1. IsFiniteSet(1..m)
  BY FS_Interval
<1>2. IsFiniteSet(S) /\ Cardinality(S) \in Nat
  BY <1>1, FS_Subset, FS_CardinalityType
<1>3. Max(S) \in S
  BY LastPlace
<1> QED
  BY <1>2, <1>3, FS_RemoveElement

LEMMA FoldLooksSmaller ==
    ASSUME NEW items \in Seq(Items), NEW S \in SUBSET (1..Len(items)), NEW f, NEW g,
           \A T \in SUBSET (1..Len(items)) : Cardinality(T) < Cardinality(S) => f[T] = g[T]
    PROVE  Fold(items, f, S) = Fold(items, g, S)
<1>1. CASE S = {}
  BY <1>1 DEF Fold
<1>2. CASE S # {}
  <2>1. /\ S \ {Max(S)} \in SUBSET (1..Len(items))
        /\ Cardinality(S \ {Max(S)}) < Cardinality(S)
    <3>1. Len(items) \in Nat
      OBVIOUS
    <3>2. /\ Cardinality(S) \in Nat
          /\ S \ {Max(S)} \in SUBSET (1..Len(items))
          /\ Cardinality(S \ {Max(S)}) = Cardinality(S) - 1
      BY <1>2, <3>1, PlacesFinite
    <3> QED
      BY <3>2
  <2> QED
    BY <1>2, <2>1 DEF Fold
<1> QED
  BY <1>1, <1>2

\* There is a function that satisfies the recursion.
LEMMA FoldEquation ==
    ASSUME NEW items \in Seq(Items)
    PROVE  \A S \in SUBSET (1..Len(items)) :
              Folded(items)[S] = Fold(items, Folded(items), S)
<1> DEFINE N == Len(items)
           P == SUBSET (1..N)
           Solves(g, n) == \A S \in P : Cardinality(S) <= n => g[S] = Fold(items, g, S)
           Solved == {n \in Nat : \E g : Solves(g, n)}
<1>1. N \in Nat /\ DOMAIN items = 1..N
  OBVIOUS
<1>2. IsFiniteSet(1..N) /\ Cardinality(1..N) = N
  BY <1>1, FS_Interval, SMTT(30)
<1>3. \A S \in P : IsFiniteSet(S) /\ Cardinality(S) \in Nat /\ Cardinality(S) <= N
  BY <1>2, FS_Subset, FS_CardinalityType
<1> HIDE DEF N
<1>4. 0 \in Solved
  <2> DEFINE g == [S \in P |-> <<>>]
  <2>1. \A S \in P : Cardinality(S) <= 0 => S = {}
    <3> SUFFICES ASSUME NEW S \in P, Cardinality(S) <= 0 PROVE S = {}
      OBVIOUS
    <3>1. Cardinality(S) = 0 /\ IsFiniteSet(S)
      BY <1>3
    <3> QED
      BY <3>1, FS_EmptySet
  <2>2. Solves(g, 0)
    BY <2>1 DEF Fold
  <2> HIDE DEF g, Solves
  <2> QED
    BY <2>2
<1>5. ASSUME NEW n \in 1..N, n - 1 \in Solved PROVE n \in Solved
  <2>1. PICK g : Solves(g, n - 1)
    BY <1>5
  <2> DEFINE h == [S \in P |-> Fold(items, g, S)]
  <2>2. \A S \in P : Cardinality(S) <= n - 1 => h[S] = g[S]
    BY <2>1
  <2>3. ASSUME NEW S \in P, Cardinality(S) <= n
        PROVE  h[S] = Fold(items, h, S)
    <3>1. h[S] = Fold(items, g, S)
      OBVIOUS
    <3> HIDE DEF h
    <3>2. \A T \in P : Cardinality(T) < Cardinality(S) => g[T] = h[T]
      <4> SUFFICES ASSUME NEW T \in P, Cardinality(T) < Cardinality(S) PROVE g[T] = h[T]
        OBVIOUS
      <4>1. Cardinality(T) \in Nat /\ Cardinality(S) \in Nat
        BY <1>3
      <4>2. Cardinality(T) <= n - 1
        BY <1>1, <2>3, <4>1
      <4> QED
        BY <2>2, <4>2
    <3>3. Fold(items, g, S) = Fold(items, h, S)
      BY <3>2, FoldLooksSmaller DEF N
    <3> QED
      BY <3>1, <3>3
  <2>4. Solves(h, n)
    <3> HIDE DEF h
    <3> QED
      BY <2>3
  <2>5. n \in Nat
    BY <1>1
  <2> HIDE DEF h, Solves
  <2> QED
    BY <2>4, <2>5
<1>6. N \in Solved
  <2> HIDE DEF Solved
  <2>1. 0..N \subseteq Solved
    BY <1>1, <1>4, <1>5, Upward
  <2> QED
    BY <1>1, <2>1
<1>7. PICK g : Solves(g, N)
  BY <1>6
<1> DEFINE h == [S \in P |-> g[S]]
<1>8. \A S \in P : h[S] = Fold(items, h, S)
  <2> SUFFICES ASSUME NEW S \in P PROVE h[S] = Fold(items, h, S)
    OBVIOUS
  <2>1. h[S] = Fold(items, g, S)
    BY <1>3, <1>7
  <2>2. \A T \in P : Cardinality(T) < Cardinality(S) => g[T] = h[T]
    OBVIOUS
  <2> HIDE DEF h
  <2>3. Fold(items, g, S) = Fold(items, h, S)
    BY <2>2, FoldLooksSmaller DEF N
  <2> QED
    BY <2>1, <2>3
<1>9. h = [S \in SUBSET (DOMAIN items) |-> Fold(items, h, S)]
  <2>1. h = [S \in P |-> h[S]]
    OBVIOUS
  <2> HIDE DEF h
  <2> QED
    BY <1>1, <1>8, <2>1
<1>10. Folded(items) = [S \in SUBSET (DOMAIN items) |-> Fold(items, Folded(items), S)]
  <2> HIDE DEF h
  <2> QED
    BY <1>9 DEF Folded
<1> QED
  BY <1>1, <1>10 DEF N

\* The text of the first n items.
LEMMA FoldNext ==
    ASSUME NEW items \in Seq(Items), NEW n \in 1..Len(items)
    PROVE  Folded(items)[1..n] = Folded(items)[1..(n - 1)] \o items[n].text
<1>1. Max(1..n) = n /\ (1..n) \ {n} = 1..(n - 1) /\ 1..n # {}
  <2>1. Max(1..n) = n
    <3>1. 1..n \in SUBSET Nat /\ n \in 1..n /\ \A i \in 1..n : i <= n
      OBVIOUS
    <3> QED
      BY <3>1, MaxIs
  <2>2. (1..n) \ {n} = 1..(n - 1) /\ 1..n # {}
    OBVIOUS
  <2> QED
    BY <2>1, <2>2
<1>2. 1..n \in SUBSET (1..Len(items))
  OBVIOUS
<1>3. Folded(items)[1..n] = Fold(items, Folded(items), 1..n)
  BY <1>2, FoldEquation
<1> QED
  BY <1>1, <1>3 DEF Fold

LEMMA FoldNone ==
    ASSUME NEW items \in Seq(Items)
    PROVE  Folded(items)[1..0] = <<>>
<1>1. 1..0 = {} /\ {} \in SUBSET (1..Len(items))
  OBVIOUS
<1>2. Folded(items)[{}] = Fold(items, Folded(items), {})
  BY <1>1, FoldEquation
<1> QED
  BY <1>1, <1>2 DEF Fold

LEMMA TextOfEmpty == TextOf(<<>>) = <<>>
<1>1. <<>> \in Seq(Items) /\ DOMAIN <<>> = 1..0
  OBVIOUS
<1> QED
  BY <1>1, FoldNone, TextOfIsFolded

LEMMA TextOfIsText ==
    ASSUME NEW items \in Seq(Items)
    PROVE  TextOf(items) \in Texts
<1> DEFINE F == Folded(items)
           Typed == {n \in Nat : F[1..n] \in Texts}
<1>1. Len(items) \in Nat /\ DOMAIN items = 1..Len(items)
  OBVIOUS
<1>2. 0 \in Typed
  <2>1. F[1..0] = <<>>
    BY FoldNone
  <2>2. <<>> \in Texts
    BY DEF Texts
  <2> HIDE DEF F
  <2> QED
    BY <2>1, <2>2
<1>3. ASSUME NEW n \in 1..Len(items), n - 1 \in Typed PROVE n \in Typed
  <2>1. items[n].text \in Texts /\ n \in Nat
    <3>1. items[n] \in Items /\ n \in Nat
      BY <1>1
    <3> QED
      BY <3>1 DEF Items
  <2>2. F[1..n] = F[1..(n - 1)] \o items[n].text
    BY FoldNext
  <2>3. F[1..(n - 1)] \in Texts
    BY <1>3
  <2> HIDE DEF F
  <2>4. F[1..n] \in Texts
    BY <2>1, <2>2, <2>3, ConcatProperties DEF Texts
  <2> QED
    BY <2>1, <2>4
<1>4. Len(items) \in Typed
  <2> HIDE DEF Typed
  <2>1. 0..Len(items) \subseteq Typed
    BY <1>1, <1>2, <1>3, Upward
  <2> QED
    BY <1>1, <2>1
<1> QED
  BY <1>1, <1>4, TextOfIsFolded

\* One item more.
LEMMA TextOfAppend ==
    ASSUME NEW items \in Seq(Items), NEW item \in Items
    PROVE  TextOf(items \o <<item>>) = TextOf(items) \o item.text
<1> DEFINE more == items \o <<item>>
           N == Len(items)
           Same == {n \in Nat : Folded(more)[1..n] = Folded(items)[1..n]}
<1>1. /\ more \in Seq(Items) /\ Len(more) = N + 1 /\ N \in Nat
      /\ \A i \in 1..N : more[i] = items[i]
      /\ more[N + 1] = item
      /\ DOMAIN items = 1..N /\ DOMAIN more = 1..(N + 1)
  OBVIOUS
<1> HIDE DEF more
<1>2. 0 \in Same
  BY <1>1, FoldNone
<1>3. ASSUME NEW n \in 1..N, n - 1 \in Same PROVE n \in Same
  <2>1. Folded(more)[1..n] = Folded(more)[1..(n - 1)] \o more[n].text
    <3>1. n \in 1..Len(more)
      BY <1>1
    <3> QED
      BY <1>1, <3>1, FoldNext
  <2>2. Folded(items)[1..n] = Folded(items)[1..(n - 1)] \o items[n].text
    BY <1>1, FoldNext
  <2>3. more[n] = items[n] /\ n \in Nat
    BY <1>1
  <2>4. Folded(more)[1..(n - 1)] = Folded(items)[1..(n - 1)]
    BY <1>3
  <2> QED
    BY <2>1, <2>2, <2>3, <2>4
<1>4. N \in Same
  <2> HIDE DEF Same
  <2>1. 0..N \subseteq Same
    BY <1>1, <1>2, <1>3, Upward
  <2> QED
    BY <1>1, <2>1
<1>5. Folded(more)[1..(N + 1)] = Folded(more)[1..N] \o item.text
  <2>1. Folded(more)[1..(N + 1)] = Folded(more)[1..((N + 1) - 1)] \o more[N + 1].text
    <3>1. N + 1 \in 1..Len(more)
      BY <1>1
    <3> QED
      BY <1>1, <3>1, FoldNext
  <2>2. (N + 1) - 1 = N
    BY <1>1
  <2> QED
    BY <1>1, <2>1, <2>2
<1>6. TextOf(more) = Folded(more)[1..(N + 1)] /\ TextOf(items) = Folded(items)[1..N]
  BY <1>1, TextOfIsFolded
<1> QED
  BY <1>4, <1>5, <1>6 DEF more
-----------------------------------------------------------------------------
(* LastStructural and Answer *)

Places(items) == {i \in DOMAIN items : items[i].kind = "structural"}

LEMMA LastStructuralIs ==
    \A items : LastStructural(items)
                  = IF Places(items) = {} THEN Nothing ELSE items[Max(Places(items))]
  BY DEF LastStructural, Places

LEMMA LastStructuralEmpty == LastStructural(<<>>) = Nothing
<1>1. Places(<<>>) = {}
  BY DEF Places
<1> QED
  BY <1>1, LastStructuralIs

LEMMA LastStructuralAppend ==
    ASSUME NEW items \in Seq(Items), NEW item \in Items
    PROVE  LastStructural(items \o <<item>>)
              = IF item.kind = "structural" THEN item ELSE LastStructural(items)
<1> DEFINE more == items \o <<item>>
           N == Len(items)
<1>1. /\ more \in Seq(Items) /\ Len(more) = N + 1 /\ N \in Nat
      /\ \A i \in 1..N : more[i] = items[i]
      /\ more[N + 1] = item
      /\ DOMAIN items = 1..N /\ DOMAIN more = 1..(N + 1)
  OBVIOUS
<1> HIDE DEF more
<1>2. CASE item.kind = "structural"
  <2>1. N + 1 \in Places(more) /\ Places(more) \in SUBSET Nat
    BY <1>1, <1>2 DEF Places
  <2>2. \A i \in Places(more) : i <= N + 1
    BY <1>1 DEF Places
  <2>3. Max(Places(more)) = N + 1
    BY <2>1, <2>2, MaxIs
  <2> QED
    BY <1>1, <1>2, <2>1, <2>3, LastStructuralIs DEF more
<1>3. CASE item.kind # "structural"
  <2>1. Places(more) = Places(items)
    BY <1>1, <1>3 DEF Places
  <2>2. CASE Places(items) = {}
    BY <1>3, <2>1, <2>2, LastStructuralIs DEF more
  <2>3. CASE Places(items) # {}
    <3>1. Places(items) \in SUBSET (1..N)
      BY <1>1 DEF Places
    <3>2. Max(Places(items)) \in 1..N
      BY <1>1, <2>3, <3>1, LastPlace
    <3> QED
      BY <1>1, <1>3, <2>1, <2>3, <3>2, LastStructuralIs DEF more
  <2> QED
    BY <2>2, <2>3
<1> QED
  BY <1>2, <1>3

Deltas == {event \in Events : event.kind \in {"content", "structural"}}
Breaks == {event \in Events : event.kind \in {"done", "malformed"}}

LEMMA EventFacts ==
    /\ Events \subseteq Items /\ Deltas \subseteq Events /\ Breaks \subseteq Events
    /\ Events = Deltas \cup Breaks /\ Deltas \cap Breaks = {}
<1>1. Events \subseteq Items
  BY StreamAssumptions DEF Items, Texts
<1>2. \A event \in Events : event.kind \in Kinds
  BY StreamAssumptions
<1>3. Deltas \subseteq Events /\ Breaks \subseteq Events /\ Deltas \cap Breaks = {}
  BY DEF Deltas, Breaks
<1>4. Events = Deltas \cup Breaks
  BY <1>2 DEF Deltas, Breaks, Kinds
<1> QED
  BY <1>1, <1>3, <1>4

LEMMA SeqWiden ==
    ASSUME NEW S, NEW T, S \subseteq T
    PROVE  Seq(S) \subseteq Seq(T)
  BY SeqMonotonic

\* An answer that nothing ends is everything that came.
LEMMA AnswerWhole ==
    ASSUME upstream \in Seq(Deltas)
    PROVE  Answer = upstream
<1>1. \A i \in 1..Len(upstream) : upstream[i].kind \notin {"done", "malformed"}
  <2>1. \A i \in 1..Len(upstream) : upstream[i] \in Deltas
    OBVIOUS
  <2> QED
    BY <2>1 DEF Deltas
<1> QED
  BY <1>1 DEF Answer

\* Otherwise it is what came before the first event that ends it.
LEMMA AnswerCut ==
    ASSUME NEW H \in Seq(Deltas), NEW break \in Breaks, NEW R \in Seq(Events),
           upstream = (H \o <<break>>) \o R
    PROVE  /\ Answer = H /\ Answer # upstream
           /\ upstream[Len(Answer) + 1] = break
<1> DEFINE ends == {i \in 1..Len(upstream) : upstream[i].kind \in {"done", "malformed"}}
           N == Len(H)
<1>1. H \in Seq(Events) /\ <<break>> \in Seq(Events) /\ H \o <<break>> \in Seq(Events)
  BY EventFacts, SeqWiden
<1>2. /\ N \in Nat /\ Len(H \o <<break>>) = N + 1
      /\ \A i \in 1..N : (H \o <<break>>)[i] = H[i]
      /\ (H \o <<break>>)[N + 1] = break
  BY <1>1
<1>3. /\ upstream \in Seq(Events) /\ Len(upstream) >= N + 1 /\ Len(upstream) \in Nat
      /\ \A i \in 1..(N + 1) : upstream[i] = (H \o <<break>>)[i]
  <2> DEFINE G == H \o <<break>>
  <2>1. G \in Seq(Events) /\ Len(G) = N + 1 /\ upstream = G \o R /\ Len(R) \in Nat
    BY <1>1, <1>2
  <2> HIDE DEF G
  <2>2. /\ G \o R \in Seq(Events) /\ Len(G \o R) = Len(G) + Len(R)
        /\ \A i \in 1..(Len(G) + Len(R)) : (G \o R)[i] = IF i <= Len(G) THEN G[i] ELSE R[i - Len(G)]
    BY <2>1, ConcatProperties
  <2>3. \A i \in 1..(N + 1) : upstream[i] = G[i]
    BY <1>2, <2>1, <2>2
  <2> QED
    BY <1>2, <2>1, <2>2, <2>3 DEF G
<1>4. \A i \in 1..N : upstream[i] = H[i] /\ H[i] \in Deltas
  BY <1>2, <1>3
<1>5. upstream[N + 1] = break
  BY <1>2, <1>3
<1>6. ends \in SUBSET Nat /\ N + 1 \in ends /\ \A i \in ends : N + 1 <= i
  <2>1. N + 1 \in ends
    BY <1>2, <1>3, <1>5 DEF Breaks
  <2>2. \A i \in 1..N : i \notin ends
    BY <1>4 DEF Deltas
  <2>3. ends \in SUBSET Nat /\ \A i \in ends : i >= 1
    BY <1>3
  <2>4. \A i \in ends : N + 1 <= i
    <3> HIDE DEF ends
    <3> QED
      BY <1>2, <2>2, <2>3
  <2> QED
    BY <2>1, <2>3, <2>4
<1>7. Min(ends) = N + 1
  <2> HIDE DEF ends
  <2>1. \E i \in ends : \A j \in ends : i <= j
    BY <1>6
  <2>2. Min(ends) \in ends /\ \A j \in ends : Min(ends) <= j
    BY <2>1 DEF Min
  <2>3. Min(ends) <= N + 1 /\ N + 1 <= Min(ends) /\ Min(ends) \in Nat
    BY <1>6, <2>2
  <2> QED
    BY <1>2, <2>3
<1>8. Answer = SubSeq(upstream, 1, N)
  <2>1. Answer = IF ends = {} THEN upstream ELSE SubSeq(upstream, 1, Min(ends) - 1)
    BY DEF Answer
  <2> HIDE DEF ends
  <2>2. ends # {} /\ Min(ends) - 1 = N
    BY <1>2, <1>6, <1>7
  <2> QED
    BY <2>1, <2>2
<1>9. SubSeq(upstream, 1, N) = H
  <2> DEFINE front == SubSeq(upstream, 1, N)
  <2>1. \A i \in 1..N : upstream[i] \in Deltas
    BY <1>4
  <2>2. /\ front \in Seq(Deltas) /\ Len(front) = N
        /\ \A i \in 1..N : front[i] = upstream[1 + i - 1]
    BY <1>2, <2>1, SubSeqProperties
  <2>3. \A i \in 1..N : front[i] = H[i]
    BY <1>2, <1>4, <2>2
  <2> HIDE DEF front
  <2>4. front = H
    BY <2>2, <2>3, SeqEqual
  <2> QED
    BY <2>4 DEF front
<1>10. Answer # upstream
  <2>1. Answer = H
    BY <1>8, <1>9
  <2>2. Len(upstream) # Len(H)
    BY <1>2, <1>3
  <2> QED
    BY <2>1, <2>2
<1> QED
  BY <1>5, <1>8, <1>9, <1>10
-----------------------------------------------------------------------------
(* rehydrate *)

\* A registry of texts.
Registry(known) ==
    /\ DOMAIN known \subseteq Texts
    /\ \A s \in DOMAIN known : known[s] \in Texts
    /\ <<>> \notin DOMAIN known

LEMMA RegistryFacts ==
    ASSUME NEW known, Registry(known), NEW s \in DOMAIN known
    PROVE  s \in Texts /\ known[s] \in Texts /\ Len(s) \in Nat \ {0}
  BY EmptySeq DEF Registry, Texts

\* The text has s at place i, character by character.
At(s, text, i) ==
    /\ i + Len(s) - 1 <= Len(text)
    /\ \A k \in 1..Len(s) : text[i + k - 1] = s[k]

LEMMA MatchIsAt ==
    ASSUME NEW known, DOMAIN known \subseteq Texts, NEW text \in Texts,
           NEW i \in Nat \ {0}, NEW s \in DOMAIN known
    PROVE  s \in MatchesAt(known, text, i) <=> At(s, text, i)
<1>1. s \in Texts /\ Len(s) \in Nat /\ Len(text) \in Nat
  BY DEF Texts
<1>2. ASSUME i + Len(s) - 1 <= Len(text)
      PROVE  SubSeq(text, i, i + Len(s) - 1) = s <=> At(s, text, i)
  <2> DEFINE part == SubSeq(text, i, i + Len(s) - 1)
  <2>1. part \in Texts /\ Len(part) = Len(s)
        /\ \A k \in 1..Len(s) : part[k] = text[i + k - 1]
    <3>1. \A k \in i..(i + Len(s) - 1) : text[k] \in Chars
      BY <1>1, <1>2 DEF Texts
    <3>2. i + Len(s) - 1 \in Int /\ i \in Int
      BY <1>1
    <3>3. /\ part \in Seq(Chars)
          /\ Len(part) = IF i <= i + Len(s) - 1 THEN (i + Len(s) - 1) - i + 1 ELSE 0
          /\ \A k \in 1..((i + Len(s) - 1) - i + 1) : part[k] = text[i + k - 1]
      BY <3>1, <3>2, SubSeqProperties
    <3> QED
      BY <1>1, <3>3 DEF Texts
  <2> HIDE DEF part
  <2>2. part = s <=> \A k \in 1..Len(s) : part[k] = s[k]
    BY <1>1, <2>1, SeqEqual DEF Texts
  <2> QED
    BY <1>2, <2>1, <2>2 DEF At, part
<1> QED
  BY <1>2 DEF MatchesAt, At

\* One step of the pass, given what it makes of the places behind.
PassStep(known, text, f, i) ==
    LET found == MatchesAt(known, text, i) IN
    IF i > Len(text) THEN <<>>
    ELSE IF found = {} THEN <<text[i]>> \o f[i + 1]
    ELSE known[Longest(found)] \o f[i + Len(Longest(found))]

Pass(known, text) ==
    CHOOSE f : f = [i \in 1..(Len(text) + 1) |-> PassStep(known, text, f, i)]

LEMMA RehydrateIsPass == \A known, text : Rehydrate(known, text) = Pass(known, text)[1]
  BY DEF Rehydrate, Pass, PassStep

\* Two surrogates at one place, of one length, are one.
LEMMA OneOfALength ==
    ASSUME NEW text, NEW i \in Nat, NEW s \in Texts, NEW r \in Texts, Len(r) = Len(s),
           At(s, text, i), At(r, text, i)
    PROVE  r = s
  BY SeqEqual DEF At, Texts

\* The longest of the surrogates at a place.
LEMMA LongestIs ==
    ASSUME NEW known, Registry(known), NEW text \in Texts, NEW i \in Nat \ {0},
           NEW s \in MatchesAt(known, text, i),
           \A r \in MatchesAt(known, text, i) : Len(r) <= Len(s)
    PROVE  Longest(MatchesAt(known, text, i)) = s
<1> DEFINE M == MatchesAt(known, text, i)
           L == Longest(M)
<1>1. \A r \in M : r \in DOMAIN known /\ r \in Texts /\ Len(r) \in Nat /\ At(r, text, i)
  <2> SUFFICES ASSUME NEW r \in M
               PROVE  r \in DOMAIN known /\ r \in Texts /\ Len(r) \in Nat /\ At(r, text, i)
    OBVIOUS
  <2>1. r \in DOMAIN known
    BY DEF MatchesAt
  <2> QED
    BY <2>1, RegistryFacts, MatchIsAt DEF Registry
<1> HIDE DEF M
<1>2. L \in M /\ \A r \in M : Len(r) <= Len(L)
  <2>1. \E m \in M : \A r \in M : Len(r) <= Len(m)
    BY DEF M
  <2> QED
    BY <2>1 DEF Longest
<1>3. s \in M /\ \A r \in M : Len(r) <= Len(s)
  BY DEF M
<1> HIDE DEF L
<1>4. L = s
  <2>1. Len(L) = Len(s)
    BY <1>1, <1>2, <1>3
  <2> QED
    BY <1>1, <1>2, <1>3, <2>1, OneOfALength
<1> QED
  BY <1>4 DEF L, M

\* What is found at a place is a surrogate that fits.
LEMMA Found ==
    ASSUME NEW known, Registry(known), NEW text \in Texts, NEW i \in Nat \ {0}
    PROVE  \/ MatchesAt(known, text, i) = {}
           \/ \E s \in DOMAIN known :
                 /\ MatchesAt(known, text, i) # {} /\ Longest(MatchesAt(known, text, i)) = s
                 /\ s \in Texts /\ Len(s) \in Nat \ {0}
                 /\ i + Len(s) - 1 <= Len(text)
<1> DEFINE M == MatchesAt(known, text, i)
           gaps == {Len(text) - Len(s) : s \in M}
<1> SUFFICES ASSUME M # {}
             PROVE  \E s \in DOMAIN known :
                       /\ Longest(M) = s
                       /\ s \in Texts /\ Len(s) \in Nat \ {0}
                       /\ i + Len(s) - 1 <= Len(text)
  OBVIOUS
<1>1. \A s \in M : /\ s \in DOMAIN known /\ s \in Texts /\ Len(s) \in Nat \ {0}
                   /\ i + Len(s) - 1 <= Len(text)
  <2> SUFFICES ASSUME NEW s \in M
               PROVE  /\ s \in DOMAIN known /\ s \in Texts /\ Len(s) \in Nat \ {0}
                      /\ i + Len(s) - 1 <= Len(text)
    OBVIOUS
  <2>1. s \in DOMAIN known /\ i + Len(s) - 1 <= Len(text)
    BY DEF MatchesAt
  <2> QED
    BY <2>1, RegistryFacts
<1>2. Len(text) \in Nat
  BY DEF Texts
<1> HIDE DEF M
<1>3. PICK g \in gaps : \A k \in gaps : g <= k
  <2>1. gaps \in SUBSET Nat /\ gaps # {}
    BY <1>1, <1>2
  <2> HIDE DEF gaps
  <2> QED
    BY <2>1, LeastNatural
<1>4. PICK s \in M : g = Len(text) - Len(s)
  OBVIOUS
<1>5. \A r \in M : Len(r) <= Len(s)
  <2> SUFFICES ASSUME NEW r \in M PROVE Len(r) <= Len(s)
    OBVIOUS
  <2>1. g <= Len(text) - Len(r)
    BY <1>3
  <2> QED
    BY <1>1, <1>2, <1>4, <2>1
<1>6. Longest(M) = s
  BY <1>4, <1>5, LongestIs DEF M
<1> QED
  BY <1>1, <1>4, <1>6

LEMMA PassLooksBehind ==
    ASSUME NEW known, Registry(known), NEW text \in Texts, NEW i \in 1..(Len(text) + 1),
           NEW f, NEW g, \A j \in 1..(Len(text) + 1) : j > i => f[j] = g[j]
    PROVE  PassStep(known, text, f, i) = PassStep(known, text, g, i)
<1>1. Len(text) \in Nat /\ i \in Nat \ {0}
  BY DEF Texts
<1>2. CASE i > Len(text)
  BY <1>2 DEF PassStep
<1>3. CASE i <= Len(text)
  <2>1. i + 1 \in 1..(Len(text) + 1) /\ f[i + 1] = g[i + 1]
    BY <1>1, <1>3
  <2>2. CASE MatchesAt(known, text, i) = {}
    BY <1>1, <1>3, <2>1, <2>2 DEF PassStep
  <2>3. ASSUME NEW s \in DOMAIN known, MatchesAt(known, text, i) # {},
               Longest(MatchesAt(known, text, i)) = s,
               Len(s) \in Nat \ {0}, i + Len(s) - 1 <= Len(text)
        PROVE  PassStep(known, text, f, i) = PassStep(known, text, g, i)
    <3>1. i + Len(s) \in 1..(Len(text) + 1) /\ i + Len(s) > i
      BY <1>1, <2>3
    <3>2. f[i + Len(s)] = g[i + Len(s)]
      BY <3>1
    <3> QED
      BY <2>3, <3>2 DEF PassStep
  <2> QED
    BY <1>1, <2>2, <2>3, Found
<1> QED
  BY <1>1, <1>2, <1>3

\* There is a function that satisfies the recursion.
LEMMA PassEquation ==
    ASSUME NEW known, Registry(known), NEW text \in Texts
    PROVE  \A i \in 1..(Len(text) + 1) :
              Pass(known, text)[i] = PassStep(known, text, Pass(known, text), i)
<1> DEFINE N == Len(text) + 1
           Solves(g, n) == \A i \in 1..N : N - i <= n => g[i] = PassStep(known, text, g, i)
           Solved == {n \in Nat : \E g : Solves(g, n)}
<1>1. N \in Nat \ {0} /\ N = Len(text) + 1 /\ Len(text) \in Nat
  BY DEF Texts
<1> HIDE DEF N
<1>2. 0 \in Solved
  <2> DEFINE g == [i \in 1..N |-> <<>>]
  <2>1. \A i \in 1..N : N - i <= 0 => i > Len(text)
    BY <1>1
  <2>2. Solves(g, 0)
    BY <2>1 DEF PassStep
  <2> HIDE DEF g, Solves
  <2> QED
    BY <2>2
<1>3. ASSUME NEW n \in 1..N, n - 1 \in Solved PROVE n \in Solved
  <2>1. PICK g : Solves(g, n - 1)
    BY <1>3
  <2> DEFINE h == [i \in 1..N |-> PassStep(known, text, g, i)]
  <2>2. \A i \in 1..N : N - i <= n - 1 => h[i] = g[i]
    BY <2>1
  <2>3. ASSUME NEW i \in 1..N, N - i <= n PROVE h[i] = PassStep(known, text, h, i)
    <3>1. h[i] = PassStep(known, text, g, i)
      OBVIOUS
    <3> HIDE DEF h
    <3>2. \A j \in 1..N : j > i => g[j] = h[j]
      <4> SUFFICES ASSUME NEW j \in 1..N, j > i PROVE g[j] = h[j]
        OBVIOUS
      <4>1. N - j <= n - 1
        BY <1>1, <2>3
      <4> QED
        BY <2>2, <4>1
    <3>3. PassStep(known, text, g, i) = PassStep(known, text, h, i)
      BY <3>2, PassLooksBehind DEF N
    <3> QED
      BY <3>1, <3>3
  <2>4. Solves(h, n)
    <3> HIDE DEF h
    <3> QED
      BY <2>3
  <2>5. n \in Nat
    BY <1>1
  <2> HIDE DEF h, Solves
  <2> QED
    BY <2>4, <2>5
<1>4. N \in Solved
  <2> HIDE DEF Solved
  <2>1. N \in Nat
    BY <1>1
  <2>2. 0..N \subseteq Solved
    BY <1>2, <1>3, <2>1, Upward
  <2> QED
    BY <2>1, <2>2
<1>5. PICK g : Solves(g, N)
  BY <1>4
<1> DEFINE h == [i \in 1..N |-> g[i]]
<1>6. \A i \in 1..N : h[i] = PassStep(known, text, h, i)
  <2> SUFFICES ASSUME NEW i \in 1..N PROVE h[i] = PassStep(known, text, h, i)
    OBVIOUS
  <2>1. N - i <= N
    BY <1>1
  <2>2. h[i] = PassStep(known, text, g, i)
    BY <1>5, <2>1
  <2>3. \A j \in 1..N : j > i => g[j] = h[j]
    OBVIOUS
  <2> HIDE DEF h
  <2>4. PassStep(known, text, g, i) = PassStep(known, text, h, i)
    BY <2>3, PassLooksBehind DEF N
  <2> QED
    BY <2>2, <2>4
<1>7. h = [i \in 1..(Len(text) + 1) |-> PassStep(known, text, h, i)]
  <2>1. h = [i \in 1..N |-> h[i]]
    OBVIOUS
  <2> HIDE DEF h
  <2> QED
    BY <1>1, <1>6, <2>1
<1>8. Pass(known, text) = [i \in 1..(Len(text) + 1) |->
                              PassStep(known, text, Pass(known, text), i)]
  <2> HIDE DEF h
  <2> QED
    BY <1>7 DEF Pass
<1> QED
  BY <1>8

\* The pass looks at nothing that is in front: behind a text it does what it does
\* without that text.
LEMMA MatchesBehind ==
    ASSUME NEW known, Registry(known), NEW front \in Texts, NEW text \in Texts,
           NEW i \in Nat \ {0}
    PROVE  MatchesAt(known, front \o text, Len(front) + i) = MatchesAt(known, text, i)
<1>1. /\ front \o text \in Texts /\ Len(front) \in Nat /\ Len(text) \in Nat
      /\ Len(front \o text) = Len(front) + Len(text)
      /\ \A k \in 1..Len(text) : (front \o text)[Len(front) + k] = text[k]
  <2>1. \A k \in (Len(front) + 1)..(Len(front) + Len(text)) :
            (front \o text)[k] = text[k - Len(front)]
    BY ConcatProperties DEF Texts
  <2>2. /\ front \o text \in Texts /\ Len(front) \in Nat /\ Len(text) \in Nat
        /\ Len(front \o text) = Len(front) + Len(text)
    BY ConcatProperties DEF Texts
  <2>3. ASSUME NEW k \in 1..Len(text) PROVE (front \o text)[Len(front) + k] = text[k]
    <3>1. /\ Len(front) + k \in (Len(front) + 1)..(Len(front) + Len(text))
          /\ (Len(front) + k) - Len(front) = k
      BY <2>2
    <3>2. (front \o text)[Len(front) + k] = text[(Len(front) + k) - Len(front)]
      BY <2>1, <3>1
    <3> QED
      BY <3>1, <3>2
  <2> QED
    BY <2>2, <2>3
<1> DEFINE whole == front \o text
           m == Len(front)
<1>2. whole \in Texts /\ m \in Nat /\ Len(whole) = m + Len(text)
      /\ \A k \in 1..Len(text) : whole[m + k] = text[k]
  BY <1>1
<1>3. ASSUME NEW s \in DOMAIN known
      PROVE  s \in MatchesAt(known, whole, m + i) <=> s \in MatchesAt(known, text, i)
  <2>0. Len(s) \in Nat /\ Len(text) \in Nat
    BY <1>1 DEF Registry, Texts
  <2> HIDE DEF whole, m
  <2>1. s \in MatchesAt(known, whole, m + i) <=> At(s, whole, m + i)
    <3>1. m + i \in Nat \ {0}
      BY <1>2
    <3> QED
      BY <1>2, <3>1, MatchIsAt DEF Registry
  <2>2. s \in MatchesAt(known, text, i) <=> At(s, text, i)
    BY MatchIsAt DEF Registry
  <2>3. (m + i) + Len(s) - 1 <= Len(whole) <=> i + Len(s) - 1 <= Len(text)
    BY <1>2, <2>0
  <2>4. ASSUME i + Len(s) - 1 <= Len(text), NEW k \in 1..Len(s)
        PROVE  whole[(m + i) + k - 1] = text[i + k - 1]
    <3>1. i + k - 1 \in 1..Len(text) /\ (m + i) + k - 1 = m + (i + k - 1)
      BY <1>2, <2>0, <2>4
    <3> QED
      BY <1>2, <3>1
  <2> QED
    BY <2>1, <2>2, <2>3, <2>4 DEF At
<1> HIDE DEF whole, m
<1>4. MatchesAt(known, whole, m + i) = MatchesAt(known, text, i)
  BY <1>3 DEF MatchesAt
<1> QED
  BY <1>4 DEF whole, m

LEMMA PassBehind ==
    ASSUME NEW known, Registry(known), NEW front \in Texts, NEW text \in Texts
    PROVE  \A i \in 1..(Len(text) + 1) :
              Pass(known, front \o text)[Len(front) + i] = Pass(known, text)[i]
<1> DEFINE N == Len(text) + 1
           whole == front \o text
           m == Len(front)
           P == Pass(known, whole)
           Q == Pass(known, text)
           Same == {n \in Nat : \A i \in 1..N : N - i <= n => P[m + i] = Q[i]}
<1>1. /\ whole \in Texts /\ m \in Nat /\ Len(text) \in Nat /\ N = Len(text) + 1
      /\ Len(whole) = m + Len(text)
      /\ \A k \in 1..Len(text) : whole[m + k] = text[k]
  <2>1. /\ front \o text \in Texts /\ Len(front) \in Nat /\ Len(text) \in Nat
        /\ Len(front \o text) = Len(front) + Len(text)
    BY ConcatProperties DEF Texts
  <2>2. \A k \in (Len(front) + 1)..(Len(front) + Len(text)) :
            (front \o text)[k] = text[k - Len(front)]
    BY ConcatProperties DEF Texts
  <2>3. ASSUME NEW k \in 1..Len(text) PROVE whole[m + k] = text[k]
    <3>1. m + k \in (Len(front) + 1)..(Len(front) + Len(text)) /\ (m + k) - m = k
      BY <2>1
    <3>2. (front \o text)[m + k] = text[(m + k) - m]
      BY <2>2, <3>1
    <3> QED
      BY <3>1, <3>2
  <2> QED
    BY <2>1, <2>3
<1>2. \A i \in Nat \ {0} : MatchesAt(known, whole, m + i) = MatchesAt(known, text, i)
  BY MatchesBehind
<1>3. \A i \in 1..(m + N) : P[i] = PassStep(known, whole, P, i)
  <2>1. Len(whole) + 1 = m + N
    BY <1>1
  <2>2. \A i \in 1..(Len(whole) + 1) : P[i] = PassStep(known, whole, P, i)
    BY <1>1, PassEquation
  <2> QED
    BY <2>1, <2>2
<1>4. \A i \in 1..N : Q[i] = PassStep(known, text, Q, i)
  BY PassEquation
<1> HIDE DEF N, whole, m, P, Q
<1>5. ASSUME NEW i \in 1..N, \A j \in 1..N : j > i => P[m + j] = Q[j]
      PROVE  P[m + i] = Q[i]
  <2>1. i \in Nat \ {0} /\ m + i \in 1..(m + N)
    BY <1>1
  <2>2. MatchesAt(known, whole, m + i) = MatchesAt(known, text, i)
    BY <1>2, <2>1
  <2>3. P[m + i] = PassStep(known, whole, P, m + i) /\ Q[i] = PassStep(known, text, Q, i)
    BY <1>3, <1>4, <2>1
  <2>4. CASE i > Len(text)
    <3>1. m + i > Len(whole)
      BY <1>1, <2>4
    <3> QED
      BY <2>3, <2>4, <3>1 DEF PassStep
  <2>5. CASE i <= Len(text)
    <3>1. ~(m + i > Len(whole)) /\ ~(i > Len(text)) /\ whole[m + i] = text[i]
      BY <1>1, <2>1, <2>5
    <3>2. P[(m + i) + 1] = Q[i + 1]
      <4>1. i + 1 \in 1..N /\ i + 1 > i /\ (m + i) + 1 = m + (i + 1)
        BY <1>1, <2>1, <2>5
      <4> QED
        BY <1>5, <4>1
    <3>3. CASE MatchesAt(known, text, i) = {}
      BY <2>2, <2>3, <3>1, <3>2, <3>3 DEF PassStep
    <3>4. ASSUME NEW s \in DOMAIN known, MatchesAt(known, text, i) # {},
                 Longest(MatchesAt(known, text, i)) = s,
                 Len(s) \in Nat \ {0}, i + Len(s) - 1 <= Len(text)
          PROVE  P[m + i] = Q[i]
      <4>1. /\ i + Len(s) \in 1..N /\ i + Len(s) > i
            /\ (m + i) + Len(s) = m + (i + Len(s))
        BY <1>1, <2>1, <3>4
      <4>2. P[(m + i) + Len(s)] = Q[i + Len(s)]
        BY <1>5, <4>1
      <4> QED
        BY <2>2, <2>3, <3>1, <3>4, <4>2 DEF PassStep
    <3> QED
      BY <2>1, <3>3, <3>4, Found
  <2> QED
    BY <1>1, <2>1, <2>4, <2>5
<1>6. 0 \in Same
  <2> SUFFICES ASSUME NEW i \in 1..N, N - i <= 0 PROVE P[m + i] = Q[i]
    OBVIOUS
  <2>1. \A j \in 1..N : ~(j > i)
    BY <1>1
  <2> QED
    BY <1>5, <2>1
<1>7. ASSUME NEW n \in 1..N, n - 1 \in Same PROVE n \in Same
  <2>1. ASSUME NEW i \in 1..N, N - i <= n PROVE P[m + i] = Q[i]
    <3>1. \A j \in 1..N : j > i => N - j <= n - 1
      BY <1>1, <2>1
    <3>2. \A j \in 1..N : N - j <= n - 1 => P[m + j] = Q[j]
      BY <1>7
    <3> QED
      BY <1>5, <3>1, <3>2
  <2>2. n \in Nat
    BY <1>1
  <2> QED
    BY <2>1, <2>2
<1>8. N \in Same
  <2> HIDE DEF Same
  <2>1. N \in Nat
    BY <1>1
  <2>2. 0..N \subseteq Same
    BY <1>6, <1>7, <2>1, Upward
  <2> QED
    BY <2>1, <2>2
<1>9. \A i \in 1..N : P[m + i] = Q[i]
  <2> SUFFICES ASSUME NEW i \in 1..N PROVE P[m + i] = Q[i]
    OBVIOUS
  <2>1. N - i <= N
    BY <1>1
  <2> QED
    BY <1>8, <2>1
<1> QED
  BY <1>9 DEF N, whole, m, P, Q

-----------------------------------------------------------------------------
(* The equations of rehydrate *)

LEMMA RehydrateEmpty ==
    ASSUME NEW known, Registry(known)
    PROVE  Rehydrate(known, <<>>) = <<>>
<1>1. <<>> \in Texts /\ Len(<<>>) = 0
  BY EmptySeq DEF Texts
<1>2. Pass(known, <<>>)[1] = PassStep(known, <<>>, Pass(known, <<>>), 1)
  BY <1>1, PassEquation
<1> QED
  BY <1>1, <1>2, RehydrateIsPass DEF PassStep

\* s begins the text, and no longer surrogate does.
Leads(known, s, text) ==
    /\ s \in DOMAIN known /\ At(s, text, 1)
    /\ \A r \in DOMAIN known : At(r, text, 1) => Len(r) <= Len(s)

\* A surrogate in front is replaced, if it is the longest there.
LEMMA RehydrateSurrogate ==
    ASSUME NEW known, Registry(known), NEW s \in DOMAIN known, NEW text \in Texts,
           Leads(known, s, s \o text)
    PROVE  Rehydrate(known, s \o text) = known[s] \o Rehydrate(known, text)
<1> DEFINE whole == s \o text
           P == Pass(known, whole)
<1>1. s \in Texts /\ Len(s) \in Nat \ {0} /\ Len(text) \in Nat
  BY RegistryFacts DEF Texts
<1>2. whole \in Texts /\ Len(whole) = Len(s) + Len(text)
  BY <1>1, ConcatProperties DEF Texts
<1>3. s \in MatchesAt(known, whole, 1)
  <2>1. At(s, whole, 1)
    BY DEF Leads
  <2> HIDE DEF whole
  <2> QED
    BY <1>2, <2>1, MatchIsAt DEF Registry
<1>4. MatchesAt(known, whole, 1) # {} /\ Longest(MatchesAt(known, whole, 1)) = s
  <2>1. \A r \in DOMAIN known : At(r, whole, 1) => Len(r) <= Len(s)
    BY DEF Leads
  <2> HIDE DEF whole
  <2>2. ASSUME NEW r \in MatchesAt(known, whole, 1) PROVE Len(r) <= Len(s)
    <3>1. r \in DOMAIN known
      BY DEF MatchesAt
    <3> QED
      BY <1>2, <2>1, <3>1, MatchIsAt DEF Registry
  <2>3. 1 \in Nat \ {0}
    OBVIOUS
  <2> QED
    BY <1>2, <1>3, <2>2, <2>3, LongestIs
<1>5. P[1] = PassStep(known, whole, P, 1)
  <2>1. 1 \in 1..(Len(whole) + 1)
    BY <1>1, <1>2
  <2> QED
    BY <1>2, <2>1, PassEquation
<1>6. P[Len(s) + 1] = Pass(known, text)[1]
  <2>1. 1 \in 1..(Len(text) + 1)
    BY <1>1
  <2> QED
    BY <1>1, <2>1, PassBehind
<1>7. P[1] = known[s] \o P[1 + Len(s)]
  <2>1. ~(1 > Len(whole))
    BY <1>1, <1>2
  <2> HIDE DEF whole, P
  <2> QED
    BY <1>4, <1>5, <2>1 DEF PassStep
<1>8. 1 + Len(s) = Len(s) + 1
  BY <1>1
<1> QED
  BY <1>6, <1>7, <1>8, RehydrateIsPass

\* No surrogate begins the text.
Unmarked(known, text) == \A s \in DOMAIN known : ~At(s, text, 1)

\* A character where no surrogate begins is left as it is.
LEMMA RehydrateCharacter ==
    ASSUME NEW known, Registry(known), NEW x \in Chars, NEW text \in Texts,
           Unmarked(known, <<x>> \o text)
    PROVE  Rehydrate(known, <<x>> \o text) = <<x>> \o Rehydrate(known, text)
<1> DEFINE whole == <<x>> \o text
           P == Pass(known, whole)
<1>1. <<x>> \in Texts /\ Len(<<x>>) = 1 /\ Len(text) \in Nat /\ <<x>>[1] = x
  BY DEF Texts
<1>2. whole \in Texts /\ Len(whole) = 1 + Len(text) /\ whole[1] = x
  <2>1. /\ whole \in Texts /\ Len(whole) = Len(<<x>>) + Len(text)
        /\ \A k \in 1..Len(<<x>>) : whole[k] = <<x>>[k]
    BY <1>1, ConcatProperties DEF Texts
  <2> QED
    BY <1>1, <2>1
<1>3. MatchesAt(known, whole, 1) = {}
  <2>1. MatchesAt(known, whole, 1) \subseteq DOMAIN known
    BY DEF MatchesAt
  <2> HIDE DEF whole
  <2>2. ASSUME NEW s \in MatchesAt(known, whole, 1) PROVE FALSE
    <3>1. At(s, whole, 1)
      BY <1>2, <2>1, MatchIsAt DEF Registry
    <3> QED
      BY <2>1, <3>1 DEF Unmarked, whole
  <2> QED
    BY <2>2
<1>4. P[1] = PassStep(known, whole, P, 1)
  <2>1. 1 \in 1..(Len(whole) + 1)
    BY <1>1, <1>2
  <2> QED
    BY <1>2, <2>1, PassEquation
<1>5. P[1 + 1] = Pass(known, text)[1]
  <2>1. 1 \in 1..(Len(text) + 1)
    BY <1>1
  <2>2. P[Len(<<x>>) + 1] = Pass(known, text)[1]
    BY <1>1, <2>1, PassBehind
  <2> QED
    BY <1>1, <2>2
<1>6. P[1] = <<x>> \o P[1 + 1]
  <2>1. ~(1 > Len(whole))
    BY <1>1, <1>2
  <2> HIDE DEF whole, P
  <2> QED
    BY <1>2, <1>3, <1>4, <2>1 DEF PassStep
<1> QED
  BY <1>5, <1>6, RehydrateIsPass

-----------------------------------------------------------------------------
(* Texts, cut and joined *)

LEMMA Joined ==
    ASSUME NEW a \in Texts, NEW b \in Texts
    PROVE  /\ a \o b \in Texts /\ Len(a) \in Nat /\ Len(b) \in Nat
           /\ Len(a \o b) = Len(a) + Len(b)
           /\ \A k \in 1..Len(a) : (a \o b)[k] = a[k]
           /\ \A k \in 1..Len(b) : (a \o b)[Len(a) + k] = b[k]
<1>1. /\ a \o b \in Texts /\ Len(a) \in Nat /\ Len(b) \in Nat
      /\ Len(a \o b) = Len(a) + Len(b)
      /\ \A k \in 1..Len(a) : (a \o b)[k] = a[k]
      /\ \A k \in (Len(a) + 1)..(Len(a) + Len(b)) : (a \o b)[k] = b[k - Len(a)]
  BY ConcatProperties DEF Texts
<1>2. ASSUME NEW k \in 1..Len(b) PROVE (a \o b)[Len(a) + k] = b[k]
  <2>1. Len(a) + k \in (Len(a) + 1)..(Len(a) + Len(b)) /\ (Len(a) + k) - Len(a) = k
    BY <1>1
  <2>2. (a \o b)[Len(a) + k] = b[(Len(a) + k) - Len(a)]
    BY <1>1, <2>1
  <2> QED
    BY <2>1, <2>2
<1> QED
  BY <1>1, <1>2

LEMMA Cut ==
    ASSUME NEW text \in Texts, NEW n \in 0..Len(text)
    PROVE  \E a, b \in Texts : /\ text = a \o b
                               /\ Len(a) = n /\ Len(b) = Len(text) - n
                               /\ a = SubSeq(text, 1, n)
                               /\ b = SubSeq(text, n + 1, Len(text))
<1> DEFINE a == SubSeq(text, 1, n)
           b == SubSeq(text, n + 1, Len(text))
<1>1. Len(text) \in Nat /\ n \in Int /\ n + 1 \in Int /\ 1 \in Int
      /\ \A k \in 1..Len(text) : text[k] \in Chars
  BY DEF Texts
<1>2. a \in Texts /\ Len(a) = n /\ \A k \in 1..n : a[k] = text[k]
  <2>1. \A k \in 1..n : text[k] \in Chars
    BY <1>1
  <2>2. /\ a \in Seq(Chars)
        /\ Len(a) = IF 1 <= n THEN n - 1 + 1 ELSE 0
        /\ \A k \in 1..(n - 1 + 1) : a[k] = text[1 + k - 1]
    BY <1>1, <2>1, SubSeqProperties
  <2>3. Len(a) = n
    BY <1>1, <2>2
  <2>4. ASSUME NEW k \in 1..n PROVE a[k] = text[k]
    <3>1. k \in 1..(n - 1 + 1) /\ 1 + k - 1 = k
      BY <1>1
    <3> QED
      BY <2>2, <3>1
  <2> QED
    BY <2>2, <2>3, <2>4 DEF Texts
<1>3. /\ b \in Texts /\ Len(b) = Len(text) - n
      /\ \A k \in 1..(Len(text) - n) : b[k] = text[n + k]
  <2>1. \A k \in (n + 1)..Len(text) : text[k] \in Chars
    BY <1>1
  <2>2. /\ b \in Seq(Chars)
        /\ Len(b) = IF n + 1 <= Len(text) THEN Len(text) - (n + 1) + 1 ELSE 0
        /\ \A k \in 1..(Len(text) - (n + 1) + 1) : b[k] = text[(n + 1) + k - 1]
    BY <1>1, <2>1, SubSeqProperties
  <2>3. Len(b) = Len(text) - n
    BY <1>1, <2>2
  <2>4. ASSUME NEW k \in 1..(Len(text) - n) PROVE b[k] = text[n + k]
    <3>1. k \in 1..(Len(text) - (n + 1) + 1) /\ (n + 1) + k - 1 = n + k
      BY <1>1
    <3> QED
      BY <2>2, <3>1
  <2> QED
    BY <2>2, <2>3, <2>4 DEF Texts
<1> HIDE DEF a, b
<1>4. text = a \o b
  <2>1. /\ a \o b \in Texts /\ Len(a \o b) = Len(text)
        /\ \A k \in 1..n : (a \o b)[k] = a[k]
        /\ \A k \in 1..(Len(text) - n) : (a \o b)[n + k] = b[k]
    <3>1. /\ a \o b \in Texts /\ Len(a \o b) = Len(a) + Len(b)
          /\ \A k \in 1..Len(a) : (a \o b)[k] = a[k]
          /\ \A k \in 1..Len(b) : (a \o b)[Len(a) + k] = b[k]
      BY <1>2, <1>3, Joined
    <3>2. Len(a) + Len(b) = Len(text)
      BY <1>1, <1>2, <1>3
    <3>3. \A k \in 1..n : (a \o b)[k] = a[k]
      BY <1>2, <3>1
    <3>4. \A k \in 1..(Len(text) - n) : (a \o b)[n + k] = b[k]
      BY <1>2, <1>3, <3>1
    <3> QED
      BY <3>1, <3>2, <3>3, <3>4
  <2>2. ASSUME NEW k \in 1..Len(text) PROVE (a \o b)[k] = text[k]
    <3>1. CASE k <= n
      BY <1>1, <1>2, <2>1, <3>1
    <3>2. CASE k > n
      <4>1. k - n \in 1..(Len(text) - n) /\ n + (k - n) = k
        BY <1>1, <3>2
      <4>2. (a \o b)[n + (k - n)] = b[k - n] /\ b[k - n] = text[n + (k - n)]
        BY <1>3, <2>1, <4>1
      <4> QED
        BY <4>1, <4>2
    <3>3. k <= n \/ k > n
      BY <1>1
    <3> QED
      BY <3>1, <3>2, <3>3
  <2> QED
    BY <2>1, <2>2, SeqEqual DEF Texts
<1> QED
  BY <1>2, <1>3, <1>4 DEF a, b

\* The first character.
LEMMA FirstCharacter ==
    ASSUME NEW text \in Texts, text # <<>>
    PROVE  \E x \in Chars, rest \in Texts :
              text = <<x>> \o rest /\ Len(rest) = Len(text) - 1
<1>1. Len(text) \in Nat \ {0} /\ 1 \in 0..Len(text)
  BY EmptySeq DEF Texts
<1>2. PICK a, rest \in Texts : /\ text = a \o rest /\ Len(a) = 1
                               /\ Len(rest) = Len(text) - 1
  BY <1>1, Cut
<1>3. a[1] \in Chars /\ a = <<a[1]>>
  BY <1>2 DEF Texts
<1> QED
  BY <1>2, <1>3

\* Induction over texts, the shorter ones first.
LEMMA TextInduction ==
    ASSUME NEW S, <<>> \in S,
           \A x \in Chars, rest \in Texts :
              (\A t \in Texts : Len(t) <= Len(rest) => t \in S) => <<x>> \o rest \in S
    PROVE  Texts \subseteq S
<1> DEFINE Up == {n \in Nat : \A t \in Texts : Len(t) <= n => t \in S}
<1>1. 0 \in Up
  <2>1. \A t \in Texts : Len(t) <= 0 => t = <<>>
    BY EmptySeq DEF Texts
  <2> QED
    BY <2>1
<1>2. ASSUME NEW n \in Nat \ {0}, n - 1 \in Up PROVE n \in Up
  <2>1. ASSUME NEW t \in Texts, Len(t) <= n PROVE t \in S
    <3>1. CASE t = <<>>
      BY <3>1
    <3>2. CASE t # <<>>
      <4>1. PICK x \in Chars, rest \in Texts : t = <<x>> \o rest /\ Len(rest) = Len(t) - 1
        BY <3>2, FirstCharacter
      <4>2. \A u \in Texts : Len(u) <= Len(rest) => Len(u) <= n - 1
        BY <2>1, <4>1 DEF Texts
      <4> QED
        BY <1>2, <4>1, <4>2
    <3> QED
      BY <3>1, <3>2
  <2> QED
    BY <2>1
<1> SUFFICES ASSUME NEW t \in Texts PROVE t \in S
  OBVIOUS
<1>3. Len(t) \in Nat
  BY DEF Texts
<1>4. Len(t) \in Up
  <2> HIDE DEF Up
  <2>1. \A n \in 1..Len(t) : n \in Nat \ {0}
    BY <1>3
  <2>2. 0..Len(t) \subseteq Up
    BY <1>1, <1>2, <1>3, <2>1, Upward
  <2> QED
    BY <1>3, <2>2
<1> QED
  BY <1>3, <1>4

LEMMA TextsReassociate == \A a, b, c \in Texts : (a \o b) \o c = a \o (b \o c)
  BY ConcatAssociative DEF Texts

LEMMA OneInFront ==
    \A x \in Chars : \A a, b \in Texts : (<<x>> \o a) \o b = <<x>> \o (a \o b)
<1> SUFFICES ASSUME NEW x \in Chars, NEW a \in Texts, NEW b \in Texts
             PROVE  (<<x>> \o a) \o b = <<x>> \o (a \o b)
  OBVIOUS
<1>1. <<x>> \in Texts
  BY DEF Texts
<1> HIDE DEF Texts
<1> QED
  BY <1>1, TextsReassociate, Zenon

\* What stands in a text stands in it with something behind, and conversely if it ends
\* in time.
LEMMA AtFront ==
    ASSUME NEW s \in Texts, NEW a \in Texts, NEW b \in Texts, NEW i \in Nat \ {0}
    PROVE  At(s, a, i) <=> At(s, a \o b, i) /\ i + Len(s) - 1 <= Len(a)
<1>1. /\ Len(a) \in Nat /\ Len(s) \in Nat /\ Len(b) \in Nat
      /\ Len(a \o b) = Len(a) + Len(b)
      /\ \A k \in 1..Len(a) : (a \o b)[k] = a[k]
  BY Joined
<1>2. ASSUME i + Len(s) - 1 <= Len(a) PROVE At(s, a, i) <=> At(s, a \o b, i)
  <2>1. \A k \in 1..Len(s) : i + k - 1 \in 1..Len(a)
    BY <1>1, <1>2
  <2>2. \A k \in 1..Len(s) : (a \o b)[i + k - 1] = a[i + k - 1]
    BY <1>1, <2>1
  <2>3. i + Len(s) - 1 <= Len(a \o b)
    BY <1>1, <1>2
  <2> QED
    BY <1>2, <2>2, <2>3 DEF At
<1> QED
  BY <1>2 DEF At

LEMMA AtBehind ==
    ASSUME NEW s \in Texts, NEW a \in Texts, NEW b \in Texts, NEW i \in Nat \ {0}
    PROVE  At(s, a \o b, Len(a) + i) <=> At(s, b, i)
<1>1. /\ Len(a) \in Nat /\ Len(s) \in Nat /\ Len(b) \in Nat
      /\ Len(a \o b) = Len(a) + Len(b)
      /\ \A k \in 1..Len(b) : (a \o b)[Len(a) + k] = b[k]
  BY Joined
<1>2. (Len(a) + i) + Len(s) - 1 <= Len(a \o b) <=> i + Len(s) - 1 <= Len(b)
  BY <1>1
<1>3. ASSUME i + Len(s) - 1 <= Len(b), NEW k \in 1..Len(s)
      PROVE  (a \o b)[(Len(a) + i) + k - 1] = b[i + k - 1]
  <2>1. i + k - 1 \in 1..Len(b) /\ (Len(a) + i) + k - 1 = Len(a) + (i + k - 1)
    BY <1>1, <1>3
  <2>2. (a \o b)[Len(a) + (i + k - 1)] = b[i + k - 1]
    BY <1>1, <2>1
  <2> QED
    BY <2>1, <2>2
<1> QED
  BY <1>2, <1>3 DEF At
-----------------------------------------------------------------------------
(* What the pass makes of a text *)

\* If a surrogate begins the text, one of the longest of those that do.
LEMMA LeaderIs ==
    ASSUME NEW known, Registry(known), NEW text \in Texts, ~Unmarked(known, text)
    PROVE  \E s \in DOMAIN known : Leads(known, s, text)
<1>1. PICK r \in DOMAIN known : At(r, text, 1)
  BY DEF Unmarked
<1>2. r \in MatchesAt(known, text, 1)
  BY <1>1, MatchIsAt DEF Registry
<1> DEFINE Lengths == {Len(s) : s \in {q \in DOMAIN known : At(q, text, 1)}}
<1>3. Len(text) \in Nat /\ Lengths \in SUBSET (1..Len(text)) /\ Lengths # {}
  <2>1. Len(text) \in Nat
    BY DEF Texts
  <2>2. ASSUME NEW s \in DOMAIN known, At(s, text, 1) PROVE Len(s) \in 1..Len(text)
    BY <2>1, <2>2, RegistryFacts DEF At
  <2> QED
    BY <1>1, <2>1, <2>2
<1> HIDE DEF Lengths
<1>4. Max(Lengths) \in Lengths /\ \A n \in Lengths : n <= Max(Lengths)
  BY <1>3, LastPlace
<1>5. PICK s \in DOMAIN known : At(s, text, 1) /\ Len(s) = Max(Lengths)
  BY <1>4 DEF Lengths
<1>6. \A q \in DOMAIN known : At(q, text, 1) => Len(q) \in Lengths
  BY DEF Lengths
<1> QED
  BY <1>4, <1>5, <1>6 DEF Leads

\* Induction along the pass.
LEMMA PassInduction ==
    ASSUME NEW known, Registry(known), NEW S, <<>> \in S,
           \A s \in DOMAIN known, t \in Texts :
              t \in S /\ Leads(known, s, s \o t) => s \o t \in S,
           \A x \in Chars, t \in Texts :
              t \in S /\ Unmarked(known, <<x>> \o t) => <<x>> \o t \in S
    PROVE  Texts \subseteq S
<1>1. ASSUME NEW x \in Chars, NEW rest \in Texts,
             \A t \in Texts : Len(t) <= Len(rest) => t \in S
      PROVE  <<x>> \o rest \in S
  <2> DEFINE whole == <<x>> \o rest
  <2>1. <<x>> \in Texts /\ Len(<<x>>) = 1 /\ Len(rest) \in Nat
    BY DEF Texts
  <2>2. whole \in Texts /\ Len(whole) = 1 + Len(rest)
    BY <2>1, Joined
  <2>3. CASE Unmarked(known, whole)
    BY <1>1, <2>1, <2>3
  <2>4. CASE ~Unmarked(known, whole)
    <3> HIDE DEF whole
    <3>1. PICK s \in DOMAIN known : Leads(known, s, whole)
      BY <2>2, <2>4, LeaderIs
    <3>2. s \in Texts /\ Len(s) \in Nat \ {0} /\ At(s, whole, 1)
      BY <3>1, RegistryFacts DEF Leads
    <3>3. Len(s) \in 0..Len(whole)
      BY <2>1, <2>2, <3>2 DEF At
    <3>4. PICK a, b \in Texts : /\ whole = a \o b
                                /\ Len(a) = Len(s) /\ Len(b) = Len(whole) - Len(s)
      BY <2>2, <3>3, Cut
    <3>5. a = s
      <4>1. \A k \in 1..Len(s) : whole[k] = s[k]
        <5>1. \A k \in 1..Len(s) : 1 + k - 1 = k
          BY <3>2
        <5> QED
          BY <3>2, <5>1 DEF At
      <4>2. \A k \in 1..Len(a) : whole[k] = a[k]
        BY <3>4, Joined
      <4> QED
        BY <3>2, <3>4, <4>1, <4>2, SeqEqual DEF Texts
    <3>6. Len(b) <= Len(rest)
      BY <2>1, <2>2, <3>2, <3>4
    <3>7. b \in S
      BY <1>1, <3>4, <3>6
    <3>8. whole \in S
      BY <3>1, <3>4, <3>5, <3>7
    <3> QED
      BY <3>8 DEF whole
  <2> QED
    BY <2>3, <2>4
<1> QED
  BY <1>1, TextInduction

\* What is made of a text is a text.
LEMMA RehydrateIsText ==
    ASSUME NEW known, Registry(known), NEW text \in Texts
    PROVE  Rehydrate(known, text) \in Texts
<1> DEFINE S == {t \in Texts : Rehydrate(known, t) \in Texts}
<1>1. <<>> \in S
  <2>1. <<>> \in Texts
    BY EmptySeq DEF Texts
  <2> QED
    BY <2>1, RehydrateEmpty
<1>2. ASSUME NEW s \in DOMAIN known, NEW t \in Texts, t \in S, Leads(known, s, s \o t)
      PROVE  s \o t \in S
  <2>1. s \in Texts /\ known[s] \in Texts
    BY DEF Registry
  <2>2. s \o t \in Texts /\ known[s] \o Rehydrate(known, t) \in Texts
    BY <1>2, <2>1, Joined
  <2> QED
    BY <1>2, <2>2, RehydrateSurrogate
<1>3. ASSUME NEW x \in Chars, NEW t \in Texts, t \in S, Unmarked(known, <<x>> \o t)
      PROVE  <<x>> \o t \in S
  <2>1. <<x>> \in Texts
    BY DEF Texts
  <2>2. <<x>> \o t \in Texts /\ <<x>> \o Rehydrate(known, t) \in Texts
    BY <1>3, <2>1, Joined
  <2> QED
    BY <1>3, <2>2, RehydrateCharacter
<1>4. Texts \subseteq S
  <2> HIDE DEF S
  <2> QED
    BY <1>1, <1>2, <1>3, PassInduction
<1> QED
  BY <1>4

\* Where no surrogate begins, characters are left as they are.
LEMMA CopiedFront ==
    ASSUME NEW known, Registry(known), NEW front \in Texts, NEW text \in Texts,
           \A s \in DOMAIN known, i \in 1..Len(front) : ~At(s, front \o text, i)
    PROVE  Rehydrate(known, front \o text) = front \o Rehydrate(known, text)
<1> DEFINE Bare(e) == \A s \in DOMAIN known, i \in 1..Len(e) : ~At(s, e \o text, i)
           S == {e \in Texts : Bare(e) =>
                    Rehydrate(known, e \o text) = e \o Rehydrate(known, text)}
<1>0. Rehydrate(known, text) \in Texts
  BY RehydrateIsText
<1>1. <<>> \in S
  <2>1. <<>> \in Texts /\ <<>> \o text = text
        /\ <<>> \o Rehydrate(known, text) = Rehydrate(known, text)
    BY <1>0, ConcatEmptySeq, EmptySeq DEF Texts
  <2> QED
    BY <2>1
<1>2. ASSUME NEW x \in Chars, NEW e \in Texts, e \in S PROVE <<x>> \o e \in S
  <2>1. <<x>> \in Texts /\ Len(<<x>>) = 1 /\ Len(e) \in Nat
        /\ <<x>> \o e \in Texts /\ Len(<<x>> \o e) = 1 + Len(e) /\ e \o text \in Texts
    <3>1. <<x>> \in Texts /\ Len(<<x>>) = 1
      BY DEF Texts
    <3> QED
      BY <3>1, Joined
  <2>2. (<<x>> \o e) \o text = <<x>> \o (e \o text)
    BY <2>1, OneInFront, Zenon
  <2> SUFFICES ASSUME Bare(<<x>> \o e)
               PROVE  Rehydrate(known, (<<x>> \o e) \o text)
                         = (<<x>> \o e) \o Rehydrate(known, text)
    BY <2>1
  <2>3. Unmarked(known, <<x>> \o (e \o text))
    <3>1. 1 \in 1..Len(<<x>> \o e)
      BY <2>1
    <3> QED
      BY <2>2, <3>1 DEF Unmarked
  <2>4. Bare(e)
    <3> SUFFICES ASSUME NEW s \in DOMAIN known, NEW i \in 1..Len(e), At(s, e \o text, i)
                 PROVE  FALSE
      OBVIOUS
    <3>1. i \in Nat \ {0} /\ 1 + i \in 1..Len(<<x>> \o e) /\ s \in Texts
      BY <2>1 DEF Registry
    <3>2. At(s, <<x>> \o (e \o text), Len(<<x>>) + i)
      BY <2>1, <3>1, AtBehind
    <3> QED
      BY <2>1, <2>2, <3>1, <3>2
  <2>5. Rehydrate(known, e \o text) = e \o Rehydrate(known, text)
    BY <1>2, <2>4
  <2>6. Rehydrate(known, <<x>> \o (e \o text)) = <<x>> \o Rehydrate(known, e \o text)
    BY <2>1, <2>3, RehydrateCharacter
  <2>7. <<x>> \o (e \o Rehydrate(known, text)) = (<<x>> \o e) \o Rehydrate(known, text)
    BY <1>0, OneInFront, Zenon
  <2> QED
    BY <2>2, <2>5, <2>6, <2>7
<1>3. Texts \subseteq S
  <2> HIDE DEF S
  <2>1. \A e \in Texts : Len(e) <= Len(e)
    BY DEF Texts
  <2> QED
    BY <1>1, <1>2, <2>1, TextInduction
<1> QED
  BY <1>3

\* A text with no surrogate in it.
Free(known, text) == \A s \in DOMAIN known, i \in 1..Len(text) : ~At(s, text, i)

LEMMA FreeStays ==
    ASSUME NEW known, Registry(known), NEW text \in Texts, Free(known, text)
    PROVE  Rehydrate(known, text) = text
<1>1. <<>> \in Texts /\ text \o <<>> = text
  BY EmptySeq, ConcatEmptySeq DEF Texts
<1>2. \A s \in DOMAIN known, i \in 1..Len(text) : ~At(s, text \o <<>>, i)
  BY <1>1 DEF Free
<1>3. Rehydrate(known, text \o <<>>) = text \o Rehydrate(known, <<>>)
  BY <1>1, <1>2, CopiedFront
<1> QED
  BY <1>1, <1>3, RehydrateEmpty

-----------------------------------------------------------------------------
(* A text in two pieces *)

\* The pass works on both sides of a place that no surrogate crosses.
LEMMA Splits ==
    ASSUME NEW known, Registry(known), NEW front \in Texts, NEW text \in Texts,
           \A s \in DOMAIN known, i \in 1..Len(front) :
              At(s, front \o text, i) => i + Len(s) - 1 <= Len(front)
    PROVE  Rehydrate(known, front \o text)
              = Rehydrate(known, front) \o Rehydrate(known, text)
<1> DEFINE Uncrossed(u) == \A s \in DOMAIN known, i \in 1..Len(u) :
                              At(s, u \o text, i) => i + Len(s) - 1 <= Len(u)
           Same(u) == Rehydrate(known, u \o text)
                         = Rehydrate(known, u) \o Rehydrate(known, text)
           S == {u \in Texts : Uncrossed(u) => Same(u)}
<1>0. Rehydrate(known, text) \in Texts
  BY RehydrateIsText
<1>1. <<>> \in S
  <2>1. <<>> \in Texts /\ \A u \in Texts : <<>> \o u = u
    BY EmptySeq, ConcatEmptySeq DEF Texts
  <2>2. Same(<<>>)
    BY <1>0, <2>1, RehydrateEmpty
  <2> QED
    BY <2>1, <2>2
<1>2. ASSUME NEW p \in Texts, NEW t \in Texts, Len(p) \in Nat \ {0}, Uncrossed(p \o t)
      PROVE  Uncrossed(t)
  <2> SUFFICES ASSUME NEW s \in DOMAIN known, NEW i \in 1..Len(t), At(s, t \o text, i)
               PROVE  i + Len(s) - 1 <= Len(t)
    OBVIOUS
  <2>1. /\ Len(t) \in Nat /\ Len(p \o t) = Len(p) + Len(t)
        /\ t \o text \in Texts /\ s \in Texts /\ Len(s) \in Nat
    BY Joined, RegistryFacts
  <2>2. (p \o t) \o text = p \o (t \o text)
    BY TextsReassociate, ZenonT(30)
  <2>3. i \in Nat \ {0} /\ Len(p) + i \in 1..Len(p \o t)
    BY <1>2, <2>1
  <2>4. At(s, (p \o t) \o text, Len(p) + i)
    BY <2>1, <2>2, <2>3, AtBehind
  <2>5. (Len(p) + i) + Len(s) - 1 <= Len(p \o t)
    BY <1>2, <2>3, <2>4
  <2> QED
    BY <1>2, <2>1, <2>3, <2>5
<1>3. ASSUME NEW s \in DOMAIN known, NEW t \in Texts, t \in S, Leads(known, s, s \o t)
      PROVE  s \o t \in S
  <2> DEFINE u == s \o t
  <2>1. s \in Texts /\ known[s] \in Texts /\ Len(s) \in Nat \ {0}
    BY RegistryFacts
  <2>2. /\ u \in Texts /\ t \o text \in Texts /\ Rehydrate(known, t) \in Texts
        /\ Len(u) = Len(s) + Len(t) /\ Len(t) \in Nat
    BY <2>1, Joined, RehydrateIsText
  <2> SUFFICES ASSUME Uncrossed(u) PROVE Same(u)
    BY <2>2
  <2>3. u \o text = s \o (t \o text)
    BY <2>1, TextsReassociate, ZenonT(30)
  <2>4. Same(t)
    BY <1>2, <1>3, <2>1
  <2>5. Leads(known, s, s \o (t \o text))
    <3>1. At(s, u, 1) /\ \A r \in DOMAIN known : At(r, u, 1) => Len(r) <= Len(s)
      BY <1>3 DEF Leads
    <3>2. ASSUME NEW r \in DOMAIN known
          PROVE  At(r, u, 1) <=> At(r, u \o text, 1)
      <4>1. r \in Texts /\ 1 \in Nat \ {0} /\ 1 \in 1..Len(u)
        BY <2>1, <2>2, RegistryFacts
      <4>2. At(r, u \o text, 1) => 1 + Len(r) - 1 <= Len(u)
        BY <4>1
      <4> HIDE DEF u
      <4> QED
        BY <2>2, <4>1, <4>2, AtFront
    <3> HIDE DEF u
    <3> QED
      BY <2>3, <3>1, <3>2 DEF Leads
  <2>6. Rehydrate(known, s \o (t \o text)) = known[s] \o Rehydrate(known, t \o text)
    BY <2>2, <2>5, RehydrateSurrogate
  <2>7. Rehydrate(known, u) = known[s] \o Rehydrate(known, t)
    BY <1>3, RehydrateSurrogate
  <2>8. known[s] \o (Rehydrate(known, t) \o Rehydrate(known, text))
           = (known[s] \o Rehydrate(known, t)) \o Rehydrate(known, text)
    <3> DEFINE v == known[s]
               w == Rehydrate(known, t)
               z == Rehydrate(known, text)
    <3>1. v \in Texts /\ w \in Texts /\ z \in Texts
      BY <1>0, <2>1, <2>2
    <3> HIDE DEF v, w, z
    <3>2. (v \o w) \o z = v \o (w \o z)
      BY <3>1, TextsReassociate, ZenonT(30)
    <3> QED
      BY <3>2 DEF v, w, z
  <2> QED
    BY <2>3, <2>4, <2>6, <2>7, <2>8
<1>4. ASSUME NEW x \in Chars, NEW t \in Texts, t \in S, Unmarked(known, <<x>> \o t)
      PROVE  <<x>> \o t \in S
  <2> DEFINE u == <<x>> \o t
  <2>1. <<x>> \in Texts /\ Len(<<x>>) = 1
    BY DEF Texts
  <2>2. /\ u \in Texts /\ t \o text \in Texts /\ Rehydrate(known, t) \in Texts
        /\ Len(u) = 1 + Len(t) /\ Len(t) \in Nat
    BY <2>1, Joined, RehydrateIsText
  <2> SUFFICES ASSUME Uncrossed(u) PROVE Same(u)
    BY <2>2
  <2>3. u \o text = <<x>> \o (t \o text)
    BY OneInFront, ZenonT(30)
  <2>4. Same(t)
    <3> DEFINE p == <<x>>
    <3>1. p \in Texts /\ Len(p) \in Nat \ {0} /\ Uncrossed(p \o t)
      BY <2>1
    <3> HIDE DEF p, Uncrossed, Same
    <3>2. Uncrossed(t)
      BY <1>2, <3>1
    <3> QED
      BY <1>4, <3>2
  <2>5. Unmarked(known, <<x>> \o (t \o text))
    <3>1. \A r \in DOMAIN known : ~At(r, u, 1)
      BY <1>4 DEF Unmarked
    <3>2. ASSUME NEW r \in DOMAIN known
          PROVE  At(r, u, 1) <=> At(r, u \o text, 1)
      <4>1. r \in Texts /\ 1 \in Nat \ {0} /\ 1 \in 1..Len(u)
        BY <2>2, RegistryFacts
      <4>2. At(r, u \o text, 1) => 1 + Len(r) - 1 <= Len(u)
        BY <4>1
      <4> HIDE DEF u
      <4> QED
        BY <2>2, <4>1, <4>2, AtFront
    <3> HIDE DEF u
    <3> QED
      BY <2>3, <3>1, <3>2 DEF Unmarked
  <2>6. Rehydrate(known, <<x>> \o (t \o text)) = <<x>> \o Rehydrate(known, t \o text)
    BY <2>2, <2>5, RehydrateCharacter
  <2>7. Rehydrate(known, u) = <<x>> \o Rehydrate(known, t)
    BY <1>4, RehydrateCharacter
  <2>8. <<x>> \o (Rehydrate(known, t) \o Rehydrate(known, text))
           = (<<x>> \o Rehydrate(known, t)) \o Rehydrate(known, text)
    BY <1>0, <2>2, OneInFront, ZenonT(30)
  <2> QED
    BY <2>3, <2>4, <2>6, <2>7, <2>8
<1>5. Texts \subseteq S
  <2> HIDE DEF S
  <2> QED
    BY <1>1, <1>3, <1>4, PassInduction
<1> QED
  BY <1>5

\* What no surrogate is in, behind a place that none crosses, is left as it is.
LEMMA PlainBehind ==
    ASSUME NEW known, Registry(known), NEW front \in Texts, NEW text \in Texts,
           \A s \in DOMAIN known, i \in Nat \ {0} :
              At(s, front \o text, i) => i + Len(s) - 1 <= Len(front)
    PROVE  Rehydrate(known, front \o text) = Rehydrate(known, front) \o text
<1>1. Rehydrate(known, front \o text) = Rehydrate(known, front) \o Rehydrate(known, text)
  <2>1. \A i \in 1..Len(front) : i \in Nat \ {0}
    OBVIOUS
  <2> QED
    BY <2>1, Splits
<1>2. Free(known, text)
  <2> SUFFICES ASSUME NEW s \in DOMAIN known, NEW i \in 1..Len(text), At(s, text, i)
               PROVE  FALSE
    BY DEF Free
  <2>1. Len(front) \in Nat /\ i \in Nat \ {0} /\ s \in Texts /\ Len(s) \in Nat \ {0}
    BY RegistryFacts DEF Texts
  <2>2. At(s, front \o text, Len(front) + i)
    BY <2>1, AtBehind
  <2>3. Len(front) + i \in Nat \ {0}
    BY <2>1
  <2>4. (Len(front) + i) + Len(s) - 1 <= Len(front)
    BY <2>2, <2>3
  <2> QED
    BY <2>1, <2>4
<1> QED
  BY <1>1, <1>2, FreeStays

-----------------------------------------------------------------------------
(* Texts in which the surrogates stand apart *)

\* Standing, character by character.
StandApart(known, text) ==
    \A r, s \in DOMAIN known, i, j \in Nat \ {0} :
        At(r, text, i) /\ At(s, text, j) /\ i <= j => (i = j /\ r = s) \/ i + Len(r) <= j

StayRestored(known, text) ==
    \A front, back \in Texts, r \in DOMAIN known, i \in Nat \ {0} :
        /\ text = front \o back
        /\ At(r, text, i) /\ Len(front) = i + Len(r) - 1
        => \A s \in DOMAIN known, k \in 1..Len(Rehydrate(known, front)) :
              ~At(s, Rehydrate(known, front) \o back, k)

Stands(known, text) == StandApart(known, text) /\ StayRestored(known, text)

\* Two ways of cutting a text at one place are one.
LEMMA SameCut ==
    ASSUME NEW a \in Texts, NEW b \in Texts, NEW c \in Texts, NEW d \in Texts,
           a \o b = c \o d, Len(a) = Len(c)
    PROVE  a = c /\ b = d
<1>1. /\ Len(a) \in Nat /\ Len(b) \in Nat /\ Len(d) \in Nat
      /\ Len(a) + Len(b) = Len(c) + Len(d)
      /\ \A k \in 1..Len(a) : (a \o b)[k] = a[k]
      /\ \A k \in 1..Len(c) : (c \o d)[k] = c[k]
      /\ \A k \in 1..Len(b) : (a \o b)[Len(a) + k] = b[k]
      /\ \A k \in 1..Len(d) : (c \o d)[Len(c) + k] = d[k]
  <2>1. /\ Len(a) \in Nat /\ Len(b) \in Nat /\ Len(a \o b) = Len(a) + Len(b)
        /\ \A k \in 1..Len(a) : (a \o b)[k] = a[k]
        /\ \A k \in 1..Len(b) : (a \o b)[Len(a) + k] = b[k]
    BY Joined
  <2>2. /\ Len(c) \in Nat /\ Len(d) \in Nat /\ Len(c \o d) = Len(c) + Len(d)
        /\ \A k \in 1..Len(c) : (c \o d)[k] = c[k]
        /\ \A k \in 1..Len(d) : (c \o d)[Len(c) + k] = d[k]
    BY Joined
  <2> QED
    BY <2>1, <2>2
<1>2. Len(b) = Len(d)
  BY <1>1
<1>3. a = c
  <2>1. \A k \in 1..Len(a) : a[k] = c[k]
    BY <1>1
  <2> QED
    BY <2>1, SeqEqual DEF Texts
<1>4. b = d
  <2>1. \A k \in 1..Len(b) : b[k] = d[k]
    BY <1>1, <1>2
  <2> QED
    BY <1>2, <2>1, SeqEqual DEF Texts
<1> QED
  BY <1>3, <1>4

LEMMA FoundIsAt ==
    ASSUME NEW known, Registry(known), NEW text \in Texts, NEW s \in DOMAIN known,
           NEW i \in Nat \ {0}, At(s, text, i)
    PROVE  <<i, s>> \in Occurrences(known, text)
<1>1. s \in Texts /\ Len(s) \in Nat \ {0} /\ Len(text) \in Nat
  BY RegistryFacts DEF Texts
<1>2. i \in 1..Len(text)
  BY <1>1 DEF At
<1>3. s \in MatchesAt(known, text, i)
  BY MatchIsAt DEF Registry
<1> QED
  BY <1>2, <1>3 DEF Occurrences

LEMMA StandingStands ==
    ASSUME NEW known, Registry(known), NEW text \in Texts, Standing(known, text)
    PROVE  Stands(known, text)
<1> DEFINE found == Occurrences(known, text)
           End(m) == m[1] + Len(m[2])
           Restored(m) == Rehydrate(known, SubSeq(text, 1, End(m) - 1))
<1>1. \A m, n \in found : m = n \/ End(m) <= n[1] \/ End(n) <= m[1]
  BY DEF Standing
<1>2. \A m \in found : \A k \in 1..Len(Restored(m)) :
         MatchesAt(known, Restored(m) \o SubSeq(text, End(m), Len(text)), k) = {}
  BY DEF Standing
<1> HIDE DEF found
<1>3. StandApart(known, text)
  <2> SUFFICES ASSUME NEW r \in DOMAIN known, NEW s \in DOMAIN known,
                      NEW i \in Nat \ {0}, NEW j \in Nat \ {0},
                      At(r, text, i), At(s, text, j), i <= j
               PROVE  (i = j /\ r = s) \/ i + Len(r) <= j
    BY DEF StandApart
  <2>1. <<i, r>> \in found /\ <<j, s>> \in found
    BY FoundIsAt DEF found
  <2>2. Len(r) \in Nat \ {0} /\ Len(s) \in Nat \ {0}
    BY RegistryFacts
  <2>3. \/ <<i, r>> = <<j, s>>
        \/ End(<<i, r>>) <= <<j, s>>[1] \/ End(<<j, s>>) <= <<i, r>>[1]
    BY <1>1, <2>1
  <2>4. \/ <<i, r>> = <<j, s>>
        \/ i + Len(r) <= j \/ j + Len(s) <= i
    BY <2>3
  <2> QED
    BY <2>2, <2>4
<1>4. StayRestored(known, text)
  <2> SUFFICES ASSUME NEW front \in Texts, NEW back \in Texts,
                      NEW r \in DOMAIN known, NEW i \in Nat \ {0},
                      text = front \o back, At(r, text, i), Len(front) = i + Len(r) - 1,
                      NEW s \in DOMAIN known,
                      NEW k \in 1..Len(Rehydrate(known, front)),
                      At(s, Rehydrate(known, front) \o back, k)
               PROVE  FALSE
    BY DEF StayRestored
  <2>1. /\ Len(front) \in Nat /\ Len(back) \in Nat /\ Len(r) \in Nat \ {0}
        /\ Len(text) = Len(front) + Len(back) /\ i + Len(r) = Len(front) + 1
    <3>1. /\ Len(front) \in Nat /\ Len(back) \in Nat
          /\ Len(text) = Len(front) + Len(back)
      BY Joined
    <3>2. Len(r) \in Nat \ {0}
      BY RegistryFacts
    <3>3. i + Len(r) = Len(front) + 1
      BY <3>1, <3>2
    <3> QED
      BY <3>1, <3>2, <3>3
  <2>2. PICK p, q \in Texts : /\ text = p \o q
                              /\ Len(p) = Len(front) /\ Len(q) = Len(text) - Len(front)
                              /\ p = SubSeq(text, 1, Len(front))
                              /\ q = SubSeq(text, Len(front) + 1, Len(text))
    <3>1. Len(front) \in 0..Len(text)
      BY <2>1
    <3> QED
      BY <3>1, Cut
  <2>3. p = front /\ q = back
    <3>1. p \o q = front \o back /\ Len(p) = Len(front)
      BY <2>2
    <3> QED
      BY <3>1, SameCut, ZenonT(30)
  <2>4. <<i, r>> \in found
    BY FoundIsAt DEF found
  <2>5. \A n \in 1..Len(Rehydrate(known, SubSeq(text, 1, (i + Len(r)) - 1))) :
           MatchesAt(known, Rehydrate(known, SubSeq(text, 1, (i + Len(r)) - 1))
                               \o SubSeq(text, i + Len(r), Len(text)), n) = {}
    BY <1>2, <2>4
  <2>6. (i + Len(r)) - 1 = Len(front)
    BY <2>1
  <2>7. MatchesAt(known, Rehydrate(known, front) \o back, k) = {}
    BY <2>1, <2>2, <2>3, <2>5, <2>6
  <2>8. Rehydrate(known, front) \o back \in Texts /\ k \in Nat \ {0}
    BY RehydrateIsText, Joined
  <2>9. s \in MatchesAt(known, Rehydrate(known, front) \o back, k)
    BY <2>8, MatchIsAt DEF Registry
  <2> QED
    BY <2>7, <2>9
<1> QED
  BY <1>3, <1>4 DEF Stands

\* What stands in the beginning of a text stands in the text, and conversely.
LEMMA StandsFront ==
    ASSUME NEW known, Registry(known), NEW text \in Texts, NEW rest \in Texts,
           Stands(known, text \o rest)
    PROVE  Stands(known, text)
<1>1. ASSUME NEW s \in DOMAIN known, NEW i \in Nat \ {0}, At(s, text, i)
      PROVE  At(s, text \o rest, i)
  BY <1>1, AtFront, RegistryFacts
<1>2. StandApart(known, text)
  <2>1. StandApart(known, text \o rest)
    BY DEF Stands
  <2> QED
    BY <1>1, <2>1 DEF StandApart
<1>3. StayRestored(known, text)
  <2> SUFFICES ASSUME NEW front \in Texts, NEW back \in Texts,
                      NEW r \in DOMAIN known, NEW i \in Nat \ {0},
                      text = front \o back, At(r, text, i), Len(front) = i + Len(r) - 1,
                      NEW s \in DOMAIN known,
                      NEW k \in 1..Len(Rehydrate(known, front)),
                      At(s, Rehydrate(known, front) \o back, k)
               PROVE  FALSE
    BY DEF StayRestored
  <2> DEFINE restored == Rehydrate(known, front)
  <2>1. restored \in Texts
    BY RehydrateIsText
  <2>2. text \o rest = front \o (back \o rest) /\ back \o rest \in Texts
    BY Joined, TextsReassociate, ZenonT(30)
  <2>3. ~At(s, restored \o (back \o rest), k)
    <3>1. StayRestored(known, text \o rest)
      BY DEF Stands
    <3> QED
      BY <1>1, <2>2, <3>1 DEF StayRestored
  <2>4. k \in Nat \ {0} /\ At(s, restored \o back, k)
    OBVIOUS
  <2> HIDE DEF restored
  <2>5. restored \o (back \o rest) = (restored \o back) \o rest
    BY <2>1, TextsReassociate, ZenonT(30)
  <2>6. restored \o back \in Texts /\ s \in Texts
    BY <2>1, Joined, RegistryFacts
  <2>7. At(s, (restored \o back) \o rest, k)
    BY <2>4, <2>6, AtFront
  <2> QED
    BY <2>3, <2>5, <2>7
<1> QED
  BY <1>2, <1>3 DEF Stands

\* front is what the text has up to the end of its last surrogate that is over, tail
\* what it has behind.
LastEnd(known, front, tail, rest) ==
    /\ \A s \in DOMAIN known, i \in Nat \ {0} : At(s, front \o (tail \o rest), i) =>
          /\ i + Len(s) - 1 <= Len(front) \/ i > Len(front)
          /\ i + Len(s) - 1 <= Len(front) \/ i + Len(s) - 1 > Len(front) + Len(tail)
    /\ \A s \in DOMAIN known, i \in 1..Len(Rehydrate(known, front)) :
          ~At(s, Rehydrate(known, front) \o (tail \o rest), i)

LEMMA LastEndIs ==
    ASSUME NEW known, Registry(known), NEW text \in Texts, NEW rest \in Texts,
           Stands(known, text \o rest)
    PROVE  \E front, tail \in Texts :
              text = front \o tail /\ LastEnd(known, front, tail, rest)
<1> DEFINE Ends == {n \in 1..Len(text) : \E s \in DOMAIN known, i \in Nat \ {0} :
                       At(s, text, i) /\ n = i + Len(s) - 1}
<1>1. ASSUME NEW s \in DOMAIN known, NEW i \in Nat \ {0}, At(s, text \o rest, i),
             i + Len(s) - 1 <= Len(text)
      PROVE  i + Len(s) - 1 \in Ends
  <2>1. s \in Texts /\ Len(s) \in Nat \ {0} /\ Len(text) \in Nat
    BY RegistryFacts DEF Texts
  <2>2. At(s, text, i)
    BY <1>1, <2>1, AtFront
  <2>3. i + Len(s) - 1 \in 1..Len(text)
    BY <1>1, <2>1
  <2> QED
    BY <2>2, <2>3
<1>2. CASE Ends = {}
  <2>1. <<>> \in Texts /\ text = <<>> \o text /\ <<>> \o (text \o rest) = text \o rest
        /\ Len(<<>>) = 0 /\ Len(text) \in Nat
    BY EmptySeq, ConcatEmptySeq, Joined DEF Texts
  <2>2. Rehydrate(known, <<>>) = <<>>
    BY RehydrateEmpty
  <2>3. ASSUME NEW s \in DOMAIN known, NEW i \in Nat \ {0}, At(s, text \o rest, i)
        PROVE  i > 0 /\ i + Len(s) - 1 > Len(text)
    <3>1. Len(s) \in Nat
      BY RegistryFacts
    <3>2. ~(i + Len(s) - 1 <= Len(text))
      BY <1>1, <1>2, <2>3
    <3> QED
      BY <2>1, <3>1, <3>2
  <2>4. LastEnd(known, <<>>, text, rest)
    <3> HIDE DEF Ends
    <3>1. \A s \in DOMAIN known, i \in Nat \ {0} : At(s, <<>> \o (text \o rest), i) =>
             i > Len(<<>>) /\ i + Len(s) - 1 > Len(<<>>) + Len(text)
      BY <2>1, <2>3
    <3>2. \A i \in 1..Len(Rehydrate(known, <<>>)) : FALSE
      BY <2>1, <2>2
    <3> QED
      BY <3>1, <3>2 DEF LastEnd
  <2> QED
    BY <2>1, <2>4
<1>3. CASE Ends # {}
  <2>1. Len(text) \in Nat
    BY DEF Texts
  <2>2. Max(Ends) \in Ends /\ \A n \in Ends : n <= Max(Ends)
    <3>1. Ends \in SUBSET (1..Len(text))
      OBVIOUS
    <3> HIDE DEF Ends
    <3> QED
      BY <1>3, <2>1, <3>1, LastPlace
  <2>3. PICK r \in DOMAIN known, j \in Nat \ {0} :
           At(r, text, j) /\ Max(Ends) = j + Len(r) - 1
    BY <2>2
  <2>4. Max(Ends) \in 1..Len(text)
    BY <2>2
  <2> DEFINE last == Max(Ends)
  <2>5. \A n \in Ends : n <= last
    BY <2>2
  <2> HIDE DEF Ends
  <2>6. last \in 1..Len(text) /\ last = j + Len(r) - 1 /\ Len(r) \in Nat \ {0}
    BY <2>3, <2>4, RegistryFacts
  <2> HIDE DEF last
  <2>7. PICK front, tail \in Texts : /\ text = front \o tail
                                     /\ Len(front) = last
                                     /\ Len(tail) = Len(text) - last
    <3>1. last \in 0..Len(text)
      BY <2>6
    <3> QED
      BY <3>1, Cut
  <2>8. front \o (tail \o rest) = text \o rest /\ tail \o rest \in Texts
    BY <2>7, Joined, TextsReassociate, ZenonT(30)
  <2>9. At(r, text \o rest, j)
    BY <2>3, AtFront, RegistryFacts
  <2>10. ASSUME NEW s \in DOMAIN known, NEW i \in Nat \ {0},
                At(s, front \o (tail \o rest), i)
         PROVE  /\ i + Len(s) - 1 <= Len(front) \/ i > Len(front)
                /\ i + Len(s) - 1 <= Len(front)
                      \/ i + Len(s) - 1 > Len(front) + Len(tail)
    <3>1. Len(s) \in Nat \ {0} /\ At(s, text \o rest, i)
      BY <2>8, <2>10, RegistryFacts
    <3>2. i + Len(s) - 1 <= Len(text) => i + Len(s) - 1 <= last
      BY <1>1, <2>5, <3>1
    <3>3. CASE i <= j
      <4>1. (i = j /\ s = r) \/ i + Len(s) <= j
        BY <2>9, <3>1, <3>3 DEF Stands, StandApart
      <4> QED
        BY <2>6, <2>7, <3>1, <4>1
    <3>4. CASE ~(i <= j)
      <4>1. (j = i /\ r = s) \/ j + Len(r) <= i
        <5>1. j <= i
          BY <3>4
        <5> QED
          BY <2>9, <3>1, <5>1 DEF Stands, StandApart
      <4> QED
        BY <2>1, <2>6, <2>7, <3>1, <3>2, <3>4, <4>1
    <3> QED
      BY <3>3, <3>4
  <2>11. \A s \in DOMAIN known, i \in 1..Len(Rehydrate(known, front)) :
            ~At(s, Rehydrate(known, front) \o (tail \o rest), i)
    <3>1. Len(front) = j + Len(r) - 1
      BY <2>6, <2>7
    <3>2. StayRestored(known, text \o rest)
      BY DEF Stands
    <3> QED
      BY <2>8, <2>9, <3>1, <3>2 DEF StayRestored
  <2> QED
    BY <2>7, <2>10, <2>11 DEF LastEnd
<1> QED
  BY <1>2, <1>3

\* Behind the last end, the pass leaves everything as it is.
LEMMA BehindLastEnd ==
    ASSUME NEW known, Registry(known), NEW front \in Texts, NEW rest \in Texts,
           NEW m \in Texts, NEW n \in Texts, LastEnd(known, front, m \o n, rest)
    PROVE  Rehydrate(known, front \o m) = Rehydrate(known, front) \o m
<1>1. ASSUME NEW s \in DOMAIN known, NEW i \in Nat \ {0}, At(s, front \o m, i)
      PROVE  i + Len(s) - 1 <= Len(front)
  <2>1. /\ s \in Texts /\ Len(s) \in Nat \ {0} /\ front \o m \in Texts
        /\ n \o rest \in Texts
        /\ Len(front \o m) = Len(front) + Len(m) /\ Len(m \o n) = Len(m) + Len(n)
        /\ Len(front) \in Nat /\ Len(m) \in Nat /\ Len(n) \in Nat
    BY RegistryFacts, Joined
  <2>2. front \o ((m \o n) \o rest) = (front \o m) \o (n \o rest)
    <3>1. (m \o n) \o rest = m \o (n \o rest)
      BY TextsReassociate, ZenonT(30)
    <3>2. front \o (m \o (n \o rest)) = (front \o m) \o (n \o rest)
      <4> DEFINE z == n \o rest
      <4>1. z \in Texts
        BY <2>1
      <4> HIDE DEF z
      <4>2. (front \o m) \o z = front \o (m \o z)
        BY <4>1, TextsReassociate, ZenonT(30)
      <4> QED
        BY <4>2 DEF z
    <3> QED
      BY <3>1, <3>2
  <2>3. At(s, (front \o m) \o (n \o rest), i) /\ i + Len(s) - 1 <= Len(front \o m)
    BY <1>1, <2>1, AtFront
  <2>4. i + Len(s) - 1 <= Len(front) \/ i + Len(s) - 1 > Len(front) + Len(m \o n)
    BY <2>2, <2>3 DEF LastEnd
  <2> QED
    BY <2>1, <2>3, <2>4
<1> QED
  BY <1>1, PlainBehind

LEMMA AllBehind ==
    ASSUME NEW known, Registry(known), NEW front \in Texts, NEW tail \in Texts,
           NEW rest \in Texts, LastEnd(known, front, tail, rest)
    PROVE  Rehydrate(known, front \o tail) = Rehydrate(known, front) \o tail
<1> DEFINE none == <<>>
<1>1. none \in Texts /\ tail \o none = tail
  BY EmptySeq, ConcatEmptySeq DEF Texts
<1> HIDE DEF none
<1>2. LastEnd(known, front, tail \o none, rest)
  BY <1>1
<1> QED
  BY <1>1, <1>2, BehindLastEnd, ZenonT(30)

\* Running the pass over the beginning of a text beforehand makes no difference.
LEMMA Resumed ==
    ASSUME NEW known, Registry(known), NEW text \in Texts, NEW rest \in Texts,
           Stands(known, text \o rest)
    PROVE  Rehydrate(known, Rehydrate(known, text) \o rest)
              = Rehydrate(known, text \o rest)
<1>1. PICK front, tail \in Texts :
         text = front \o tail /\ LastEnd(known, front, tail, rest)
  BY LastEndIs
<1> DEFINE restored == Rehydrate(known, front)
           more == tail \o rest
<1>2. restored \in Texts /\ more \in Texts
  BY RehydrateIsText, Joined
<1>3. Rehydrate(known, text) = restored \o tail
  <2>1. Rehydrate(known, front \o tail) = Rehydrate(known, front) \o tail
    BY <1>1, AllBehind
  <2> QED
    BY <1>1, <2>1
<1>4. (restored \o tail) \o rest = restored \o more
  <2> HIDE DEF restored
  <2> QED
    BY <1>2, TextsReassociate, ZenonT(30)
<1>5. Rehydrate(known, restored \o more) = restored \o Rehydrate(known, more)
  <2>1. \A s \in DOMAIN known, i \in 1..Len(restored) : ~At(s, restored \o more, i)
    BY <1>1 DEF LastEnd
  <2> HIDE DEF restored, more
  <2> QED
    BY <1>2, <2>1, CopiedFront
<1>6. text \o rest = front \o more
  BY <1>1, TextsReassociate, ZenonT(30)
<1>7. Rehydrate(known, front \o more) = restored \o Rehydrate(known, more)
  <2>1. ASSUME NEW s \in DOMAIN known, NEW i \in 1..Len(front), At(s, front \o more, i)
        PROVE  i + Len(s) - 1 <= Len(front)
    <3>1. i \in Nat \ {0} /\ ~(i > Len(front))
      BY Joined
    <3> QED
      BY <1>1, <2>1, <3>1 DEF LastEnd
  <2> HIDE DEF more
  <2> QED
    BY <1>2, <2>1, Splits
<1> QED
  BY <1>3, <1>4, <1>5, <1>6, <1>7

\* rehydrate (rehydrate.py) may be run over a text piece by piece, if the surrogates
\* stand apart in it: over the first piece, and then over what that has become and the
\* second.
THEOREM PieceByPiece ==
    ASSUME NEW known, Registry(known), NEW text \in Texts, NEW rest \in Texts,
           Standing(known, text \o rest)
    PROVE  Rehydrate(known, Rehydrate(known, text) \o rest)
              = Rehydrate(known, text \o rest)
<1>1. text \o rest \in Texts
  BY Joined
<1>2. Stands(known, text \o rest)
  BY <1>1, StandingStands
<1> QED
  BY <1>2, Resumed

\* No surrogate is left in what is made of such a text.
LEMMA NoneLeft ==
    ASSUME NEW known, Registry(known), NEW text \in Texts, Stands(known, text)
    PROVE  Free(known, Rehydrate(known, text))
<1>0. <<>> \in Texts /\ text \o <<>> = text /\ \A u \in Texts : u \o <<>> = u
  BY EmptySeq, ConcatEmptySeq DEF Texts
<1>1. PICK front, tail \in Texts :
         text = front \o tail /\ LastEnd(known, front, tail, <<>>)
  BY <1>0, LastEndIs
<1> DEFINE restored == Rehydrate(known, front)
<1>2. restored \in Texts /\ Rehydrate(known, text) = restored \o tail
  <2>1. Rehydrate(known, front \o tail) = Rehydrate(known, front) \o tail
    BY <1>0, <1>1, AllBehind
  <2> QED
    BY <1>1, <2>1, RehydrateIsText
<1>3. \A s \in DOMAIN known, i \in 1..Len(restored) : ~At(s, restored \o tail, i)
  BY <1>0, <1>1 DEF LastEnd
<1> HIDE DEF restored
<1>4. ASSUME NEW s \in DOMAIN known, NEW i \in 1..Len(restored \o tail),
             At(s, restored \o tail, i)
      PROVE  FALSE
  <2>1. /\ Len(restored) \in Nat /\ Len(tail) \in Nat /\ Len(front) \in Nat
        /\ Len(restored \o tail) = Len(restored) + Len(tail)
        /\ s \in Texts /\ Len(s) \in Nat \ {0} /\ Len(text) = Len(front) + Len(tail)
    BY <1>1, <1>2, Joined, RegistryFacts
  <2> DEFINE j == i - Len(restored)
  <2>2. j \in Nat \ {0} /\ i = Len(restored) + j /\ Len(front) + j \in Nat \ {0}
    BY <1>3, <1>4, <2>1
  <2> HIDE DEF j
  <2>3. At(s, tail, j)
    BY <1>2, <1>4, <2>1, <2>2, AtBehind
  <2>4. At(s, front \o tail, Len(front) + j)
    BY <2>1, <2>2, <2>3, AtBehind
  <2>5. \/ (Len(front) + j) + Len(s) - 1 <= Len(front)
        \/ (Len(front) + j) + Len(s) - 1 > Len(front) + Len(tail)
    BY <1>0, <1>1, <2>2, <2>4 DEF LastEnd
  <2>6. j + Len(s) - 1 <= Len(tail)
    BY <2>3 DEF At
  <2> QED
    BY <2>1, <2>2, <2>5, <2>6
<1> QED
  BY <1>2, <1>4 DEF Free

-----------------------------------------------------------------------------
(* The window: the steps that the stream takes too, and by itself *)

\* What is let go and what is kept are the whole text, and all of it is kept or as much
\* as the lookahead asks for.
LEMMA ExcessAndKept ==
    ASSUME NEW text \in Texts
    PROVE  /\ Excess(text) \in Texts /\ Kept(text) \in Texts
           /\ text = Excess(text) \o Kept(text)
           /\ Excess(text) = <<>> \/ Len(Kept(text)) = Lookahead
<1>1. Len(text) \in Nat /\ Lookahead \in Nat
  BY WindowAssumptions DEF Texts
<1>2. CASE Len(text) <= Lookahead
  <2>1. <<>> \in Texts /\ <<>> \o text = text
    BY EmptySeq, ConcatEmptySeq DEF Texts
  <2> QED
    BY <1>2, <2>1 DEF Excess, Kept
<1>3. CASE ~(Len(text) <= Lookahead)
  <2> DEFINE n == Len(text) - Lookahead
  <2>1. n \in 0..Len(text)
    BY <1>1, <1>3
  <2> HIDE DEF n
  <2>2. PICK p, q \in Texts : /\ text = p \o q
                              /\ Len(p) = n /\ Len(q) = Len(text) - n
                              /\ p = SubSeq(text, 1, n)
                              /\ q = SubSeq(text, n + 1, Len(text))
    BY <2>1, Cut, Zenon
  <2>3. Excess(text) = p /\ Kept(text) = q
    <3>1. /\ Excess(text) = SubSeq(text, 1, n)
          /\ Kept(text) = SubSeq(text, n + 1, Len(text))
      <4>1. /\ Excess(text) = SubSeq(text, 1, Len(text) - Lookahead)
            /\ Kept(text) = SubSeq(text, Len(text) - Lookahead + 1, Len(text))
        BY <1>3 DEF Excess, Kept
      <4> QED
        BY <4>1 DEF n
    <3> QED
      BY <2>2, <3>1
  <2>4. Len(q) = Lookahead
    <3>1. Len(q) = Len(text) - n
      BY <2>2
    <3> QED
      BY <1>1, <3>1 DEF n
  <2> QED
    BY <2>2, <2>3, <2>4
<1> QED
  BY <1>2, <1>3

LEMMA KnownFacts == Registry(Known) /\ \A s \in DOMAIN Known : Len(s) <= Lookahead
  BY WindowAssumptions DEF Registry, Texts

LEMMA TransformIsText == \A text \in Texts : Transform(text) \in Texts
  BY KnownFacts, RehydrateIsText DEF Transform

LEMMA TransformOfNothing == Transform(<<>>) = <<>>
  BY KnownFacts, RehydrateEmpty DEF Transform

\* Of a text what is gone and what is kept are together what the pass makes of it, and
\* what is gone ends where a surrogate that the rest will complete begins, or before.
Settled(gone, kept, text, rest) ==
    /\ gone \o kept = Transform(text)
    /\ \A front, back \in Texts, s \in DOMAIN Known :
          /\ front \o back = text \o rest /\ At(s, back, 1)
          /\ Len(front) <= Len(text) /\ Len(text) < Len(front) + Len(s)
          => Len(gone) <= Len(Transform(front))

\* Then none begins in what is gone.
LEMMA GoneForGood ==
    ASSUME NEW gone \in Texts, NEW kept \in Texts, NEW text \in Texts, NEW rest \in Texts,
           Stands(Known, text \o rest), Settled(gone, kept, text, rest)
    PROVE  \A s \in DOMAIN Known, i \in 1..Len(gone) : ~At(s, Transform(text) \o rest, i)
<1>1. PICK front, tail \in Texts :
         text = front \o tail /\ LastEnd(Known, front, tail, rest)
  BY KnownFacts, LastEndIs
<1> DEFINE restored == Transform(front)
           more == tail \o rest
<1>2. restored \in Texts /\ more \in Texts
  BY TransformIsText, Joined
<1>3. Transform(text) = restored \o tail
  BY <1>1, KnownFacts, AllBehind DEF Transform
<1>4. (restored \o tail) \o rest = restored \o more
  <2> HIDE DEF restored
  <2> QED
    BY <1>2, TextsReassociate, SMTT(30)
<1>5. text \o rest = front \o more
  BY <1>1, TextsReassociate, SMTT(30)
<1>6. \A s \in DOMAIN Known, k \in 1..Len(restored) : ~At(s, restored \o more, k)
  BY <1>1 DEF LastEnd, Transform
<1>7. /\ Len(gone) + Len(kept) = Len(restored) + Len(tail)
      /\ Len(gone) \in Nat /\ Len(kept) \in Nat /\ Len(restored) \in Nat /\ Len(tail) \in Nat
      /\ Len(front) \in Nat /\ Len(text) = Len(front) + Len(tail)
  <2>1. Len(gone \o kept) = Len(gone) + Len(kept) /\ Len(gone) \in Nat /\ Len(kept) \in Nat
    BY Joined
  <2>2. /\ Len(restored \o tail) = Len(restored) + Len(tail)
        /\ Len(restored) \in Nat /\ Len(tail) \in Nat
    BY <1>2, Joined
  <2>3. Len(front) \in Nat /\ Len(text) = Len(front) + Len(tail)
    BY <1>1, Joined
  <2>4. gone \o kept = restored \o tail
    BY <1>3 DEF Settled
  <2> QED
    BY <2>1, <2>2, <2>3, <2>4
<1>regroup. /\ \A m, n \in Texts : (m \o n) \o rest = m \o (n \o rest)
            /\ \A n \in Texts : n \o rest \in Texts
            /\ \A m, z \in Texts : (front \o m) \o z = front \o (m \o z)
  <2>1. \A m, n \in Texts : (m \o n) \o rest = m \o (n \o rest)
    BY TextsReassociate, SMTT(30)
  <2>2. \A m, z \in Texts : (front \o m) \o z = front \o (m \o z)
    BY TextsReassociate, SMTT(30)
  <2>3. \A n \in Texts : n \o rest \in Texts
    BY Joined
  <2> QED
    BY <2>1, <2>2, <2>3
<1> HIDE DEF more
<1> SUFFICES ASSUME NEW s \in DOMAIN Known, NEW i \in 1..Len(gone),
                    At(s, Transform(text) \o rest, i)
             PROVE  FALSE
  OBVIOUS
<1>known. s \in Texts /\ Len(s) \in Nat \ {0}
  BY KnownFacts, RegistryFacts
<1>8. At(s, restored \o more, i)
  BY <1>3, <1>4
<1> HIDE DEF restored
<1> DEFINE j == i - Len(restored)
<1>9. j \in 1..Len(tail) /\ i = Len(restored) + j
  BY <1>6, <1>7, <1>8
<1> HIDE DEF j
<1>10. At(s, more, j)
  <2>1. j \in Nat \ {0}
    BY <1>9
  <2> QED
    BY <1>2, <1>known, <1>8, <1>9, <2>1, AtBehind
<1>11. PICK m, n \in Texts : tail = m \o n /\ Len(m) = j - 1
  <2> DEFINE before == j - 1
  <2>1. before \in 0..Len(tail)
    BY <1>7, <1>9
  <2> HIDE DEF before
  <2>2. \E m, n \in Texts : tail = m \o n /\ Len(m) = before
    BY <2>1, Cut, ZenonT(30)
  <2> QED
    BY <2>2 DEF before
<1>12. more = m \o (n \o rest) /\ n \o rest \in Texts
  <2>1. (m \o n) \o rest = m \o (n \o rest) /\ n \o rest \in Texts
    BY <1>regroup
  <2> QED
    BY <1>11, <2>1 DEF more
<1>13. At(s, n \o rest, 1)
  <2>1. j = Len(m) + 1
    BY <1>9, <1>11
  <2>2. At(s, m \o (n \o rest), Len(m) + 1)
    BY <1>10, <1>12, <2>1
  <2>3. 1 \in Nat \ {0}
    OBVIOUS
  <2> QED
    BY <1>12, <1>known, <2>2, <2>3, AtBehind
<1>14. Transform(front \o m) = restored \o m
  <2>1. LastEnd(Known, front, m \o n, rest)
    BY <1>1, <1>11
  <2>2. Rehydrate(Known, front \o m) = Rehydrate(Known, front) \o m
    BY <2>1, KnownFacts, BehindLastEnd
  <2> QED
    BY <2>2 DEF Transform, restored
<1>15. (front \o m) \o (n \o rest) = text \o rest /\ front \o m \in Texts
  <2>1. front \o m \in Texts
    BY Joined
  <2>2. front \o (m \o (n \o rest)) = (front \o m) \o (n \o rest)
    <3>1. n \o rest \in Texts
      BY <1>12
    <3> QED
      BY <1>regroup, <3>1, ZenonT(30)
  <2>3. text \o rest = front \o (m \o (n \o rest))
    BY <1>5, <1>12
  <2> QED
    BY <2>1, <2>2, <2>3
<1>16. Len(front \o m) = Len(front) + (j - 1) /\ Len(restored \o m) = Len(restored) + (j - 1)
  <2>1. Len(front \o m) = Len(front) + Len(m)
    BY Joined
  <2>2. Len(restored \o m) = Len(restored) + Len(m)
    BY <1>2, Joined
  <2> QED
    BY <1>11, <2>1, <2>2
<1>17. Len(text) < Len(front \o m) + Len(s)
  <2>1. At(s, front \o more, Len(front) + j) /\ Len(front) + j \in Nat \ {0}
    <3>1. j \in Nat \ {0} /\ Len(front) + j \in Nat \ {0}
      BY <1>7, <1>9
    <3> QED
      BY <1>2, <1>known, <1>10, <3>1, AtBehind
  <2>2. \/ (Len(front) + j) + Len(s) - 1 <= Len(front)
        \/ (Len(front) + j) + Len(s) - 1 > Len(front) + Len(tail)
    BY <1>1, <2>1 DEF LastEnd, more
  <2> QED
    BY <1>known, <1>7, <1>9, <1>16, <2>2
<1>18. Len(gone) <= Len(Transform(front \o m))
  <2>1. Len(front \o m) <= Len(text)
    BY <1>7, <1>9, <1>16
  <2> QED
    BY <1>12, <1>13, <1>15, <1>17, <2>1 DEF Settled
<1> QED
  BY <1>7, <1>9, <1>14, <1>16, <1>18

\* And what the pass makes of what is kept and of a piece of the rest, behind what is
\* gone, is what it makes of the whole.
LEMMA Continued ==
    ASSUME NEW gone \in Texts, NEW kept \in Texts, NEW text \in Texts,
           NEW piece \in Texts, NEW rest \in Texts,
           Stands(Known, text \o (piece \o rest)),
           Settled(gone, kept, text, piece \o rest)
    PROVE  gone \o Transform(kept \o piece) = Transform(text \o piece)
<1> DEFINE now == Transform(text)
           more == kept \o piece
<1>1. /\ now \in Texts /\ now = gone \o kept /\ more \in Texts /\ piece \o rest \in Texts
      /\ now \o piece \in Texts /\ text \o piece \in Texts
  BY TransformIsText, Joined DEF Settled
<1>2. ASSUME NEW s \in DOMAIN Known, NEW i \in 1..Len(gone) PROVE ~At(s, gone \o more, i)
  <2> HIDE DEF now
  <2>1. (gone \o kept) \o piece = gone \o more
    BY TextsReassociate, SMTT(30)
  <2>2. (now \o piece) \o rest = now \o (piece \o rest)
    <3>1. now \in Texts
      BY <1>1
    <3> QED
      BY <3>1, TextsReassociate, SMTT(30)
  <2>3. s \in Texts /\ i \in Nat \ {0}
    BY KnownFacts, RegistryFacts
  <2>4. At(s, now \o piece, i) => At(s, (now \o piece) \o rest, i)
    BY <1>1, <2>3, AtFront
  <2>5. ~At(s, now \o (piece \o rest), i)
    BY <1>1, GoneForGood DEF now
  <2> QED
    BY <1>1, <2>1, <2>2, <2>4, <2>5
<1>3. Rehydrate(Known, gone \o more) = gone \o Rehydrate(Known, more)
  <2> HIDE DEF more
  <2> QED
    BY <1>1, <1>2, KnownFacts, CopiedFront
<1>4. Stands(Known, text \o piece)
  <2>1. text \o (piece \o rest) = (text \o piece) \o rest
    BY TextsReassociate, SMTT(30)
  <2> QED
    BY <1>1, <2>1, KnownFacts, StandsFront
<1>5. Rehydrate(Known, Rehydrate(Known, text) \o piece) = Rehydrate(Known, text \o piece)
  BY <1>4, KnownFacts, Resumed
<1>6. gone \o more = now \o piece
  <2> HIDE DEF now
  <2>1. (gone \o kept) \o piece = gone \o more
    BY TextsReassociate, SMTT(30)
  <2> QED
    BY <1>1, <2>1
<1> QED
  BY <1>3, <1>5, <1>6 DEF Transform


\* A surrogate whose beginning is the end of a text is left to be completed.
LEMMA PendingPlain ==
    ASSUME NEW front \in Texts, NEW tail \in Texts, NEW rest \in Texts,
           NEW s \in DOMAIN Known, Stands(Known, front \o (tail \o rest)),
           At(s, tail \o rest, 1), Len(tail) < Len(s)
    PROVE  Transform(front \o tail) = Transform(front) \o tail
<1>1. /\ s \in Texts /\ Len(s) \in Nat \ {0} /\ tail \o rest \in Texts
      /\ front \o tail \in Texts /\ Len(front \o tail) = Len(front) + Len(tail)
      /\ Len(front) \in Nat /\ Len(tail) \in Nat
  BY KnownFacts, RegistryFacts, Joined
<1>2. At(s, front \o (tail \o rest), Len(front) + 1)
  <2>1. 1 \in Nat \ {0}
    OBVIOUS
  <2> QED
    BY <1>1, <2>1, AtBehind
<1>3. (front \o tail) \o rest = front \o (tail \o rest)
  BY TextsReassociate, SMTT(30)
<1>4. ASSUME NEW r \in DOMAIN Known, NEW i \in Nat \ {0}, At(r, front \o tail, i)
      PROVE  i + Len(r) - 1 <= Len(front)
  <2>1. r \in Texts /\ Len(r) \in Nat \ {0}
    BY KnownFacts, RegistryFacts
  <2>2. At(r, front \o (tail \o rest), i) /\ i + Len(r) - 1 <= Len(front) + Len(tail)
    BY <1>1, <1>3, <1>4, <2>1, AtFront
  <2> DEFINE j == Len(front) + 1
  <2>3. j \in Nat \ {0} /\ j = Len(front) + 1
    BY <1>1
  <2>4. At(s, front \o (tail \o rest), j)
    BY <1>2
  <2> HIDE DEF j
  <2>5. CASE i <= j
    <3>1. (i = j /\ r = s) \/ i + Len(r) <= j
      BY <2>2, <2>3, <2>4, <2>5 DEF Stands, StandApart
    <3> QED
      BY <1>1, <2>1, <2>2, <2>3, <3>1
  <2>6. CASE ~(i <= j)
    <3>1. j <= i
      BY <2>3, <2>6
    <3>2. (j = i /\ s = r) \/ j + Len(s) <= i
      BY <2>2, <2>3, <2>4, <3>1 DEF Stands, StandApart
    <3> QED
      BY <1>1, <2>1, <2>2, <2>3, <2>6, <3>2
  <2> QED
    BY <2>5, <2>6
<1>5. Rehydrate(Known, front \o tail) = Rehydrate(Known, front) \o tail
  BY <1>4, KnownFacts, PlainBehind
<1> QED
  BY <1>5 DEF Transform

\* A piece of the rest leaves the text settled: the pass over what was kept and the piece,
\* and the slice.
LEMMA SettledNext ==
    ASSUME NEW gone \in Texts, NEW kept \in Texts, NEW text \in Texts,
           NEW piece \in Texts, NEW rest \in Texts,
           Stands(Known, text \o (piece \o rest)),
           Settled(gone, kept, text, piece \o rest)
    PROVE  LET now == Transform(kept \o piece) IN
           Settled(gone \o Excess(now), Kept(now), text \o piece, rest)
<1>upTo. \A c, z \in Texts :
            /\ Stands(Known, text \o (c \o z))
            /\ Settled(gone, kept, text, c \o z)
            => gone \o Transform(kept \o c) = Transform(text \o c)
  <2> SUFFICES ASSUME NEW c \in Texts, NEW z \in Texts,
                      Stands(Known, text \o (c \o z)),
                      Settled(gone, kept, text, c \o z)
               PROVE  gone \o Transform(kept \o c) = Transform(text \o c)
    OBVIOUS
  <2> QED
    BY Continued
<1> DEFINE now == Transform(kept \o piece)
           more == Excess(now)
           whole == text \o piece
<1>1. /\ now \in Texts /\ more \in Texts /\ Kept(now) \in Texts /\ now = more \o Kept(now)
      /\ more = <<>> \/ Len(Kept(now)) = Lookahead
      /\ whole \in Texts /\ piece \o rest \in Texts
  <2>1. kept \o piece \in Texts /\ whole \in Texts /\ piece \o rest \in Texts
    BY Joined
  <2>2. now \in Texts
    BY <2>1, TransformIsText
  <2> HIDE DEF now
  <2> QED
    BY <2>1, <2>2, ExcessAndKept
<1>2. gone \o now = Transform(whole)
  BY Continued
<1>3. (gone \o more) \o Kept(now) = Transform(whole)
  <2> DEFINE e == more
             k == Kept(now)
  <2>1. e \in Texts /\ k \in Texts /\ now = e \o k
    BY <1>1
  <2> HIDE DEF e, k, now
  <2>2. (gone \o e) \o k = gone \o (e \o k)
    BY <2>1, TextsReassociate, SMTT(30)
  <2> QED
    BY <1>2, <2>1, <2>2 DEF e, k
<1>4. /\ Len(gone \o more) = Len(gone) + Len(more)
      /\ Len(gone \o more) + Len(Kept(now)) = Len(Transform(whole))
      /\ Len(gone) \in Nat /\ Len(more) \in Nat /\ Len(Kept(now)) \in Nat
  <2> DEFINE e == more
             k == Kept(now)
  <2>1. e \in Texts /\ k \in Texts
    BY <1>1
  <2>2. (gone \o e) \o k = Transform(whole)
    BY <1>3
  <2> HIDE DEF e, k, now
  <2>3. /\ gone \o e \in Texts /\ Len(gone \o e) = Len(gone) + Len(e)
        /\ Len(gone) \in Nat /\ Len(e) \in Nat
    BY <2>1, Joined
  <2>4. Len((gone \o e) \o k) = Len(gone \o e) + Len(k) /\ Len(k) \in Nat
    BY <2>1, <2>3, Joined
  <2> QED
    BY <2>2, <2>3, <2>4 DEF e, k
<1>5. /\ Len(whole) = Len(text) + Len(piece) /\ Len(text) \in Nat /\ Len(piece) \in Nat
      /\ whole \o rest = text \o (piece \o rest)
  <2>1. whole \o rest = text \o (piece \o rest)
    BY TextsReassociate, SMTT(30)
  <2> QED
    BY <2>1, Joined
<1>regroup. /\ \A c, d \in Texts : (c \o d) \o rest = c \o (d \o rest) /\ d \o rest \in Texts
            /\ \A c, z \in Texts : (text \o c) \o z = text \o (c \o z) /\ text \o c \in Texts
  <2>1. \A c, d \in Texts : (c \o d) \o rest = c \o (d \o rest)
    BY TextsReassociate, SMTT(30)
  <2>2. \A c, z \in Texts : (text \o c) \o z = text \o (c \o z)
    BY TextsReassociate, SMTT(30)
  <2>3. \A c \in Texts : text \o c \in Texts /\ c \o rest \in Texts
    BY Joined
  <2> QED
    BY <2>1, <2>2, <2>3
<1>cut. \A n \in 0..Len(piece) : \E c, d \in Texts : piece = c \o d /\ Len(c) = n
  BY Cut, ZenonT(30)
<1> HIDE DEF now, more, whole
<1>6. ASSUME NEW front \in Texts, NEW back \in Texts, NEW s \in DOMAIN Known,
             front \o back = whole \o rest, At(s, back, 1),
             Len(front) <= Len(whole), Len(whole) < Len(front) + Len(s)
      PROVE  Len(gone \o more) <= Len(Transform(front))
  <2>0. /\ Len(front) \in Nat /\ Len(back) \in Nat /\ Transform(front) \in Texts
        /\ Len(Transform(front)) \in Nat /\ Len(s) \in Nat \ {0} /\ Len(s) <= Lookahead
        /\ Lookahead \in Nat
    <3>1. Transform(front) \in Texts
      BY TransformIsText
    <3>2. Len(front) \in Nat /\ Len(back) \in Nat /\ Len(Transform(front)) \in Nat
      BY <3>1 DEF Texts
    <3> QED
      BY <3>1, <3>2, KnownFacts, RegistryFacts, WindowAssumptions
  <2>1. CASE more = <<>> /\ Len(front) <= Len(text)
    <3>1. Len(text) < Len(front) + Len(s)
      BY <1>5, <1>6, <2>0
    <3>2. Len(gone) <= Len(Transform(front))
      BY <1>5, <1>6, <2>1, <3>1 DEF Settled
    <3>3. Len(more) = 0
      BY <2>1
    <3> QED
      BY <1>4, <3>2, <3>3
  <2>2. CASE more = <<>> /\ ~(Len(front) <= Len(text))
    <3> DEFINE n == Len(front) - Len(text)
    <3>1. n \in 0..Len(piece) /\ Len(front) = Len(text) + n
      BY <1>5, <1>6, <2>0, <2>2
    <3> HIDE DEF n
    <3>2. PICK c, d \in Texts : piece = c \o d /\ Len(c) = n
      BY <3>1, <1>cut
    <3>3. /\ text \o c \in Texts /\ d \o rest \in Texts
          /\ (text \o c) \o (d \o rest) = text \o (c \o (d \o rest))
          /\ piece \o rest = c \o (d \o rest)
      <4>1. d \o rest \in Texts /\ (c \o d) \o rest = c \o (d \o rest)
        BY <1>regroup
      <4> QED
        BY <1>regroup, <3>2, <4>1
    <3>4. front = text \o c
      <4>1. Len(text \o c) = Len(text) + Len(c)
        BY Joined
      <4>2. Len(front) = Len(text \o c)
        BY <3>1, <3>2, <4>1
      <4>3. front \o back = (text \o c) \o (d \o rest)
        BY <1>5, <1>6, <3>3
      <4> DEFINE u == text \o c
                 z == d \o rest
      <4>4. u \in Texts /\ z \in Texts /\ front \o back = u \o z /\ Len(front) = Len(u)
        BY <3>3, <4>2, <4>3
      <4> HIDE DEF u, z
      <4>5. front = u
        BY <4>4, SameCut
      <4> QED
        BY <4>5 DEF u
    <3>5. gone \o Transform(kept \o c) = Transform(text \o c)
      <4> DEFINE z == d \o rest
      <4>1. /\ z \in Texts /\ Stands(Known, text \o (c \o z))
            /\ Settled(gone, kept, text, c \o z)
        BY <3>3
      <4> HIDE DEF z
      <4> QED
        BY <4>1, <1>upTo
    <3>6. Len(Transform(front)) = Len(gone) + Len(Transform(kept \o c))
          /\ Len(Transform(kept \o c)) \in Nat
      <4> DEFINE v == Transform(kept \o c)
      <4>1. v \in Texts
        <5>1. kept \o c \in Texts
          BY Joined
        <5> QED
          BY <5>1, TransformIsText
      <4>2. Transform(front) = gone \o v
        BY <3>4, <3>5
      <4> HIDE DEF v
      <4>3. Len(gone \o v) = Len(gone) + Len(v) /\ Len(v) \in Nat
        BY <4>1, Joined
      <4> QED
        BY <4>2, <4>3 DEF v
    <3>7. Len(more) = 0
      BY <2>2
    <3> QED
      BY <1>4, <3>6, <3>7
  <2>3. CASE Len(Kept(now)) = Lookahead
    <3>1. PICK a, tail \in Texts :
             whole = a \o tail /\ Len(a) = Len(front) /\ Len(tail) = Len(whole) - Len(front)
      <4>1. Len(front) \in 0..Len(whole)
        BY <1>1, <1>5, <1>6, <2>0
      <4> QED
        BY <1>1, <4>1, Cut, ZenonT(30)
    <3>2. a = front /\ back = tail \o rest
      <4>1. (a \o tail) \o rest = a \o (tail \o rest) /\ tail \o rest \in Texts
        BY <1>regroup
      <4> DEFINE z == tail \o rest
      <4>2. z \in Texts /\ front \o back = a \o z /\ Len(front) = Len(a)
        BY <1>6, <3>1, <4>1
      <4> HIDE DEF z
      <4>3. front = a /\ back = z
        BY <4>2, SameCut
      <4> QED
        BY <4>3 DEF z
    <3>3. Len(tail) < Len(s) /\ Len(tail) \in Nat
      BY <1>5, <1>6, <2>0, <3>1
    <3>4. Transform(whole) = Transform(front) \o tail
      <4>1. Stands(Known, front \o (tail \o rest)) /\ At(s, tail \o rest, 1)
        BY <1>5, <1>6, <3>2
      <4>2. Transform(front \o tail) = Transform(front) \o tail
        BY <3>3, <4>1, PendingPlain
      <4> QED
        BY <3>1, <3>2, <4>2
    <3>5. Len(Transform(whole)) = Len(Transform(front)) + Len(tail)
      BY <2>0, <3>4, Joined
    <3> QED
      BY <1>4, <2>0, <2>3, <3>3, <3>5
  <2> QED
    BY <1>1, <2>1, <2>2, <2>3
<1>7. Settled(gone \o more, Kept(now), whole, rest)
  BY <1>3, <1>6 DEF Settled
<1> QED
  BY <1>7 DEF now, more, whole

USE WindowAssumptions DEF Texts

\* While the window is open, what it has released and what it retains are what the pass
\* makes of everything received, and what is released is out of the reach of the rest,
\* whatever that will be, if the surrogates stand apart in the whole.
Exact ==
    ~flushed =>
        \A rest \in Texts :
            Stands(Known, received \o rest) => Settled(released, buffer, received, rest)

\* Then, once it is closed, the client has what the pass makes of everything.
Restored == flushed /\ Stands(Known, received) => released = Transform(received)

WindowInv ==
    /\ WindowTypeOK
    /\ Len(buffer) <= Lookahead
    /\ flushed => buffer = <<>>

ExactInv ==
    /\ WindowInv
    /\ Exact
    /\ Restored
-----------------------------------------------------------------------------
\* Slicing loses nothing.
LEMMA Slice ==
    ASSUME NEW text \in Texts
    PROVE  /\ Excess(text) \in Texts /\ Kept(text) \in Texts
           /\ Len(Kept(text)) <= Lookahead
<1>1. Len(text) \in Nat
  OBVIOUS
<1>2. CASE Len(text) <= Lookahead
  BY <1>2, EmptySeq DEF Excess, Kept
<1>3. CASE Len(text) > Lookahead
  <2>1. \A i \in 1..Len(text) : text[i] \in Chars
    BY ElementOfSeq
  <2>2. Excess(text) \in Texts
    BY <1>1, <1>3, <2>1, SubSeqProperties DEF Excess
  <2>3. Kept(text) \in Texts /\ Len(Kept(text)) = Lookahead
    BY <1>1, <1>3, <2>1, SubSeqProperties DEF Kept
  <2>4. QED
    BY <2>2, <2>3
<1>4. QED
  BY <1>1, <1>2, <1>3

LEMMA Associative ==
    ASSUME NEW s \in Texts, NEW t \in Texts, NEW u \in Texts
    PROVE  (s \o t) \o u = s \o (t \o u) /\ s \o t \in Texts
BY ConcatAssociative, ConcatProperties

LEMMA InitWindow == WindowInit => WindowInv
<1>1. <<>> \in Seq(Chars) /\ Len(<<>>) = 0
  BY EmptySeq
<1>2. ASSUME WindowInit PROVE WindowTypeOK
  BY <1>1, <1>2 DEF WindowInit, WindowTypeOK
<1>3. ASSUME WindowInit PROVE Len(buffer) <= Lookahead
  BY <1>1, <1>3 DEF WindowInit
<1>4. QED
  BY <1>2, <1>3 DEF WindowInv, WindowInit

\* The types and the bound of the buffer are preserved by a chunk of any text ...
LEMMA FeedWindow ==
    ASSUME WindowInv, NEW chunk \in Texts, Feed(chunk)
    PROVE  WindowInv'
<1> USE DEF WindowInv, WindowTypeOK
<1> DEFINE text == Transform(buffer \o chunk)
<1>1. buffer \o chunk \in Texts /\ received \o chunk \in Texts
  BY Associative, EmptySeq, ConcatProperties
<1>2. text \in Texts
  BY <1>1, TransformIsText
<1>3. Excess(text) \in Texts /\ Kept(text) \in Texts /\ Len(Kept(text)) <= Lookahead
  BY <1>2, Slice
<1>4. released \o Excess(text) \in Texts
  BY <1>3, ConcatProperties
<1> QED
  BY <1>1, <1>3, <1>4 DEF Feed

\* ... and by the flush.
LEMMA FlushWindow ==
    ASSUME WindowInv, Flush
    PROVE  WindowInv'
<1> USE DEF WindowInv, WindowTypeOK
<1>1. Transform(buffer) \in Texts
  BY TransformIsText
<1>2. released \o Transform(buffer) \in Texts
  BY <1>1, ConcatProperties
<1> QED
  BY <1>2, EmptySeq DEF Flush

LEMMA WindowFacts ==
    ASSUME WindowInv
    PROVE  buffer \in Texts /\ released \in Texts /\ received \in Texts /\ WindowTypeOK
  BY DEF WindowInv, WindowTypeOK

HIDE WindowAssumptions DEF Texts

\* The same of all of the rest.
LEMMA ContinuedToTheEnd ==
    ASSUME NEW gone \in Texts, NEW kept \in Texts, NEW text \in Texts, NEW rest \in Texts,
           Stands(Known, text \o rest), Settled(gone, kept, text, rest)
    PROVE  gone \o Transform(kept \o rest) = Transform(text \o rest)
<1>1. ASSUME NEW none \in Texts,
             Stands(Known, text \o (rest \o none)), Settled(gone, kept, text, rest \o none)
      PROVE  gone \o Transform(kept \o rest) = Transform(text \o rest)
  BY <1>1, Continued
<1>2. <<>> \in Texts /\ rest \o <<>> = rest
  BY EmptySeq, ConcatEmptySeq DEF Texts
<1> QED
  BY <1>1, <1>2

LEMMA InitWindowExact == WindowInit => ExactInv
<1> SUFFICES ASSUME WindowInit PROVE ExactInv
  OBVIOUS
<1>1. /\ buffer = <<>> /\ released = <<>> /\ received = <<>> /\ flushed = FALSE
      /\ Len(<<>>) = 0 /\ <<>> \o <<>> = <<>>
  BY DEF WindowInit
<1>2. ASSUME NEW rest \in Texts PROVE Settled(<<>>, <<>>, <<>>, rest)
  <2>1. \A front \in Texts : Len(Transform(front)) \in Nat
    BY TransformIsText DEF Texts
  <2>2. \A front \in Texts : Len(<<>>) <= Len(Transform(front))
    BY <1>1, <2>1
  <2>3. <<>> \o <<>> = Transform(<<>>)
    BY <1>1, TransformOfNothing
  <2> QED
    BY <2>2, <2>3 DEF Settled
<1>3. Exact
  BY <1>1, <1>2 DEF Exact
<1> QED
  BY <1>1, <1>3, InitWindow DEF ExactInv, Restored

\* A chunk leaves what is released out of the reach of what comes next.
LEMMA FeedWindowExact ==
    ASSUME ExactInv, NEW chunk \in Texts, Feed(chunk)
    PROVE  ExactInv'
<1>1. WindowInv'
  BY FeedWindow DEF ExactInv
<1>2. /\ released' = released \o Excess(Transform(buffer \o chunk))
      /\ buffer' = Kept(Transform(buffer \o chunk))
      /\ received' = received \o chunk
      /\ flushed = FALSE /\ flushed' = FALSE
  BY DEF Feed, ExactInv, WindowInv, WindowTypeOK
<1>3. buffer \in Texts /\ released \in Texts /\ received \in Texts
  BY WindowFacts DEF ExactInv
<1>4. ASSUME NEW rest \in Texts, Stands(Known, (received \o chunk) \o rest)
      PROVE  Settled(released \o Excess(Transform(buffer \o chunk)),
                     Kept(Transform(buffer \o chunk)), received \o chunk, rest)
  <2>1. (received \o chunk) \o rest = received \o (chunk \o rest)
        /\ chunk \o rest \in Texts
    <3>1. chunk \o rest \in Texts
      BY Joined
    <3> QED
      BY <1>3, <3>1, TextsReassociate, SMTT(30)
  <2>2. Stands(Known, received \o (chunk \o rest))
    BY <1>4, <2>1
  <2>3. Settled(released, buffer, received, chunk \o rest)
    BY <1>2, <2>1, <2>2 DEF ExactInv, Exact
  <2> QED
    BY <1>3, <2>2, <2>3, SettledNext
<1>5. Exact'
  BY <1>2, <1>4 DEF Exact
<1> QED
  BY <1>1, <1>2, <1>5 DEF ExactInv, Restored

\* What is left, transformed once more, completes it.
LEMMA FlushWindowExact ==
    ASSUME ExactInv, Flush
    PROVE  ExactInv'
<1>1. WindowInv'
  BY FlushWindow DEF ExactInv
<1>2. /\ released' = released \o Transform(buffer) /\ received' = received
      /\ ~flushed /\ flushed' = TRUE
  BY DEF Flush
<1>3. buffer \in Texts /\ released \in Texts /\ received \in Texts
  BY WindowFacts DEF ExactInv
<1> DEFINE none == <<>>
<1>4. none \in Texts /\ \A u \in Texts : u \o none = u
  BY EmptySeq, ConcatEmptySeq DEF Texts
<1> HIDE DEF none
<1>5. ASSUME Stands(Known, received)
      PROVE  released \o Transform(buffer) = Transform(received)
  <2>1. none \o none = none /\ buffer \o none = buffer /\ received \o none = received
    BY <1>3, <1>4
  <2>2. Stands(Known, received \o (none \o none))
    BY <1>5, <2>1
  <2>3. Settled(released, buffer, received, none \o none)
    BY <1>2, <1>4, <1>5, <2>1 DEF ExactInv, Exact
  <2>4. released \o Transform(buffer \o none) = Transform(received \o none)
    BY <1>3, <1>4, <2>2, <2>3, Continued
  <2> QED
    BY <2>1, <2>4
<1> QED
  BY <1>1, <1>2, <1>5 DEF ExactInv, Exact, Restored

LEMMA WindowStutters ==
    ASSUME UNCHANGED windowVars
    PROVE  (WindowInv => WindowInv') /\ (ExactInv => ExactInv')
BY DEF windowVars, WindowInv, ExactInv, WindowTypeOK, Exact, Restored

\* A step of the window by itself, fed whatever chunks there are.
LEMMA WindowSteps ==
    ASSUME [WindowNext]_windowVars
    PROVE  (\E chunk \in Texts : Feed(chunk)) \/ Flush \/ UNCHANGED windowVars
BY WindowAssumptions DEF WindowNext, Raise, Texts

LEMMA WindowInduction ==
    /\ WindowInit => WindowInv
    /\ WindowInv /\ [WindowNext]_windowVars => WindowInv'
BY WindowSteps, InitWindow, FeedWindow, FlushWindow, WindowStutters

LEMMA ExactInduction ==
    /\ WindowInit => ExactInv
    /\ ExactInv /\ [WindowNext]_windowVars => ExactInv'
BY InitWindowExact, WindowSteps, FeedWindowExact, FlushWindowExact, WindowStutters

\* The window's variables keep their types, whatever the registry and whatever is fed
\* (SlidingWindow.feed and flush).
THEOREM WindowTypeCorrect == WindowSpec => []WindowTypeOK
<1>1. /\ WindowInit => WindowInv
      /\ WindowInv /\ [WindowNext]_windowVars => WindowInv'
  BY WindowInduction
<1>2. WindowInv => WindowTypeOK
  BY DEF WindowInv, WindowTypeOK
<1> QED
  BY <1>1, <1>2, PTL DEF WindowSpec

\* However long the response and the values put in, feed never retains more than
\* the lookahead, and flush retains nothing.
THEOREM RetentionBoundedHolds == WindowSpec => []RetentionBounded
<1>1. /\ WindowInit => WindowInv
      /\ WindowInv /\ [WindowNext]_windowVars => WindowInv'
  BY WindowInduction
<1>2. WindowInv => RetentionBounded
  BY DEF WindowInv, RetentionBounded
<1> QED
  BY <1>1, <1>2, PTL DEF WindowSpec

\* A response streamed through the window in any chunks is the response rehydrated at
\* once, whatever the registry, if the surrogates stand apart in the response
\* (SlidingWindow.feed and flush, with rehydrate of rehydrate.py in them).
THEOREM StreamedEqualsWholeHolds == WindowSpec => []StreamedEqualsWhole
<1>1. /\ WindowInit => ExactInv
      /\ ExactInv /\ [WindowNext]_windowVars => ExactInv'
  BY ExactInduction
<1>2. ASSUME ExactInv, flushed, Standing(Known, received)
      PROVE  released = Transform(received)
  <2>1. received \in Texts
    BY <1>2, WindowFacts DEF ExactInv
  <2>2. Stands(Known, received)
    BY <1>2, <2>1, KnownFacts, StandingStands
  <2> QED
    BY <1>2, <2>2 DEF ExactInv, Restored
<1>3. ExactInv => StreamedEqualsWhole
  BY <1>2 DEF StreamedEqualsWhole
<1> QED
  BY <1>1, <1>3, PTL DEF WindowSpec

\* Of such a response no text leaves the window that a later chunk could still have
\* changed.
THEOREM NothingUnsettledReleasedHolds == WindowSpec => []NothingUnsettledReleased
<1>1. /\ WindowInit => ExactInv
      /\ ExactInv /\ [WindowNext]_windowVars => ExactInv'
  BY ExactInduction
<1>2. ASSUME ExactInv, ~flushed, NEW future \in Futures,
             Standing(Known, received \o future)
      PROVE  IsPrefix(released, Transform(received \o future))
  <2> DEFINE last == Transform(buffer \o future)
  <2>1. future \in Texts /\ released \in Texts /\ buffer \in Texts
    BY <1>2, WindowAssumptions, WindowFacts DEF ExactInv, Texts
  <2>received. received \in Texts /\ received \o future \in Texts
    BY <1>2, <2>1, WindowFacts, Joined DEF ExactInv
  <2>2. last \in Texts
    <3>1. buffer \o future \in Texts
      BY <2>1, Joined
    <3> QED
      BY <3>1, TransformIsText
  <2>3. Transform(received \o future) = released \o last
    <3>1. Stands(Known, received \o future)
      BY <1>2, <2>received, KnownFacts, StandingStands
    <3>2. Settled(released, buffer, received, future)
      BY <1>2, <2>1, <3>1 DEF ExactInv, Exact
    <3>3. released \o Transform(buffer \o future) = Transform(received \o future)
      BY <2>1, <2>received, <3>1, <3>2, ContinuedToTheEnd
    <3> QED
      BY <3>3
  <2> HIDE DEF last
  <2>4. Len(released \o last) = Len(released) + Len(last)
    BY <2>1, <2>2, ConcatProperties DEF Texts
  <2>5. Len(released) \in Nat /\ Len(last) \in Nat
    BY <2>1, <2>2, LenProperties DEF Texts
  <2>6. SubSeq(released, 1, Len(released)) = SubSeq(released \o last, 1, Len(released))
    <3>1. CASE released = <<>>
      BY <3>1, SubSeqEmpty, EmptySeq
    <3>2. CASE released # <<>>
      <4>1. Len(released) \in 1..Len(released)
        BY <2>1, <2>5, <3>2, EmptySeq DEF Texts
      <4>2. 1 \in 1..Len(released)
        BY <4>1, <2>5
      <4> QED
        BY <2>1, <2>2, <4>1, <4>2, SubSeqOfConcat1 DEF Texts
    <3> QED
      BY <3>1, <3>2
  <2> QED
    BY <2>3, <2>4, <2>5, <2>6 DEF IsPrefix
<1>3. ExactInv => NothingUnsettledReleased
  BY <1>2 DEF NothingUnsettledReleased, IsPrefix
<1> QED
  BY <1>1, <1>3, PTL DEF WindowSpec
-----------------------------------------------------------------------------
(* What is yielded *)

ContentOnly(items) == \A i \in 1..Len(items) : items[i].kind = "content"

Ordered(items) ==
    \A i, j \in 1..Len(items) : i < j =>
        /\ items[i].kind # "done"
        /\ items[i].kind = "structural" => items[j].kind = "done"

\* An event without text beside content: what the end of a stream adds.
Blank(item) == item \in Items /\ item.text = <<>>

LEMMA TextOfNoMore ==
    ASSUME NEW items \in Seq(Items), NEW item, Blank(item)
    PROVE  TextOf(items \o <<item>>) = TextOf(items)
<1>1. TextOf(items \o <<item>>) = TextOf(items) \o <<>>
  BY TextOfAppend DEF Blank
<1>2. TextOf(items) \in Texts
  BY TextOfIsText
<1> QED
  BY <1>1, <1>2, ConcatEmptySeq DEF Texts

LEMMA ContentHasNoStructural ==
    ASSUME NEW items \in Seq(Items), ContentOnly(items)
    PROVE  LastStructural(items) = Nothing /\ Ordered(items)
<1>1. Places(items) = {}
  BY DEF ContentOnly, Places
<1> QED
  BY <1>1, LastStructuralIs DEF ContentOnly, Ordered

\* A release adds its text and nothing else, if there is an event to carry it.
LEMMA ReleaseAdds ==
    ASSUME NEW items \in Seq(Items), ContentOnly(items),
           NEW event \in Maybe(Events), event # Nothing => event.kind = "content",
           NEW text \in Texts, text # <<>> => event # Nothing
    PROVE  /\ items \o Release(event, text) \in Seq(Items)
           /\ ContentOnly(items \o Release(event, text))
           /\ TextOf(items \o Release(event, text)) = TextOf(items) \o text
<1>1. CASE text = <<>>
  <2>1. Release(event, text) = <<>>
    BY <1>1 DEF Release
  <2>2. TextOf(items) \o text = TextOf(items)
    BY <1>1, TextOfIsText, ConcatEmptySeq DEF Texts
  <2>3. items \o <<>> = items
    BY ConcatEmptySeq
  <2> QED
    BY <2>1, <2>2, <2>3
<1>2. CASE text # <<>>
  <2> DEFINE item == [event EXCEPT !.text = text]
  <2>1. event \in Events /\ event \in Items /\ event.kind = "content"
    BY <1>2, EventFacts DEF Maybe
  <2>2. item \in Items /\ item.kind = "content" /\ item.text = text
    BY <2>1 DEF Items
  <2>3. Release(event, text) = <<item>>
    <3>1. ~(text = <<>> \/ event = Nothing)
      BY <1>2
    <3> QED
      BY <2>1, <3>1 DEF Release, Carried
  <2> HIDE DEF item
  <2>4. items \o <<item>> \in Seq(Items) /\ ContentOnly(items \o <<item>>)
    BY <2>2 DEF ContentOnly
  <2> QED
    BY <2>2, <2>3, <2>4, TextOfAppend
<1> QED
  BY <1>1, <1>2

LEMMA Reassociate ==
    \A s, t, u \in Seq(Items) : (s \o t) \o u = s \o (t \o u)
  BY ConcatAssociative

LEMMA DoneIsBlank == Done = <<Done[1]>> /\ Blank(Done[1]) /\ Done[1].kind = "done"
  BY DEF Done, Blank, Items, Kinds, Marks, Texts

\* A structural event adds no text, is the last of its kind, and comes behind content.
LEMMA StructuralAdds ==
    ASSUME NEW items \in Seq(Items), ContentOnly(items),
           NEW event \in Maybe(Events), event # Nothing => event.kind = "structural"
    PROVE  LET more == items \o (IF event = Nothing THEN <<>> ELSE Carried(event, <<>>)) IN
              /\ more \in Seq(Items)
              /\ TextOf(more) = TextOf(items)
              /\ LastStructural(more) = event
              /\ Ordered(more)
              /\ \A i \in 1..Len(more) :
                    more[i].kind # "done" /\ (i < Len(more) => more[i].kind = "content")
<1>1. CASE event = Nothing
  <2>1. items \o <<>> = items
    BY ConcatEmptySeq
  <2> QED
    BY <1>1, <2>1, ContentHasNoStructural DEF ContentOnly
<1>2. CASE event # Nothing
  <2>1. event \in Events /\ event.kind = "structural" /\ event.text = <<>> /\ event \in Items
    BY <1>2, StreamAssumptions, EventFacts DEF Maybe
  <2>2. Carried(event, <<>>) = <<event>>
    <3>1. [event EXCEPT !.text = <<>>] = event
      BY <2>1 DEF Items
    <3> QED
      BY <2>1, <3>1 DEF Carried
  <2> DEFINE more == items \o <<event>>
  <2>3. /\ more \in Seq(Items) /\ Len(more) = Len(items) + 1 /\ Len(items) \in Nat
        /\ \A i \in 1..Len(items) : more[i] = items[i]
        /\ more[Len(items) + 1] = event
    BY <2>1
  <2>4. TextOf(more) = TextOf(items)
    BY <2>1, TextOfNoMore DEF Blank
  <2>5. LastStructural(more) = event
    BY <2>1, LastStructuralAppend
  <2> HIDE DEF more
  <2>6. \A i \in 1..Len(more) :
           more[i].kind # "done" /\ (i < Len(more) => more[i].kind = "content")
    <3> SUFFICES ASSUME NEW i \in 1..Len(more)
                 PROVE  more[i].kind # "done" /\ (i < Len(more) => more[i].kind = "content")
      OBVIOUS
    <3>1. CASE i \in 1..Len(items)
      BY <2>3, <3>1 DEF ContentOnly
    <3>2. CASE i = Len(items) + 1
      BY <2>1, <2>3, <3>2
    <3> QED
      BY <2>3, <3>1, <3>2
  <2>7. Ordered(more)
    <3> SUFFICES ASSUME NEW i \in 1..Len(more), NEW j \in 1..Len(more), i < j
                 PROVE  more[i].kind = "content"
      BY DEF Ordered
    <3>1. i < Len(more)
      BY <2>3
    <3> QED
      BY <2>6, <3>1
  <2>8. more = items \o (IF event = Nothing THEN <<>> ELSE Carried(event, <<>>))
    BY <1>2, <2>2 DEF more
  <2> QED
    BY <2>3, <2>4, <2>5, <2>6, <2>7, <2>8
<1> QED
  BY <1>1, <1>2

\* The end of a stream adds the remainder, and leaves everything in order.
LEMMA EndingAdds ==
    ASSUME out \in Seq(Items), ContentOnly(out),
           lastContent \in Maybe(Events), lastContent # Nothing => lastContent.kind = "content",
           structural \in Maybe(Events), structural # Nothing => structural.kind = "structural",
           Transform(buffer) \in Texts, Transform(buffer) # <<>> => lastContent # Nothing
    PROVE  /\ out \o Ending \in Seq(Items)
           /\ TextOf(out \o Ending) = TextOf(out) \o Transform(buffer)
           /\ LastStructural(out \o Ending) = structural
           /\ Ordered(out \o Ending)
<1> DEFINE rest == Release(lastContent, Transform(buffer))
           last == IF structural = Nothing THEN <<>> ELSE Carried(structural, <<>>)
           one == out \o rest
           two == one \o last
           all == two \o Done
<1>1. /\ one \in Seq(Items) /\ ContentOnly(one)
      /\ TextOf(one) = TextOf(out) \o Transform(buffer)
  BY ReleaseAdds
<1>2. /\ rest \in Seq(Items) /\ last \in Seq(Items) /\ Done \in Seq(Items)
  <2>1. rest \in Seq(Items)
    <3>1. CASE Transform(buffer) = <<>> \/ lastContent = Nothing
      BY <3>1 DEF Release
    <3>2. CASE ~(Transform(buffer) = <<>> \/ lastContent = Nothing)
      <4>1. lastContent \in Items
        BY <3>2, EventFacts DEF Maybe
      <4>2. rest = <<[lastContent EXCEPT !.text = Transform(buffer)]>>
        BY <3>2 DEF Release, Carried
      <4>3. [lastContent EXCEPT !.text = Transform(buffer)] \in Items
        BY <4>1 DEF Items
      <4> QED
        BY <4>2, <4>3
    <3> QED
      BY <3>1, <3>2
  <2>2. last \in Seq(Items)
    <3>1. CASE structural = Nothing
      BY <3>1
    <3>2. CASE structural # Nothing
      <4>1. structural \in Items
        BY <3>2, EventFacts DEF Maybe
      <4>2. last = <<[structural EXCEPT !.text = <<>>]>>
        BY <3>2 DEF Carried
      <4>3. structural.text = <<>> /\ [structural EXCEPT !.text = <<>>] = structural
        BY <3>2, <4>1, StreamAssumptions DEF Items, Maybe
      <4> HIDE DEF last
      <4> QED
        BY <4>1, <4>2, <4>3
    <3> QED
      BY <3>1, <3>2
  <2>3. Done \in Seq(Items)
    <3> DEFINE end == Done[1]
    <3>1. Done = <<end>> /\ end \in Items
      BY DoneIsBlank DEF Blank
    <3> HIDE DEF end
    <3> QED
      BY <3>1
  <2> QED
    BY <2>1, <2>2, <2>3
<1> HIDE DEF one, rest
<1>3. /\ two \in Seq(Items)
      /\ TextOf(two) = TextOf(one)
      /\ LastStructural(two) = structural
      /\ Ordered(two)
      /\ \A i \in 1..Len(two) : two[i].kind # "done" /\ (i < Len(two) => two[i].kind = "content")
  BY <1>1, StructuralAdds
<1> HIDE DEF two, last
<1> DEFINE end == Done[1]
<1>4. all = two \o <<end>> /\ Blank(end) /\ end \in Items /\ end.kind = "done"
  BY DoneIsBlank DEF Blank
<1> HIDE DEF end
<1>5. /\ all \in Seq(Items)
      /\ TextOf(all) = TextOf(two)
      /\ LastStructural(all) = LastStructural(two)
  <2>1. two \o <<end>> \in Seq(Items)
    BY <1>3, <1>4
  <2>2. TextOf(two \o <<end>>) = TextOf(two)
    BY <1>3, <1>4, TextOfNoMore
  <2>3. LastStructural(two \o <<end>>) = LastStructural(two)
    BY <1>3, <1>4, LastStructuralAppend
  <2> HIDE DEF all
  <2> QED
    BY <1>4, <2>1, <2>2, <2>3
<1>6. Ordered(all)
  <2>1. /\ Len(all) = Len(two) + 1 /\ Len(two) \in Nat
        /\ \A i \in 1..Len(two) : all[i] = two[i]
        /\ all[Len(two) + 1] = end
    BY <1>3, <1>4
  <2> HIDE DEF all
  <2> SUFFICES ASSUME NEW i \in 1..Len(all), NEW j \in 1..Len(all), i < j
               PROVE  all[i].kind # "done" /\ (all[i].kind = "structural" => all[j].kind = "done")
    BY DEF Ordered
  <2>2. i \in 1..Len(two) /\ all[i] = two[i]
    BY <2>1
  <2>3. CASE j = Len(two) + 1
    BY <1>3, <1>4, <2>1, <2>2, <2>3
  <2>4. CASE j \in 1..Len(two)
    <3>1. all[j] = two[j]
      BY <2>1, <2>4
    <3> QED
      BY <1>3, <2>2, <2>4, <3>1 DEF Ordered
  <2> QED
    BY <2>1, <2>3, <2>4
<1>7. out \o Ending = all
  <2>1. Ending = (rest \o last) \o Done
    BY DEF Ending, rest, last
  <2> HIDE DEF rest, last
  <2>2. (out \o rest) \o last = out \o (rest \o last)
    BY <1>2, ConcatAssociative, SMTT(30)
  <2>3. rest \o last \in Seq(Items)
    BY <1>2, ConcatProperties
  <2>4. (out \o (rest \o last)) \o Done = out \o ((rest \o last) \o Done)
    <3> DEFINE tail == rest \o last
    <3> HIDE DEF tail
    <3>1. tail \in Seq(Items)
      BY <2>3 DEF tail
    <3>2. (out \o tail) \o Done = out \o (tail \o Done)
      BY <1>2, <3>1, Reassociate, Zenon
    <3> QED
      BY <3>2 DEF tail
  <2> QED
    BY <2>1, <2>2, <2>4 DEF one, two
<1> HIDE DEF all
<1> QED
  BY <1>1, <1>3, <1>5, <1>6, <1>7
-----------------------------------------------------------------------------
(* The invariant *)

\* What holds of the generator's own variables wherever it is: the window's
\* invariant, the kinds of the events kept, an event to carry whatever the window
\* keeps, and everything released on its way.
Handling ==
    /\ WindowInv
    /\ lastContent \in Maybe(Events) /\ structural \in Maybe(Events)
    /\ lastContent # Nothing => lastContent.kind = "content"
    /\ structural # Nothing => structural.kind = "structural"
    /\ buffer # <<>> => lastContent # Nothing
    /\ out \in Seq(Items)
    /\ ReleasedReachesClient

\* Before the end of the stream and after it.
Open == ~flushed /\ ContentOnly(out)
Closed == flushed /\ LastStructural(out) = structural /\ Ordered(out)

SInv ==
    /\ Handling
    /\ upstream \in Seq(Events) /\ batch \in Seq(Events) /\ partial \in Maybe(Events)
    /\ pc \in {"reading", "draining", "finishing", "ended", "cut"}
    /\ connected \in BOOLEAN
    /\ pc # "ended" => Open
    /\ pc = "ended" => Closed
    /\ ConnectionReleased

LEMMA EventText ==
    ASSUME NEW event \in Events
    PROVE  event.text \in Texts /\ (event.kind # "content" => event.text = <<>>)
<1>1. event \in Items
  BY EventFacts
<1> QED
  BY <1>1, StreamAssumptions DEF Items

LEMMA InitSInv ==
    ASSUME Init
    PROVE  SInv
<1>1. WindowInv
  BY InitWindow DEF Init
<1>2. buffer = <<>> /\ flushed = FALSE /\ released = <<>>
  BY DEF Init, WindowInit
<1>3. out = <<>> /\ out \in Seq(Items) /\ ContentOnly(out)
  BY DEF Init, ContentOnly
<1>4. TextOf(out) = released
  BY <1>2, <1>3, TextOfEmpty
<1>5. <<>> \in Seq(Events) /\ Nothing \in Maybe(Events)
  BY DEF Maybe
<1> QED
  BY <1>1, <1>2, <1>3, <1>4, <1>5
     DEF Init, SInv, Handling, Open, Closed, ReleasedReachesClient, ConnectionReleased

\* An event of content: the window moves on, and what it lets go is carried.
LEMMA ContentHandled ==
    ASSUME Handling, Open, NEW event \in Events, TakeContent(event)
    PROVE  Handling' /\ Open'
<1> DEFINE text == Transform(buffer \o event.text)
           gone == Excess(text)
<1>1. event.text \in Texts /\ event.kind = "content" /\ event # Nothing
  BY EventText, StreamAssumptions DEF TakeContent
<1>2. WindowInv'
  BY <1>1, FeedWindow DEF Handling, TakeContent
<1>3. gone \in Texts
  <2>1. buffer \o event.text \in Texts
    BY <1>1, WindowFacts, Joined DEF Handling
  <2>2. text \in Texts
    BY <2>1, TransformIsText
  <2> HIDE DEF text
  <2> QED
    BY <2>2, Slice
<1>4. /\ out' = out \o Release(event, gone)
      /\ released' = released \o gone
      /\ flushed' = flushed
      /\ lastContent' = event
      /\ structural' = structural
  BY DEF TakeContent, Feed
<1> HIDE DEF gone
<1>5. event \in Maybe(Events)
  BY DEF Maybe
<1>6. out' \in Seq(Items) /\ ContentOnly(out') /\ TextOf(out') = released'
  <2>1. TextOf(out) = released /\ out \in Seq(Items) /\ ContentOnly(out)
    BY DEF Handling, Open, ReleasedReachesClient
  <2> QED
    BY <1>1, <1>3, <1>4, <1>5, <2>1, ReleaseAdds
<1> QED
  BY <1>1, <1>2, <1>4, <1>5, <1>6 DEF Handling, Open, ReleasedReachesClient

LEMMA StructuralHandled ==
    ASSUME Handling, Open, NEW event \in Events, TakeStructural(event)
    PROVE  Handling' /\ Open'
<1>1. WindowInv'
  BY WindowStutters DEF Handling, TakeStructural
<1>2. event \in Maybe(Events)
  BY DEF Maybe
<1> QED
  BY <1>1, <1>2 DEF Handling, Open, ReleasedReachesClient, TakeStructural, windowVars

\* The end of the stream.
LEMMA EndHandled ==
    ASSUME Handling, Open, Flush, out' = out \o Ending,
           UNCHANGED <<lastContent, structural>>
    PROVE  Handling' /\ Closed'
<1>1. WindowInv'
  BY FlushWindow DEF Handling
<1>2. Transform(buffer) \in Texts /\ (Transform(buffer) # <<>> => lastContent # Nothing)
  <2>1. buffer \in Texts
    BY WindowFacts DEF Handling
  <2> QED
    BY <2>1, TransformIsText, TransformOfNothing DEF Handling
<1>3. released' = released \o Transform(buffer) /\ flushed' = TRUE /\ buffer' = <<>>
  BY DEF Flush
<1>4. /\ out' \in Seq(Items)
      /\ TextOf(out') = TextOf(out) \o Transform(buffer)
      /\ LastStructural(out') = structural
      /\ Ordered(out')
  BY <1>2, EndingAdds DEF Handling, Open
<1> QED
  BY <1>1, <1>3, <1>4 DEF Handling, Closed, ReleasedReachesClient

LEMMA NothingHandled ==
    ASSUME UNCHANGED <<windowVars, lastContent, structural, out>>
    PROVE  /\ Handling => Handling'
           /\ Open => Open'
           /\ Closed => Closed'
<1>1. WindowInv => WindowInv'
  BY WindowStutters
<1> QED
  BY <1>1 DEF Handling, Open, Closed, ReleasedReachesClient, windowVars

LEMMA UnderWayTyped ==
    ASSUME SInv
    PROVE  (IF partial = Nothing THEN <<>> ELSE <<partial>>) \in Seq(Events)
  BY DEF SInv, Maybe

LEMMA BatchFacts ==
    ASSUME SInv, batch # <<>>
    PROVE  /\ Head(batch) \in Events /\ Tail(batch) \in Seq(Events)
           /\ batch = <<Head(batch)>> \o Tail(batch)
  BY DEF SInv

LEMMA StepSInv ==
    ASSUME SInv, [Next]_vars
    PROVE  SInv'
<1> USE DEF SInv, ConnectionReleased
<1>1. ASSUME NEW events \in BoundedSeq(Events, MaxBatch), NEW next \in Maybe(Events),
             Receive(events, next)
      PROVE  SInv'
  <2>1. events \in Seq(Events)
    <3>1. PICK n \in 0..MaxBatch : events \in [1..n -> Events]
      BY StreamAssumptions DEF BoundedSeq, SeqOf
    <3> QED
      BY <3>1
  <2>2. batch' \in Seq(Events)
    BY <1>1, <2>1, UnderWayTyped, ConcatProperties DEF Receive
  <2>3. upstream' \in Seq(Events)
    <3>1. (IF next = Nothing THEN <<>> ELSE <<next>>) \in Seq(Events)
      BY DEF Maybe
    <3> QED
      BY <1>1, <2>1, <3>1, ConcatProperties DEF Receive
  <2>4. Handling' /\ Open'
    BY <1>1, NothingHandled DEF Receive
  <2> QED
    BY <1>1, <2>2, <2>3, <2>4 DEF Receive
<1>2. CASE HandleDelta
  <2>1. Head(batch) \in Events /\ Tail(batch) \in Seq(Events)
    BY <1>2, BatchFacts DEF HandleDelta
  <2>2. Handling' /\ Open'
    BY <1>2, <2>1, ContentHandled, StructuralHandled DEF HandleDelta
  <2> QED
    BY <1>2, <2>1, <2>2 DEF HandleDelta
<1>3. CASE HandleDone
  <2>1. Handling' /\ Closed'
    BY <1>3, EndHandled DEF HandleDone
  <2>2. <<>> \in Seq(Events)
    OBVIOUS
  <2> QED
    BY <1>3, <2>1, <2>2 DEF HandleDone
<1>4. CASE HandleMalformed
  <2>1. Handling' /\ Open'
    BY <1>4, NothingHandled DEF HandleMalformed
  <2>2. <<>> \in Seq(Events)
    OBVIOUS
  <2> QED
    BY <1>4, <2>1, <2>2 DEF HandleMalformed
<1>5. CASE UpstreamEnds
  <2>1. Handling' /\ Open'
    BY <1>5, NothingHandled DEF UpstreamEnds
  <2> QED
    BY <1>5, <2>1 DEF UpstreamEnds
<1>6. CASE DrainDelta
  <2>1. partial \in Events
    BY <1>6 DEF DrainDelta, Maybe
  <2>2. Handling' /\ Open'
    BY <1>6, <2>1, ContentHandled, StructuralHandled DEF DrainDelta
  <2> QED
    BY <1>6, <2>2 DEF DrainDelta, Maybe
<1>7. CASE DrainNothing
  <2>1. Handling' /\ Open'
    BY <1>7, NothingHandled DEF DrainNothing
  <2> QED
    BY <1>7, <2>1 DEF DrainNothing, Maybe
<1>8. CASE Finish
  <2>1. Handling' /\ Closed'
    BY <1>8, EndHandled DEF Finish
  <2> QED
    BY <1>8, <2>1 DEF Finish
<1>9. CASE Disconnect
  <2>1. Handling' /\ Open'
    BY <1>9, NothingHandled DEF Disconnect
  <2> QED
    BY <1>9, <2>1 DEF Disconnect
<1>10. CASE UNCHANGED vars
  <2>1. Handling' /\ (Open => Open') /\ (Closed => Closed')
    BY <1>10, NothingHandled DEF vars
  <2> QED
    BY <1>10, <2>1 DEF vars
<1> QED
  BY <1>1, <1>2, <1>3, <1>4, <1>5, <1>6, <1>7, <1>8, <1>9, <1>10 DEF Next, Run
-----------------------------------------------------------------------------
\* The variables of _generate_sse keep their types, whatever the upstream sends and
\* wherever it, or the client, breaks off.
THEOREM StreamTypeCorrect == Spec => []TypeOK
<1>1. Init => SInv
  BY InitSInv
<1>2. SInv /\ [Next]_vars => SInv'
  BY StepSInv
<1>3. SInv => TypeOK
  BY WindowFacts DEF SInv, Handling, TypeOK, Items, Texts
<1> QED
  BY <1>1, <1>2, <1>3, PTL DEF Spec

\* Every character that feed and flush return is yielded to the client, in order and
\* once: the loop never has text without an event with a content slot to carry it.
THEOREM ReleasedReachesClientHolds == Spec => []ReleasedReachesClient
<1>1. Init => SInv
  BY InitSInv
<1>2. SInv /\ [Next]_vars => SInv'
  BY StepSInv
<1>3. SInv => ReleasedReachesClient
  BY DEF SInv, Handling
<1> QED
  BY <1>1, <1>2, <1>3, PTL DEF Spec

\* What _generate_sse yields is content, then at most one structural event, then at
\* most one [DONE], and nothing behind it.
THEOREM WellOrderedHolds == Spec => []WellOrdered
<1>1. Init => SInv
  BY InitSInv
<1>2. SInv /\ [Next]_vars => SInv'
  BY StepSInv
<1>3. SInv => Ordered(out)
  BY ContentHasNoStructural DEF SInv, Handling, Open, Closed
<1>4. SInv => WellOrdered
  BY <1>3 DEF Ordered, WellOrdered
<1> QED
  BY <1>1, <1>2, <1>4, PTL DEF Spec

\* On every way out of the loop over the upstream, [DONE], a malformed event, the
\* upstream's end and the client's going away, its context is left.
THEOREM ConnectionReleasedHolds == Spec => []ConnectionReleased
<1>1. Init => SInv
  BY InitSInv
<1>2. SInv /\ [Next]_vars => SInv'
  BY StepSInv
<1>3. SInv => ConnectionReleased
  BY DEF SInv
<1> QED
  BY <1>1, <1>2, <1>3, PTL DEF Spec
-----------------------------------------------------------------------------
(* The whole answer *)

\* The event under way, as a sequence.
UnderWay == IF partial = Nothing THEN <<>> ELSE <<partial>>

Malformed == {event \in Breaks : event.kind = "malformed"}

\* H is what the generator has handled: the window has had its text, and its last
\* structural event waits.
Handled(H) == received = TextOf(H) /\ structural = LastStructural(H)

\* What may be left of the upstream's events when the last one is handled: nothing;
\* one that was cut; whatever follows a break; the same, and the event under way
\* behind a malformed one was handled.
Left(H) ==
    \/ upstream = H
    \/ \E event \in Events : upstream = H \o <<event>>
    \/ \E break \in Breaks, R \in Seq(Events) : upstream = (H \o <<break>>) \o R
    \/ \E G \in Seq(Deltas), break \in Malformed, R \in Seq(Events), event \in Deltas :
          H = G \o <<event>> /\ upstream = ((G \o <<break>>) \o R) \o <<event>>

\* The same before the event under way is dealt with.
LeftToDrain(H) ==
    \/ upstream = H \o UnderWay
    \/ \E break \in Malformed, R \in Seq(Events) :
          upstream = ((H \o <<break>>) \o R) \o UnderWay

\* Where the events handled stand among those the upstream has sent.
Story(H) ==
    /\ pc = "reading" => upstream = (H \o batch) \o UnderWay
    /\ pc = "draining" => LeftToDrain(H)
    /\ pc \in {"finishing", "ended"} => Left(H)

FInv ==
    /\ SInv
    /\ ExactInv
    /\ pc # "cut" => \E H \in Seq(Deltas) : Handled(H) /\ Story(H)

LEMMA Join ==
    ASSUME NEW s \in Seq(Events), NEW t \in Seq(Events), NEW u \in Seq(Events)
    PROVE  (s \o t) \o u = s \o (t \o u) /\ s \o t \in Seq(Events) /\ s \o <<>> = s
  BY ConcatAssociative, ConcatProperties, ConcatEmptySeq, SMTT(30)

LEMMA Regroup == \A s, t, u \in Seq(Events) : s \o (t \o u) = (s \o t) \o u
  BY ConcatAssociative, SMTT(30)

LEMMA DeltaLists ==
    /\ Seq(Deltas) \subseteq Seq(Events) /\ Seq(Deltas) \subseteq Seq(Items)
    /\ Seq(Events) \subseteq Seq(Items)
  BY EventFacts, SeqWiden

\* One more event is handled.
LEMMA OneMore ==
    ASSUME SInv, NEW H \in Seq(Deltas), Handled(H), NEW event \in Events,
           TakeContent(event) \/ TakeStructural(event)
    PROVE  event \in Deltas /\ \E G \in Seq(Deltas) : G = H \o <<event>> /\ Handled(G)'
<1>1. event \in Deltas /\ event \in Items
  BY EventFacts DEF TakeContent, TakeStructural, Deltas
<1>2. H \o <<event>> \in Seq(Deltas) /\ H \in Seq(Items)
  BY <1>1, DeltaLists
<1>3. TextOf(H \o <<event>>) = TextOf(H) \o event.text
  BY <1>1, <1>2, TextOfAppend
<1>4. LastStructural(H \o <<event>>)
         = IF event.kind = "structural" THEN event ELSE LastStructural(H)
  BY <1>1, <1>2, LastStructuralAppend
<1> DEFINE G == H \o <<event>>
<1>5. CASE TakeContent(event)
  <2>1. Handled(G)'
    BY <1>3, <1>4, <1>5 DEF TakeContent, Feed, Handled
  <2> QED
    BY <1>1, <1>2, <2>1
<1>6. CASE TakeStructural(event)
  <2>1. TextOf(H) \o event.text = TextOf(H)
    <3>1. event.text = <<>> /\ TextOf(H) \in Texts
      BY <1>2, <1>6, EventText, TextOfIsText DEF TakeStructural
    <3> QED
      BY <3>1, ConcatEmptySeq DEF Texts
  <2>2. Handled(G)'
    BY <1>3, <1>4, <1>6, <2>1 DEF TakeStructural, Handled, windowVars
  <2> QED
    BY <1>1, <1>2, <2>2
<1> QED
  BY <1>5, <1>6

LEMMA NoMore ==
    ASSUME NEW H, Handled(H), UNCHANGED <<received, structural>>
    PROVE  Handled(H)'
  BY DEF Handled

LEMMA InitFInv ==
    ASSUME Init
    PROVE  FInv
<1>1. SInv /\ ExactInv
  BY InitSInv, InitWindowExact DEF Init
<1>2. <<>> \in Seq(Deltas) /\ <<>> \o <<>> = <<>>
  OBVIOUS
<1>3. Handled(<<>>)
  BY TextOfEmpty, LastStructuralEmpty DEF Handled, Init, WindowInit
<1>4. Story(<<>>)
  BY <1>2 DEF Story, Init, UnderWay
<1> QED
  BY <1>1, <1>2, <1>3, <1>4 DEF FInv

\* The network chunk.
LEMMA ReceiveStory ==
    ASSUME SInv, NEW H \in Seq(Deltas), Handled(H), Story(H),
           NEW events \in Seq(Events), NEW next \in Maybe(Events), Receive(events, next)
    PROVE  Handled(H)' /\ Story(H)'
<1> DEFINE U == UnderWay
           V == IF next = Nothing THEN <<>> ELSE <<next>>
<1>1. H \in Seq(Events) /\ U \in Seq(Events) /\ V \in Seq(Events)
  BY UnderWayTyped, DeltaLists DEF UnderWay, Maybe
<1>2. /\ UnderWay' = V /\ batch' = U \o events
      /\ upstream' = (upstream \o events) \o V
      /\ pc = "reading" /\ pc' = "reading" /\ batch = <<>>
  BY DEF Receive, UnderWay
<1>3. upstream = (H \o <<>>) \o U
  BY <1>2 DEF Story
<1> HIDE DEF U, V
<1>4. upstream = H \o U
  BY <1>1, <1>3, Join
<1>5. (H \o U) \o events = H \o (U \o events)
  BY <1>1, Join, SMTT(30)
<1>6. upstream' = (H \o batch') \o UnderWay'
  BY <1>2, <1>4, <1>5
<1>7. Handled(H)'
  BY NoMore DEF Receive, windowVars
<1> QED
  BY <1>2, <1>6, <1>7 DEF Story

\* The first event of the batch, and the rest.
LEMMA BatchStory ==
    ASSUME SInv, NEW H \in Seq(Deltas), Story(H), pc = "reading", batch # <<>>
    PROVE  /\ upstream = ((H \o <<Head(batch)>>) \o Tail(batch)) \o UnderWay
           /\ upstream = (H \o <<Head(batch)>>) \o (Tail(batch) \o UnderWay)
           /\ Tail(batch) \o UnderWay \in Seq(Events)
<1> DEFINE first == <<Head(batch)>>
           rest == Tail(batch)
           U == UnderWay
<1>1. H \in Seq(Events) /\ U \in Seq(Events) /\ first \in Seq(Events) /\ rest \in Seq(Events)
  BY BatchFacts, UnderWayTyped, DeltaLists DEF UnderWay
<1>2. upstream = (H \o (first \o rest)) \o U
  BY BatchFacts DEF Story
<1> HIDE DEF first, rest, U
<1>3. H \o (first \o rest) = (H \o first) \o rest
  BY <1>1, Regroup, ZenonT(30)
<1>4. H \o first \in Seq(Events) /\ rest \o U \in Seq(Events)
  BY <1>1, Join
<1>5. ((H \o first) \o rest) \o U = (H \o first) \o (rest \o U)
  BY <1>1, <1>4, Join, SMTT(30)
<1> QED
  BY <1>2, <1>3, <1>4, <1>5 DEF first, rest, U

LEMMA StepStory ==
    ASSUME SInv, SInv', NEW H \in Seq(Deltas), Handled(H), Story(H), [Next]_vars, pc' # "cut"
    PROVE  (\E G \in Seq(Deltas) : Handled(G) /\ Story(G))'
<1>1. ASSUME NEW events \in BoundedSeq(Events, MaxBatch), NEW next \in Maybe(Events),
             Receive(events, next)
      PROVE  Handled(H)' /\ Story(H)'
  <2>1. events \in Seq(Events)
    <3>1. PICK n \in 0..MaxBatch : events \in [1..n -> Events]
      BY StreamAssumptions DEF BoundedSeq, SeqOf
    <3> QED
      BY <3>1
  <2> QED
    BY <1>1, <2>1, ReceiveStory
<1>2. CASE HandleDelta
  <2>1. PICK event \in Events : event = Head(batch)
    BY <1>2, BatchFacts DEF HandleDelta
  <2>2. PICK G \in Seq(Deltas) : G = H \o <<event>> /\ Handled(G)'
    BY <1>2, <2>1, OneMore DEF HandleDelta
  <2>3. upstream = (G \o Tail(batch)) \o UnderWay
    <3>1. upstream = ((H \o <<Head(batch)>>) \o Tail(batch)) \o UnderWay
      BY <1>2, BatchStory DEF HandleDelta
    <3> QED
      BY <2>1, <2>2, <3>1
  <2>4. /\ upstream' = upstream /\ batch' = Tail(batch) /\ UnderWay' = UnderWay
        /\ pc' = "reading"
    BY <1>2 DEF HandleDelta, UnderWay
  <2>5. Story(G)'
    BY <2>3, <2>4 DEF Story
  <2> QED
    BY <2>2, <2>5
<1>3. CASE HandleDone
  <2>1. Handled(H)'
    BY <1>3, NoMore DEF HandleDone, Flush
  <2>2. Left(H)'
    <3>1. Head(batch) \in Breaks
      BY <1>3, BatchFacts DEF HandleDone, Breaks
    <3>2. /\ upstream = (H \o <<Head(batch)>>) \o (Tail(batch) \o UnderWay)
          /\ Tail(batch) \o UnderWay \in Seq(Events)
      BY <1>3, BatchStory DEF HandleDone
    <3>3. upstream' = upstream
      BY <1>3 DEF HandleDone
    <3> QED
      BY <3>1, <3>2, <3>3 DEF Left
  <2>3. pc' = "ended"
    BY <1>3 DEF HandleDone
  <2> QED
    BY <2>1, <2>2, <2>3 DEF Story
<1>4. CASE HandleMalformed
  <2>1. Handled(H)'
    BY <1>4, NoMore DEF HandleMalformed, windowVars
  <2>2. LeftToDrain(H)'
    <3>1. Head(batch) \in Malformed /\ Tail(batch) \in Seq(Events)
      BY <1>4, BatchFacts DEF HandleMalformed, Breaks, Malformed
    <3>2. upstream = ((H \o <<Head(batch)>>) \o Tail(batch)) \o UnderWay
      BY <1>4, BatchStory DEF HandleMalformed
    <3>3. upstream' = upstream /\ UnderWay' = UnderWay
      BY <1>4 DEF HandleMalformed, UnderWay
    <3> QED
      BY <3>1, <3>2, <3>3 DEF LeftToDrain
  <2>3. pc' = "draining"
    BY <1>4 DEF HandleMalformed
  <2> QED
    BY <2>1, <2>2, <2>3 DEF Story
<1>5. CASE UpstreamEnds
  <2>1. Handled(H)'
    BY <1>5, NoMore DEF UpstreamEnds, windowVars
  <2>2. upstream = (H \o <<>>) \o UnderWay
    BY <1>5 DEF UpstreamEnds, Story
  <2>3. H \o <<>> = H
    BY ConcatEmptySeq
  <2>4. upstream' = upstream /\ UnderWay' = UnderWay /\ pc' = "draining"
    BY <1>5 DEF UpstreamEnds, UnderWay
  <2> QED
    BY <2>1, <2>2, <2>3, <2>4 DEF Story, LeftToDrain
<1>6. CASE DrainDelta
  <2>1. PICK event \in Events : event = partial /\ UnderWay = <<event>>
    BY <1>6 DEF DrainDelta, SInv, Maybe, UnderWay
  <2>2. event \in Deltas /\ \E G \in Seq(Deltas) : G = H \o <<event>> /\ Handled(G)'
    BY <1>6, <2>1, OneMore DEF DrainDelta
  <2>3. PICK G \in Seq(Deltas) : G = H \o <<event>> /\ Handled(G)'
    BY <2>2
  <2>4. upstream' = upstream /\ LeftToDrain(H) /\ pc' = "finishing"
    BY <1>6 DEF DrainDelta, Story
  <2>5. Left(G)
    <3>1. CASE upstream = H \o <<event>>
      BY <2>3, <3>1 DEF Left
    <3>2. ASSUME NEW break \in Malformed, NEW R \in Seq(Events),
                 upstream = ((H \o <<break>>) \o R) \o <<event>>
          PROVE  Left(G)
      BY <2>2, <2>3, <3>2 DEF Left
    <3> QED
      BY <2>1, <2>4, <3>1, <3>2 DEF LeftToDrain
  <2>6. Left(G)'
    BY <2>4, <2>5 DEF Left
  <2> QED
    BY <2>3, <2>4, <2>6 DEF Story
<1>7. CASE DrainNothing
  <2>1. Handled(H)'
    BY <1>7, NoMore DEF DrainNothing, windowVars
  <2>2. upstream' = upstream /\ LeftToDrain(H) /\ pc' = "finishing"
    BY <1>7 DEF DrainNothing, Story
  <2>3. /\ UnderWay \in Seq(Events)
        /\ UnderWay # <<>> => partial \in Events /\ UnderWay = <<partial>>
    BY UnderWayTyped DEF SInv, Maybe, UnderWay
  <2>4. Left(H)'
    <3>1. CASE upstream = H \o UnderWay
      <4>1. H \o <<>> = H
        BY ConcatEmptySeq
      <4> QED
        BY <2>2, <2>3, <3>1, <4>1 DEF Left
    <3>2. ASSUME NEW break \in Malformed, NEW R \in Seq(Events),
                 upstream = ((H \o <<break>>) \o R) \o UnderWay
          PROVE  Left(H)'
      <4> DEFINE U == UnderWay
                 front == H \o <<break>>
      <4>1. break \in Breaks /\ U \in Seq(Events)
        BY <2>3 DEF Malformed
      <4>2. front \in Seq(Events)
        BY <4>1, EventFacts, DeltaLists
      <4>3. upstream = (front \o R) \o U
        BY <3>2
      <4> HIDE DEF front, U
      <4>4. upstream = front \o (R \o U) /\ R \o U \in Seq(Events)
        BY <4>1, <4>2, <4>3, Join
      <4> QED
        BY <2>2, <4>1, <4>4 DEF Left, front
    <3> QED
      BY <2>2, <3>1, <3>2 DEF LeftToDrain
  <2> QED
    BY <2>1, <2>2, <2>4 DEF Story
<1>8. CASE Finish
  <2>1. Handled(H)'
    BY <1>8, NoMore DEF Finish, Flush
  <2>2. Left(H)' /\ pc' = "ended"
    BY <1>8 DEF Finish, Story, Left
  <2> QED
    BY <2>1, <2>2 DEF Story
<1>9. CASE Disconnect
  BY <1>9 DEF Disconnect
<1>10. CASE UNCHANGED vars
  BY <1>10 DEF vars, windowVars, Handled, Story, Left, LeftToDrain, UnderWay
<1> QED
  BY <1>1, <1>2, <1>3, <1>4, <1>5, <1>6, <1>7, <1>8, <1>9, <1>10 DEF Next, Run

LEMMA StepExact ==
    ASSUME SInv, ExactInv, [Next]_vars
    PROVE  ExactInv'
<1>1. ASSUME NEW event \in Events, TakeContent(event) PROVE ExactInv'
  BY <1>1, EventText, FeedWindowExact DEF TakeContent
<1>2. ASSUME NEW event \in Events, TakeStructural(event) PROVE ExactInv'
  BY <1>2, WindowStutters DEF TakeStructural
<1>3. CASE HandleDelta
  BY <1>1, <1>2, <1>3, BatchFacts DEF HandleDelta
<1>4. CASE DrainDelta
  BY <1>1, <1>2, <1>4 DEF DrainDelta, SInv, Maybe
<1>5. CASE HandleDone \/ Finish
  BY <1>5, FlushWindowExact DEF HandleDone, Finish
<1>6. ASSUME UNCHANGED windowVars PROVE ExactInv'
  BY <1>6, WindowStutters
<1> QED
  BY <1>3, <1>4, <1>5, <1>6
     DEF Next, Run, Receive, HandleMalformed, UpstreamEnds, DrainNothing, Disconnect, vars

LEMMA StepFInv ==
    ASSUME FInv, [Next]_vars
    PROVE  FInv'
<1>1. SInv'
  BY StepSInv DEF FInv
<1>2. ExactInv'
  BY StepExact DEF FInv
<1>3. ASSUME pc' # "cut" PROVE (\E H \in Seq(Deltas) : Handled(H) /\ Story(H))'
  <2>1. pc # "cut"
    <3>1. CASE pc = "cut"
      BY <1>3, <3>1 DEF Next, Run, Receive, HandleDelta, HandleDone, HandleMalformed,
           UpstreamEnds, DrainDelta, DrainNothing, Finish, Disconnect, vars
    <3> QED
      BY <3>1
  <2>2. PICK H \in Seq(Deltas) : Handled(H) /\ Story(H)
    BY <2>1 DEF FInv
  <2> QED
    BY <1>1, <1>3, <2>2, StepStory DEF FInv
<1> QED
  BY <1>1, <1>2, <1>3 DEF FInv

\* What was handled when the stream ended is the answer, in one of three ways.
LEMMA LeftIsAnswer ==
    ASSUME upstream \in Seq(Events), NEW H \in Seq(Deltas), Left(H)
    PROVE  \/ H = Answer
           \/ Answer = upstream /\ upstream # <<>> /\ H = Front(upstream)
           \/ H = Answer \o BehindMalformed
<1>1. CASE upstream = H
  BY <1>1, AnswerWhole
<1>2. ASSUME NEW event \in Events, upstream = H \o <<event>>
      PROVE  \/ H = Answer
             \/ Answer = upstream /\ upstream # <<>> /\ H = Front(upstream)
  <2>1. CASE event \in Breaks
    <3>1. upstream = (H \o <<event>>) \o <<>>
      <4>1. H \o <<event>> \in Seq(Events)
        BY EventFacts, DeltaLists
      <4> QED
        BY <1>2, <4>1, ConcatEmptySeq
    <3>2. <<>> \in Seq(Events)
      OBVIOUS
    <3> QED
      BY <2>1, <3>1, <3>2, AnswerCut
  <2>2. CASE event \in Deltas
    <3>1. upstream \in Seq(Deltas) /\ upstream # <<>>
      BY <1>2, <2>2
    <3>2. Answer = upstream
      BY <3>1, AnswerWhole
    <3>3. H = Front(upstream)
      <4>1. Front(upstream) = SubSeq(upstream, 1, Len(H))
        BY <1>2 DEF Front
      <4>2. SubSeq(upstream, 1, Len(H)) = H
        BY <1>2
      <4> QED
        BY <4>1, <4>2
    <3> QED
      BY <3>1, <3>2, <3>3
  <2> QED
    BY <2>1, <2>2, EventFacts
<1>3. ASSUME NEW break \in Breaks, NEW R \in Seq(Events), upstream = (H \o <<break>>) \o R
      PROVE  H = Answer
  BY <1>3, AnswerCut
<1>4. ASSUME NEW G \in Seq(Deltas), NEW break \in Malformed, NEW R \in Seq(Events),
             NEW event \in Deltas,
             H = G \o <<event>>, upstream = ((G \o <<break>>) \o R) \o <<event>>
      PROVE  H = Answer \o BehindMalformed
  <2> DEFINE front == G \o <<break>>
             rest == R \o <<event>>
  <2>1. break \in Breaks /\ break.kind = "malformed" /\ front \in Seq(Events)
        /\ <<event>> \in Seq(Events)
    BY EventFacts, DeltaLists DEF Malformed
  <2>2. rest \in Seq(Events)
    BY <2>1, ConcatProperties
  <2>3. upstream = front \o rest
    <3> DEFINE last == <<event>>
    <3>1. upstream = (front \o R) \o last /\ last \in Seq(Events)
      BY <1>4, <2>1
    <3> HIDE DEF last, front
    <3> QED
      BY <2>1, <3>1, ConcatAssociative DEF last
  <2> HIDE DEF rest
  <2>4. Answer = G /\ Answer # upstream /\ upstream[Len(Answer) + 1] = break
    BY <2>1, <2>2, <2>3, AnswerCut
  <2>5. Last(upstream) = event
    <3> DEFINE most == front \o R
    <3>1. most \in Seq(Events)
      BY <2>1, ConcatProperties
    <3>2. upstream = most \o <<event>>
      BY <1>4
    <3> HIDE DEF most
    <3>3. Len(upstream) = Len(most) + 1 /\ upstream[Len(most) + 1] = event
      BY <2>1, <3>1, <3>2
    <3> QED
      BY <3>3 DEF Last
  <2>6. BehindMalformed = <<event>>
    BY <2>1, <2>4, <2>5 DEF BehindMalformed
  <2> QED
    BY <1>4, <2>4, <2>6
<1> QED
  BY <1>1, <1>2, <1>3, <1>4 DEF Left
-----------------------------------------------------------------------------
\* In what was handled, the surrogates stand apart if they do in the answer and what of
\* the rest may have been handled.
LEMMA HandledStands ==
    ASSUME upstream \in Seq(Events), NEW H \in Seq(Deltas),
           \/ H = Answer
           \/ Answer = upstream /\ upstream # <<>> /\ H = Front(upstream)
           \/ H = Answer \o BehindMalformed,
           Standing(Known, TextOf(Answer \o BehindMalformed))
    PROVE  Stands(Known, TextOf(H))
<1>1. H \in Seq(Items) /\ TextOf(H) \in Texts /\ H \o <<>> = H
  <2>1. H \in Seq(Items)
    BY DeltaLists
  <2> QED
    BY <2>1, TextOfIsText, ConcatEmptySeq
<1>2. upstream # <<>> => Last(upstream) \in Items
  BY EventFacts DEF Last
<1>3. Stands(Known, TextOf(Answer \o BehindMalformed))
  <2>1. Answer \o BehindMalformed \in Seq(Items)
    <3>1. Answer \in Seq(Items) => Answer \o BehindMalformed \in Seq(Items)
      <4>1. CASE BehindMalformed = <<>>
        BY <4>1, ConcatEmptySeq
      <4>2. CASE BehindMalformed # <<>>
        <5>1. BehindMalformed = <<Last(upstream)>> /\ Answer # upstream
          BY <4>2 DEF BehindMalformed
        <5>2. upstream = <<>> => upstream \in Seq(Deltas)
          OBVIOUS
        <5>3. upstream # <<>>
          BY <5>1, <5>2, AnswerWhole
        <5>4. <<Last(upstream)>> \in Seq(Items)
          BY <1>2, <5>3
        <5> QED
          BY <5>1, <5>4, ConcatProperties
      <4> QED
        BY <4>1, <4>2
    <3>2. upstream \in Seq(Items)
      BY DeltaLists
    <3> QED
      BY <1>1, <3>1, <3>2
  <2>2. TextOf(Answer \o BehindMalformed) \in Texts
    BY <2>1, TextOfIsText
  <2> QED
    BY <2>2, KnownFacts, StandingStands
<1>4. ASSUME NEW event \in Items, Answer \o BehindMalformed = H \o <<event>>
      PROVE  Stands(Known, TextOf(H))
  <2>1. TextOf(H \o <<event>>) = TextOf(H) \o event.text
    BY <1>1, TextOfAppend
  <2>2. event.text \in Texts /\ Stands(Known, TextOf(H) \o event.text)
    BY <1>4, <1>3, <2>1 DEF Items
  <2> QED
    BY <1>1, <2>2, KnownFacts, StandsFront
<1>5. CASE H = Answer
  <2>1. CASE BehindMalformed = <<>>
    BY <1>1, <1>5, <1>3, <2>1
  <2>2. CASE BehindMalformed # <<>>
    <3>1. BehindMalformed = <<Last(upstream)>> /\ Answer # upstream
      BY <2>2 DEF BehindMalformed
    <3>2. upstream # <<>>
      <4>1. upstream = <<>> => upstream \in Seq(Deltas)
        OBVIOUS
      <4> QED
        BY <3>1, <4>1, AnswerWhole
    <3> QED
      BY <1>4, <1>2, <1>5, <3>1, <3>2
  <2> QED
    BY <2>1, <2>2
<1>6. CASE Answer = upstream /\ upstream # <<>> /\ H = Front(upstream)
  <2>1. upstream = H \o <<Last(upstream)>>
    BY <1>6 DEF Front, Last
  <2>2. BehindMalformed = <<>> /\ upstream \o <<>> = upstream
    BY <1>6, ConcatEmptySeq DEF BehindMalformed
  <2>3. Answer \o BehindMalformed = upstream
    BY <1>6, <2>2
  <2> QED
    BY <1>4, <1>2, <1>6, <2>1, <2>3
<1>7. CASE H = Answer \o BehindMalformed
  BY <1>3, <1>7
<1> QED
  BY <1>5, <1>6, <1>7

\* A stream that ends by itself has delivered the upstream's answer, rehydrated as a
\* whole, and its structural event, however the answer was cut into events and batches;
\* if the upstream was cut, all but its last event (_generate_sse).  So for every
\* registry, and every answer in which the surrogates stand apart.
THEOREM WholeAnswerHolds == Spec => []WholeAnswer
<1>1. Init => FInv
  BY InitFInv
<1>2. FInv /\ [Next]_vars => FInv'
  BY StepFInv
<1>3. ASSUME FInv, pc = "ended", Standing(Known, TextOf(Answer \o BehindMalformed))
      PROVE  \/ Delivered(Answer)
             \/ Answer = upstream /\ upstream # <<>> /\ Delivered(Front(upstream))
             \/ Delivered(Answer \o BehindMalformed)
  <2>1. PICK H \in Seq(Deltas) : Handled(H) /\ Story(H)
    BY <1>3 DEF FInv
  <2>2. \/ H = Answer
        \/ Answer = upstream /\ upstream # <<>> /\ H = Front(upstream)
        \/ H = Answer \o BehindMalformed
    BY <1>3, <2>1, LeftIsAnswer DEF FInv, SInv, Story
  <2>3. Stands(Known, received)
    <3>1. Stands(Known, TextOf(H))
      BY <1>3, <2>2, HandledStands DEF FInv, SInv
    <3> QED
      BY <2>1, <3>1 DEF Handled
  <2>4. Delivered(H)
    <3>1. flushed /\ LastStructural(out) = structural /\ TextOf(out) = released
      BY <1>3 DEF FInv, SInv, Closed, Handling, ReleasedReachesClient
    <3>2. released = Transform(received)
      BY <1>3, <2>3, <3>1 DEF FInv, ExactInv, Restored
    <3> QED
      BY <2>1, <3>1, <3>2 DEF Delivered, Handled
  <2> QED
    BY <2>2, <2>4
<1>4. FInv => WholeAnswer
  BY <1>3 DEF WholeAnswer
<1> QED
  BY <1>1, <1>2, <1>4, PTL DEF Spec

\* In the answer that a client of _generate_sse has at the end no surrogate of the
\* session stands anywhere, however the upstream's chunks, events and batches cut it, if
\* the surrogates stand apart in what was received.
THEOREM NoSurrogateDelivered ==
    Spec => [](pc = "ended" /\ Standing(Known, received) => Free(Known, TextOf(out)))
<1>1. Init => FInv
  BY InitFInv
<1>2. FInv /\ [Next]_vars => FInv'
  BY StepFInv
<1>3. ASSUME FInv, pc = "ended", Standing(Known, received)
      PROVE  Free(Known, TextOf(out))
  <2>1. flushed /\ TextOf(out) = released
    BY <1>3 DEF FInv, SInv, Closed, Handling, ReleasedReachesClient
  <2>2. received \in Texts
    BY <1>3, WindowFacts DEF FInv, ExactInv
  <2>3. Stands(Known, received)
    BY <1>3, <2>2, KnownFacts, StandingStands
  <2>4. released = Rehydrate(Known, received)
    BY <1>3, <2>1, <2>3 DEF FInv, ExactInv, Restored, Transform
  <2> QED
    BY <2>1, <2>2, <2>3, <2>4, KnownFacts, NoneLeft
<1>4. FInv => (pc = "ended" /\ Standing(Known, received) => Free(Known, TextOf(out)))
  BY <1>3
<1> QED
  BY <1>1, <1>2, <1>4, PTL DEF Spec
=============================================================================
