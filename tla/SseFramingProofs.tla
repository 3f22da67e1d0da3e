------------------------- MODULE SseFramingProofs -------------------------
(***************************************************************************)
(* The theorem of module SseFraming: for any characters, any name of the   *)
(* data field, any response and any cuts, the two machines find the events *)
(* that the reference finds by their places in the whole text.             *)
(*                                                                         *)
(* The invariant (Agrees) relates each part of the machines' state to a    *)
(* place in the text: the line under way, the data lines since the last    *)
(* blank one, the events.  It is shown for one character more, by what the *)
(* reference makes of a text that has grown by it: nothing before a place  *)
(* depends on what is behind it.  A chunk is then an induction over its    *)
(* characters, and the end of the response is as good as two LF.           *)
(***************************************************************************)
EXTENDS SseFraming, SequenceTheorems, FiniteSetTheorems, TLAPS

(* Induction, by the least element of a set of numbers, and the folds *)

\* Every set of numbers that is not empty has a least element.
LEMMA LeastNatural ==
    ASSUME NEW S \in SUBSET Nat, S # {}
    PROVE  \E m \in S : \A k \in S : m <= k
<1> DEFINE T == {0..k : k \in S}
<1>1. T \subseteq FiniteSubsetsOf(Nat)
  <2>1. \A k \in S : IsFiniteSet(0..k) /\ 0..k \subseteq Nat
    BY FS_Interval
  <2> QED
    BY <2>1 DEF FiniteSubsetsOf
<1>2. PICK x \in T : \A y \in T : <<y, x>> \notin StrictSubsetOrdering(Nat)
  <2>1. T # {}
    OBVIOUS
  <2> HIDE DEF T
  <2> QED
    BY <1>1, <2>1, FS_StrictSubsetOrderingWellFounded, WFMin
<1>3. PICK m \in S : x = 0..m
  OBVIOUS
<1>4. ASSUME NEW k \in S, k < m PROVE FALSE
  <2>1. 0..k \in T /\ 0..k \subseteq 0..m /\ 0..k # 0..m
    BY <1>4
  <2>2. 0..k \subseteq Nat /\ 0..m \subseteq Nat
    OBVIOUS
  <2>3. <<0..k, x>> \in StrictSubsetOrdering(Nat)
    BY <1>3, <2>1, <2>2 DEF StrictSubsetOrdering
  <2> QED
    BY <1>2, <2>1, <2>3
<1> QED
  BY <1>4

\* Induction up to m, over a set rather than a predicate.
LEMMA Upward ==
    ASSUME NEW m \in Nat, NEW S, 0 \in S, \A n \in 1..m : n - 1 \in S => n \in S
    PROVE  0..m \subseteq S
<1> DEFINE Missed == (0..m) \ S
<1> SUFFICES ASSUME Missed # {} PROVE FALSE
  OBVIOUS
<1>1. PICK n \in Missed : \A k \in Missed : n <= k
  <2>1. Missed \in SUBSET Nat
    OBVIOUS
  <2> HIDE DEF Missed
  <2> QED
    BY <2>1, LeastNatural
<1>2. n \in 1..m /\ n - 1 \in 0..m /\ n - 1 \notin Missed
  BY <1>1
<1> QED
  BY <1>2

\* A set of places in a sequence has a last one.
LEMMA LastPlace ==
    ASSUME NEW m \in Nat, NEW S \in SUBSET (1..m), S # {}
    PROVE  Max(S) \in S /\ \A i \in S : i <= Max(S)
<1> DEFINE gaps == {m - i : i \in S}
<1>1. PICK g \in gaps : \A k \in gaps : g <= k
  <2>1. \A i \in S : m - i \in Nat
    OBVIOUS
  <2>2. gaps \in SUBSET Nat /\ gaps # {}
    BY <2>1
  <2> HIDE DEF gaps
  <2> QED
    BY <2>2, LeastNatural
<1>2. PICK last \in S : g = m - last
  OBVIOUS
<1>3. \A i \in S : last >= i
  <2> TAKE i \in S
  <2>1. g <= m - i
    BY <1>1
  <2> QED
    BY <1>2, <2>1
<1>4. \A i \in S : Max(S) >= i /\ Max(S) \in S
  BY <1>3 DEF Max
<1> QED
  BY <1>4

\* The one that is not exceeded is the last.
LEMMA MaxIs ==
    ASSUME NEW S \in SUBSET Nat, NEW last \in S, \A i \in S : i <= last
    PROVE  Max(S) = last
<1>1. \E i \in S : \A j \in S : i >= j
  OBVIOUS
<1>2. Max(S) \in S /\ \A j \in S : Max(S) >= j
  BY <1>1 DEF Max
<1>3. Max(S) <= last /\ Max(S) >= last /\ Max(S) \in Nat
  BY <1>2
<1> QED
  BY <1>3

\* The functions that satisfy the recursion a fold over the places of a list is.
Recursions(n, V, base, step) ==
    {f \in [SUBSET (1..n) -> V] :
        \A S \in SUBSET (1..n) :
            f[S] = IF S = {} THEN base ELSE step[<<f[S \ {Max(S)}], Max(S)>>]}

\* There is one.
LEMMA FoldExists ==
    ASSUME NEW n \in Nat, NEW V, NEW base \in V, NEW step \in [V \X (1..n) -> V]
    PROVE  Recursions(n, V, base, step) # {}
<1> DEFINE P == SUBSET (1..n)
           Going(f, S) == IF S = {} THEN base ELSE step[<<f[S \ {Max(S)}], Max(S)>>]
           Solves(f, k) == \A S \in P : (\A i \in S : i <= k) => f[S] = Going(f, S)
           Solved == {k \in 0..n : \E f \in [P -> V] : Solves(f, k)}
<1>1. \A S \in P : S # {} => Max(S) \in 1..n /\ Max(S) \in S /\ \A i \in S : i <= Max(S)
  BY LastPlace
<1>2. \A f \in [P -> V], S \in P : Going(f, S) \in V
  <2> TAKE f \in [P -> V], S \in P
  <2>1. CASE S = {}
    BY <2>1
  <2>2. CASE S # {}
    <3>1. Max(S) \in 1..n /\ S \ {Max(S)} \in P
      BY <1>1, <2>2
    <3> QED
      BY <2>2, <3>1
  <2> QED
    BY <2>1, <2>2
<1>3. 0 \in Solved
  <2> DEFINE f == [S \in P |-> base]
  <2>1. f \in [P -> V]
    OBVIOUS
  <2>2. \A S \in P : (\A i \in S : i <= 0) => S = {}
    OBVIOUS
  <2>3. Solves(f, 0)
    BY <2>2
  <2> HIDE DEF f, Solves
  <2> QED
    BY <2>1, <2>3
<1>4. ASSUME NEW k \in 1..n, k - 1 \in Solved PROVE k \in Solved
  <2>1. PICK f \in [P -> V] : Solves(f, k - 1)
    <3> HIDE DEF Solves
    <3> QED
      BY <1>4
  <2> DEFINE g == [S \in P |-> Going(f, S)]
  <2>2. g \in [P -> V]
    <3> HIDE DEF Going, P
    <3> QED
      BY <1>2
  <2>3. \A S \in P : (\A i \in S : i <= k - 1) => g[S] = f[S]
    BY <2>1
  <2>4. \A S \in P : g[S] = Going(f, S)
    OBVIOUS
  <2> HIDE DEF g
  <2>5. ASSUME NEW S \in P, \A i \in S : i <= k
        PROVE  g[S] = Going(g, S)
    <3>1. CASE S = {}
      BY <2>4, <3>1
    <3>2. CASE S # {}
      <4> DEFINE T == S \ {Max(S)}
      <4>1. T \in P /\ \A i \in T : i <= k - 1
        <5>1. Max(S) \in S /\ Max(S) \in 1..n /\ \A i \in S : i <= Max(S) /\ i \in 1..n
          BY <1>1, <3>2
        <5>2. ASSUME NEW i \in T PROVE i <= k - 1
          <6>1. i # Max(S) /\ i <= Max(S) /\ Max(S) <= k /\ i \in 1..n
            BY <2>5, <5>1
          <6> HIDE DEF T
          <6> QED
            BY <5>1, <6>1
        <5> QED
          BY <5>2
      <4>2. g[T] = f[T]
        BY <2>3, <4>1
      <4> QED
        BY <2>4, <3>2, <4>2
    <3> QED
      BY <3>1, <3>2
  <2>6. Solves(g, k)
    <3> HIDE DEF Going
    <3> QED
      BY <2>5
  <2>7. k \in 0..n
    OBVIOUS
  <2> HIDE DEF Solves
  <2> QED
    BY <2>2, <2>6, <2>7
<1>5. n \in Solved
  <2> HIDE DEF Solved
  <2> QED
    BY <1>3, <1>4, Upward
<1> HIDE DEF Solves
<1>6. PICK f \in [P -> V] : Solves(f, n)
  BY <1>5
<1>7. \A S \in P : \A i \in S : i <= n
  OBVIOUS
<1>8. \A S \in P : f[S] = Going(f, S)
  <2> HIDE DEF Going, P
  <2> QED
    BY <1>6, <1>7 DEF Solves
<1> QED
  BY <1>8 DEF Recursions
-----------------------------------------------------------------------------
LineChars == Chars \ {Cr, Lf}
Lines == Seq(LineChars)

\* The prefixes of a list of places.
LEMMA PlacesUpTo ==
    ASSUME NEW n \in Nat, NEW k \in 1..n
    PROVE  /\ 1..k \in SUBSET (1..n) /\ 1..k # {}
           /\ Max(1..k) = k /\ (1..k) \ {k} = 1..(k - 1)
<1>1. 1..k \in SUBSET Nat /\ k \in 1..k /\ \A i \in 1..k : i <= k
  OBVIOUS
<1>2. Max(1..k) = k
  BY <1>1, MaxIs
<1>3. (1..k) \ {k} = 1..(k - 1)
  OBVIOUS
<1>4. 1..k \in SUBSET (1..n) /\ 1..k # {}
  OBVIOUS
<1> QED
  BY <1>2, <1>3, <1>4
-----------------------------------------------------------------------------
(* The line splitter, character by character *)

Splitters == [buffer : Lines, pendingCr : BOOLEAN, lines : Seq(Lines)]

\* A character leaves the splitter a splitter.
LEMMA ReadTyped == \A s \in Splitters, ch \in Chars : Read(s, ch) \in Splitters
<1> TAKE s \in Splitters, ch \in Chars
<1>1. s.buffer \in Lines /\ s.pendingCr \in BOOLEAN /\ s.lines \in Seq(Lines)
  BY DEF Splitters
<1>2. CASE s.pendingCr /\ ch = Lf
  <2>1. Read(s, ch) = [s EXCEPT !.pendingCr = FALSE]
    BY <1>2, FramingAssumptions DEF Read
  <2> QED
    BY <2>1 DEF Splitters
<1>3. CASE ch = Cr \/ (ch = Lf /\ ~s.pendingCr)
  <2>1. Read(s, ch) =
          [buffer |-> <<>>, pendingCr |-> ch = Cr, lines |-> Append(s.lines, s.buffer)]
    BY <1>3, FramingAssumptions DEF Read
  <2>2. Append(s.lines, s.buffer) \in Seq(Lines) /\ <<>> \in Lines
    BY <1>1 DEF Lines
  <2> QED
    BY <2>1, <2>2 DEF Splitters
<1>4. CASE ch \in LineChars
  <2>1. Read(s, ch) = [s EXCEPT !.buffer = Append(@, ch), !.pendingCr = FALSE]
    BY <1>4 DEF Read, LineChars
  <2>2. Append(s.buffer, ch) \in Lines
    BY <1>1, <1>4 DEF Lines
  <2> QED
    BY <2>1, <2>2 DEF Splitters
<1> QED
  BY <1>2, <1>3, <1>4 DEF LineChars

\* The function behind the fold of Split: the splitter behind each set of places.
ReadFrom(s, text) ==
    CHOOSE iter : iter = [S \in SUBSET (DOMAIN text) |->
        IF S = {} THEN s ELSE Read(iter[S \ {Max(S)}], text[Max(S)])]

LEMMA SplitIsReading ==
    \A chunk : Split(chunk) =
        ReadFrom([buffer |-> buffer, pendingCr |-> pendingCr, lines |-> <<>>], chunk)
            [DOMAIN chunk]
  BY DEF Split, FoldLeft, MapThenFoldSet, ReadFrom

\* It reads one character after another.
LEMMA Reading ==
    ASSUME NEW s \in Splitters, NEW text \in Seq(Chars)
    PROVE  /\ ReadFrom(s, text)[1..0] = s
           /\ \A k \in 1..Len(text) :
                 ReadFrom(s, text)[1..k] = Read(ReadFrom(s, text)[1..(k - 1)], text[k])
           /\ \A k \in 0..Len(text) : ReadFrom(s, text)[1..k] \in Splitters
<1> DEFINE n == Len(text)
           P == SUBSET (1..n)
           step == [p \in Splitters \X (1..n) |-> Read(p[1], text[p[2]])]
           Going(f) == [S \in P |-> IF S = {} THEN s ELSE Read(f[S \ {Max(S)}], text[Max(S)])]
           iter == ReadFrom(s, text)
<1>1. n \in Nat /\ DOMAIN text = 1..n /\ \A i \in 1..n : text[i] \in Chars
  BY ElementOfSeq
<1> HIDE DEF n
<1>2. step \in [Splitters \X (1..n) -> Splitters]
  BY <1>1, ReadTyped
<1>3. \A v \in Splitters, i \in 1..n : step[<<v, i>>] = Read(v, text[i])
  OBVIOUS
<1>4. \A S \in P : S # {} => Max(S) \in 1..n /\ S \ {Max(S)} \in P
  BY <1>1, LastPlace
<1> HIDE DEF step
<1>5. PICK f \in [P -> Splitters] :
        \A S \in P : f[S] = IF S = {} THEN s ELSE step[<<f[S \ {Max(S)}], Max(S)>>]
  <2>1. n \in Nat /\ s \in Splitters
    BY <1>1
  <2>2. Recursions(n, Splitters, s, step) # {}
    BY <1>2, <2>1, FoldExists
  <2>3. \A f \in Recursions(n, Splitters, s, step) :
          /\ f \in [P -> Splitters]
          /\ \A S \in P : f[S] = IF S = {} THEN s ELSE step[<<f[S \ {Max(S)}], Max(S)>>]
    BY DEF Recursions
  <2> QED
    BY <2>2, <2>3
<1>6. \A S \in P : f[S] = IF S = {} THEN s ELSE Read(f[S \ {Max(S)}], text[Max(S)])
  <2> TAKE S \in P
  <2>1. CASE S = {}
    BY <1>5, <2>1
  <2>2. CASE S # {}
    <3> DEFINE m == Max(S)
               T == S \ {m}
    <3>1. m \in 1..n /\ T \in P
      BY <1>4, <2>2
    <3>2. f[S] = step[<<f[T], m>>]
      BY <1>5, <2>2
    <3> HIDE DEF m, T
    <3>3. f[T] \in Splitters
      BY <1>5, <3>1
    <3>4. f[S] = Read(f[T], text[m])
      BY <1>3, <3>1, <3>2, <3>3
    <3> QED
      BY <2>2, <3>4 DEF m, T
  <2> QED
    BY <2>1, <2>2
<1>7. f = Going(f)
  BY <1>5, <1>6
<1>8. iter = Going(iter)
  BY <1>1, <1>7 DEF ReadFrom
<1> HIDE DEF iter
<1>9. iter[1..0] = s
  <2>1. 1..0 = {} /\ {} \in P
    OBVIOUS
  <2> QED
    BY <1>8, <2>1
<1>10. ASSUME NEW k \in 1..n PROVE iter[1..k] = Read(iter[1..(k - 1)], text[k])
  <2>1. 1..k \in P /\ 1..k # {} /\ Max(1..k) = k /\ (1..k) \ {k} = 1..(k - 1)
    <3>1. n \in Nat
      BY <1>1
    <3> QED
      BY <3>1, PlacesUpTo
  <2> DEFINE S == 1..k
  <2>2. S \in P /\ S # {} /\ Max(S) = k /\ S \ {k} = 1..(k - 1)
    BY <2>1
  <2> HIDE DEF S
  <2>3. iter[S] = Read(iter[S \ {Max(S)}], text[Max(S)])
    BY <1>8, <2>2
  <2> QED
    BY <2>2, <2>3 DEF S
<1> DEFINE Typed == {k \in 0..n : iter[1..k] \in Splitters}
<1>11. 0 \in Typed
  BY <1>1, <1>9
<1>12. ASSUME NEW k \in 1..n, k - 1 \in Typed PROVE k \in Typed
  <2>1. iter[1..(k - 1)] \in Splitters /\ text[k] \in Chars /\ k \in 0..n
    BY <1>1, <1>12
  <2> QED
    BY <1>10, <2>1, ReadTyped
<1>13. 0..n \subseteq Typed
  <2> HIDE DEF Typed
  <2> QED
    BY <1>1, <1>11, <1>12, Upward
<1> QED
  BY <1>9, <1>10, <1>13 DEF iter, n
-----------------------------------------------------------------------------
(* The parser, line by line *)

\* What an event can hold.
Joinings == {Joined(lines) : lines \in Seq(Lines)}

Parsers == [data : Seq(Lines), events : Seq(Joinings)]

LEMMA ValueTyped == \A line \in Lines : ValueOf(line) \in Lines
<1> TAKE line \in Lines
<1> DEFINE from == Len(DataField) + 1
           value == SubSeq(line, from, Len(line))
<1>1. Len(line) \in Nat /\ from \in Nat /\ from >= 1 /\ \A i \in 1..Len(line) : line[i] \in LineChars
  BY FramingAssumptions, ElementOfSeq DEF Lines
<1>2. value \in Lines
  <2> HIDE DEF from
  <2> QED
    BY <1>1, SubSeqProperties DEF Lines
<1>3. value # <<>> => Tail(value) \in Lines
  <2> HIDE DEF value
  <2> QED
    BY <1>2, HeadTailProperties DEF Lines
<1> QED
  BY <1>2, <1>3 DEF ValueOf

LEMMA DispatchTyped == \A p \in Parsers : Dispatch(p) \in Parsers
<1> TAKE p \in Parsers
<1>1. p.data \in Seq(Lines) /\ p.events \in Seq(Joinings)
  BY DEF Parsers
<1>2. Joined(p.data) \in Joinings
  BY <1>1 DEF Joinings
<1>3. Append(p.events, Joined(p.data)) \in Seq(Joinings) /\ <<>> \in Seq(Lines)
  BY <1>1, <1>2
<1> QED
  BY <1>3 DEF Dispatch, Parsers

\* A blank line names no field.
LEMMA BlankIsNoData == ~IsPrefix(DataField, <<>>)
<1>1. Len(DataField) \in Nat /\ Len(DataField) # 0
  BY FramingAssumptions, EmptySeq
<1> QED
  BY <1>1 DEF IsPrefix

\* A line leaves the parser a parser.
LEMMA HandleTyped == \A p \in Parsers, line \in Lines : HandleLine(p, line) \in Parsers
<1> TAKE p \in Parsers, line \in Lines
<1>1. CASE line = <<>>
  <2>1. HandleLine(p, line) = Dispatch(p)
    BY <1>1, BlankIsNoData DEF HandleLine
  <2> QED
    BY <2>1, DispatchTyped
<1>2. CASE line # <<>> /\ IsPrefix(DataField, line)
  <2>1. HandleLine(p, line) = [p EXCEPT !.data = Append(@, ValueOf(line))]
    BY <1>2 DEF HandleLine
  <2>2. p.data \in Seq(Lines) /\ ValueOf(line) \in Lines
    BY ValueTyped DEF Parsers
  <2>3. Append(p.data, ValueOf(line)) \in Seq(Lines)
    BY <2>2
  <2> QED
    BY <2>1, <2>3 DEF Parsers
<1>3. CASE line # <<>> /\ ~IsPrefix(DataField, line)
  BY <1>3 DEF HandleLine
<1> QED
  BY <1>1, <1>2, <1>3

\* The function behind the fold of Handle.
HandleFrom(p, lines) ==
    CHOOSE iter : iter = [S \in SUBSET (DOMAIN lines) |->
        IF S = {} THEN p ELSE HandleLine(iter[S \ {Max(S)}], lines[Max(S)])]

LEMMA HandleIsHandling ==
    \A lines : Handle(lines) =
        HandleFrom([data |-> dataLines, events |-> <<>>], lines)[DOMAIN lines]
  BY DEF Handle, FoldLeft, MapThenFoldSet, HandleFrom

\* It handles one line after another.
LEMMA Handling ==
    ASSUME NEW p \in Parsers, NEW lines \in Seq(Lines)
    PROVE  /\ HandleFrom(p, lines)[1..0] = p
           /\ \A k \in 1..Len(lines) :
                 HandleFrom(p, lines)[1..k] = HandleLine(HandleFrom(p, lines)[1..(k - 1)], lines[k])
           /\ \A k \in 0..Len(lines) : HandleFrom(p, lines)[1..k] \in Parsers
<1> DEFINE n == Len(lines)
           P == SUBSET (1..n)
           step == [q \in Parsers \X (1..n) |-> HandleLine(q[1], lines[q[2]])]
           Going(f) == [S \in P |-> IF S = {} THEN p ELSE HandleLine(f[S \ {Max(S)}], lines[Max(S)])]
           iter == HandleFrom(p, lines)
<1>1. n \in Nat /\ DOMAIN lines = 1..n /\ \A i \in 1..n : lines[i] \in Lines
  BY ElementOfSeq
<1> HIDE DEF n
<1>2. step \in [Parsers \X (1..n) -> Parsers]
  BY <1>1, HandleTyped
<1>3. \A v \in Parsers, i \in 1..n : step[<<v, i>>] = HandleLine(v, lines[i])
  OBVIOUS
<1>4. \A S \in P : S # {} => Max(S) \in 1..n /\ S \ {Max(S)} \in P
  BY <1>1, LastPlace
<1> HIDE DEF step
<1>5. PICK f \in [P -> Parsers] :
        \A S \in P : f[S] = IF S = {} THEN p ELSE step[<<f[S \ {Max(S)}], Max(S)>>]
  <2>1. n \in Nat /\ p \in Parsers
    BY <1>1
  <2>2. Recursions(n, Parsers, p, step) # {}
    BY <1>2, <2>1, FoldExists
  <2>3. \A f \in Recursions(n, Parsers, p, step) :
          /\ f \in [P -> Parsers]
          /\ \A S \in P : f[S] = IF S = {} THEN p ELSE step[<<f[S \ {Max(S)}], Max(S)>>]
    BY DEF Recursions
  <2> QED
    BY <2>2, <2>3
<1>6. \A S \in P : f[S] = IF S = {} THEN p ELSE HandleLine(f[S \ {Max(S)}], lines[Max(S)])
  <2> TAKE S \in P
  <2>1. CASE S = {}
    BY <1>5, <2>1
  <2>2. CASE S # {}
    <3> DEFINE m == Max(S)
               T == S \ {m}
    <3>1. m \in 1..n /\ T \in P
      BY <1>4, <2>2
    <3>2. f[S] = step[<<f[T], m>>]
      BY <1>5, <2>2
    <3> HIDE DEF m, T
    <3>3. f[T] \in Parsers
      BY <1>5, <3>1
    <3>4. f[S] = HandleLine(f[T], lines[m])
      BY <1>3, <3>1, <3>2, <3>3
    <3> QED
      BY <2>2, <3>4 DEF m, T
  <2> QED
    BY <2>1, <2>2
<1>7. f = Going(f)
  BY <1>5, <1>6
<1>8. iter = Going(iter)
  BY <1>1, <1>7 DEF HandleFrom
<1> HIDE DEF iter
<1>9. iter[1..0] = p
  <2>1. 1..0 = {} /\ {} \in P
    OBVIOUS
  <2> QED
    BY <1>8, <2>1
<1>10. ASSUME NEW k \in 1..n PROVE iter[1..k] = HandleLine(iter[1..(k - 1)], lines[k])
  <2>1. 1..k \in P /\ 1..k # {} /\ Max(1..k) = k /\ (1..k) \ {k} = 1..(k - 1)
    <3>1. n \in Nat
      BY <1>1
    <3> QED
      BY <3>1, PlacesUpTo
  <2> DEFINE S == 1..k
  <2>2. S \in P /\ S # {} /\ Max(S) = k /\ S \ {k} = 1..(k - 1)
    BY <2>1
  <2> HIDE DEF S
  <2>3. iter[S] = HandleLine(iter[S \ {Max(S)}], lines[Max(S)])
    BY <1>8, <2>2
  <2> QED
    BY <2>2, <2>3 DEF S
<1> DEFINE Typed == {k \in 0..n : iter[1..k] \in Parsers}
<1>11. 0 \in Typed
  BY <1>1, <1>9
<1>12. ASSUME NEW k \in 1..n, k - 1 \in Typed PROVE k \in Typed
  <2>1. iter[1..(k - 1)] \in Parsers /\ lines[k] \in Lines /\ k \in 0..n
    BY <1>1, <1>12
  <2> QED
    BY <1>10, <2>1, HandleTyped
<1>13. 0..n \subseteq Typed
  <2> HIDE DEF Typed
  <2> QED
    BY <1>1, <1>11, <1>12, Upward
<1> QED
  BY <1>9, <1>10, <1>13 DEF iter, n

\* What the parser makes of no line, and of one more.
LEMMA HandleStep ==
    ASSUME dataLines \in Seq(Lines)
    PROVE  /\ Handle(<<>>) = [data |-> dataLines, events |-> <<>>]
           /\ \A lines \in Seq(Lines) :
                 /\ Handle(lines) \in Parsers
                 /\ \A line \in Lines :
                       Handle(Append(lines, line)) = HandleLine(Handle(lines), line)
<1> DEFINE p == [data |-> dataLines, events |-> <<>>]
<1>1. p \in Parsers
  BY DEF Parsers
<1>2. \A lines : Handle(lines) = HandleFrom(p, lines)[DOMAIN lines]
  BY HandleIsHandling
<1> HIDE DEF p
<1>3. Handle(<<>>) = p
  <2>1. <<>> \in Seq(Lines) /\ DOMAIN <<>> = 1..0
    OBVIOUS
  <2> QED
    BY <1>1, <1>2, <2>1, Handling
<1>4. ASSUME NEW lines \in Seq(Lines)
      PROVE  /\ Handle(lines) \in Parsers
             /\ \A line \in Lines : Handle(Append(lines, line)) = HandleLine(Handle(lines), line)
  <2> DEFINE n == Len(lines)
             before == HandleFrom(p, lines)
  <2>1. n \in Nat /\ DOMAIN lines = 1..n /\ n \in 0..n
    OBVIOUS
  <2>2. /\ before[1..0] = p
        /\ \A k \in 1..n : before[1..k] = HandleLine(before[1..(k - 1)], lines[k])
        /\ \A k \in 0..n : before[1..k] \in Parsers
    BY <1>1, Handling
  <2>3. Handle(lines) = before[1..n]
    BY <1>2, <2>1
  <2> HIDE DEF before
  <2>4. ASSUME NEW line \in Lines
        PROVE  Handle(Append(lines, line)) = HandleLine(Handle(lines), line)
    <3> DEFINE more == Append(lines, line)
               after == HandleFrom(p, more)
    <3>1. /\ more \in Seq(Lines) /\ Len(more) = n + 1 /\ DOMAIN more = 1..(n + 1)
          /\ \A k \in 1..n : more[k] = lines[k]
          /\ more[n + 1] = line
      OBVIOUS
    <3>2. /\ after[1..0] = p
          /\ \A k \in 1..Len(more) : after[1..k] = HandleLine(after[1..(k - 1)], more[k])
      <4> HIDE DEF more
      <4> QED
        BY <1>1, <3>1, Handling
    <3>3. Handle(more) = after[1..(n + 1)]
      BY <1>2, <3>1
    <3> HIDE DEF more, after, n
    <3> DEFINE Same == {k \in 0..n : after[1..k] = before[1..k]}
    <3>4. 0 \in Same
      BY <2>1, <2>2, <3>2
    <3>5. ASSUME NEW k \in 1..n, k - 1 \in Same PROVE k \in Same
      <4>1. k \in 1..Len(more) /\ k \in 0..n /\ more[k] = lines[k]
        BY <2>1, <3>1
      <4>2. after[1..(k - 1)] = before[1..(k - 1)]
        BY <3>5
      <4>3. after[1..k] = HandleLine(before[1..(k - 1)], lines[k])
        BY <3>2, <4>1, <4>2
      <4> QED
        BY <2>2, <4>1, <4>3
    <3>6. 0..n \subseteq Same
      <4> HIDE DEF Same
      <4> QED
        BY <2>1, <3>4, <3>5, Upward
    <3>7. after[1..n] = before[1..n]
      BY <2>1, <3>6
    <3>8. n + 1 \in 1..Len(more) /\ (n + 1) - 1 = n
      BY <2>1, <3>1
    <3>9. after[1..(n + 1)] = HandleLine(after[1..n], line)
      BY <3>1, <3>2, <3>8
    <3> QED
      BY <2>3, <3>3, <3>7, <3>9 DEF more
  <2> QED
    BY <2>1, <2>2, <2>3, <2>4
<1> QED
  BY <1>3, <1>4 DEF p
-----------------------------------------------------------------------------
(* Places in their order *)

LEMMA PlacesAreFinite ==
    ASSUME NEW n \in Nat, NEW P \in SUBSET (1..n)
    PROVE  IsFiniteSet(P) /\ Cardinality(P) \in Nat
<1>1. IsFiniteSet(1..n)
  BY FS_Interval
<1>2. IsFiniteSet(P)
  BY <1>1, FS_Subset
<1> QED
  BY <1>2, FS_CardinalityType

LEMMA InOrderOfNone == InOrder({}) = <<>> /\ DOMAIN InOrder({}) = {}
<1>1. Cardinality({}) = 0
  BY FS_EmptySet
<1> QED
  BY <1>1 DEF InOrder

\* One more place, behind the others, comes last.
LEMMA InOrderOfOneMore ==
    ASSUME NEW n \in Nat, NEW P \in SUBSET (1..n), NEW m \in Nat, m > n
    PROVE  /\ DOMAIN InOrder(P) = 1..Cardinality(P)
           /\ DOMAIN InOrder(P \cup {m}) = 1..(Cardinality(P) + 1)
           /\ \A k \in 1..Cardinality(P) : InOrder(P \cup {m})[k] = InOrder(P)[k]
           /\ InOrder(P \cup {m})[Cardinality(P) + 1] = m
<1> DEFINE more == P \cup {m}
           c == Cardinality(P)
           before(Q, i) == {j \in Q : j <= i}
<1>1. IsFiniteSet(P) /\ c \in Nat /\ m \notin P /\ \A i \in P : i < m /\ i \in Nat
  BY PlacesAreFinite
<1>2. Cardinality(more) = c + 1
  BY <1>1, FS_AddElement
<1>3. \A i \in P : before(more, i) = before(P, i)
  BY <1>1
<1>4. before(more, m) = more
  <2>1. \A j \in more : j <= m
    BY <1>1
  <2> HIDE DEF more
  <2> QED
    BY <2>1
<1>5. \A i \in P : Cardinality(before(P, i)) \in Nat /\ Cardinality(before(P, i)) <= c
  <2> TAKE i \in P
  <2>1. before(P, i) \in SUBSET P
    OBVIOUS
  <2> HIDE DEF before
  <2> QED
    BY <1>1, <2>1, FS_Subset, FS_CardinalityType
<1>6. ASSUME NEW k \in 1..c PROVE OfRank(more, k) = OfRank(P, k)
  <2>1. \A i \in more : Cardinality(before(more, i)) = k
          <=> i \in P /\ Cardinality(before(P, i)) = k
    <3> HIDE DEF c, before
    <3>1. m \in more /\ \A i \in more : i \in P \/ i = m
      OBVIOUS
    <3> HIDE DEF more
    <3> QED
      BY <1>1, <1>2, <1>3, <1>4, <3>1
  <2> QED
    BY <2>1 DEF OfRank
<1>7. OfRank(more, c + 1) = {m}
  <2>1. \A i \in more : Cardinality(before(more, i)) = c + 1 <=> i = m
    <3> HIDE DEF c, before
    <3>1. m \in more /\ \A i \in more : i \in P \/ i = m
      OBVIOUS
    <3> HIDE DEF more
    <3> QED
      BY <1>1, <1>2, <1>3, <1>4, <1>5, <3>1
  <2>2. m \in more
    OBVIOUS
  <2> QED
    BY <2>1, <2>2 DEF OfRank
<1>8. Only({m}) = m
  BY DEF Only
<1>9. /\ DOMAIN InOrder(P) = 1..c /\ \A k \in 1..c : InOrder(P)[k] = Only(OfRank(P, k))
      /\ DOMAIN InOrder(more) = 1..(c + 1)
      /\ \A k \in 1..(c + 1) : InOrder(more)[k] = Only(OfRank(more, k))
  <2> HIDE DEF more
  <2> QED
    BY <1>2 DEF InOrder
<1>10. c + 1 \in 1..(c + 1) /\ \A k \in 1..c : k \in 1..(c + 1)
  BY <1>1
<1> HIDE DEF more, c
<1>11. \A k \in 1..c : InOrder(more)[k] = InOrder(P)[k]
  BY <1>6, <1>9, <1>10
<1>12. InOrder(more)[c + 1] = m
  BY <1>7, <1>8, <1>9, <1>10
<1> QED
  BY <1>9, <1>11, <1>12 DEF more, c

\* They are the places, all of them.
LEMMA InOrderTyped ==
    ASSUME NEW n \in Nat, NEW P \in SUBSET (1..n)
    PROVE  /\ DOMAIN InOrder(P) = 1..Cardinality(P)
           /\ \A k \in 1..Cardinality(P) : InOrder(P)[k] \in P
           /\ Cardinality(P) = 0 <=> P = {}
<1> DEFINE upTo(k) == {i \in P : i <= k}
           Right(Q) == \A k \in 1..Cardinality(Q) : InOrder(Q)[k] \in Q
           Good == {k \in 0..n : Right(upTo(k))}
<1>0. \A i \in P : i \in Nat /\ 1 <= i /\ i <= n
  OBVIOUS
<1>1. 0 \in Good
  <2>0. \A i \in P : ~(i <= 0)
    BY <1>0
  <2>1. upTo(0) = {}
    BY <2>0
  <2>2. Cardinality({}) = 0
    BY FS_EmptySet
  <2> HIDE DEF upTo
  <2>3. Right(upTo(0))
    BY <2>1, <2>2
  <2> QED
    BY <2>3
<1>2. ASSUME NEW k \in 1..n, k - 1 \in Good PROVE k \in Good
  <2>1. k \in 0..n /\ k - 1 \in Nat /\ k > k - 1 /\ k \in Nat
    OBVIOUS
  <2>5. upTo(k - 1) \in SUBSET (1..(k - 1))
    <3>1. \A i \in P : i <= k - 1 => i \in 1..(k - 1)
      BY <1>0, <2>1
    <3> QED
      BY <3>1
  <2>6. \A i \in P : i <= k <=> i <= k - 1 \/ i = k
    BY <1>0, <2>1
  <2>2. Right(upTo(k - 1))
    BY <1>2
  <2>3. CASE k \notin P
    <3>1. upTo(k) = upTo(k - 1)
      BY <2>3, <2>6
    <3> HIDE DEF upTo, Right
    <3> QED
      BY <2>1, <2>2, <3>1
  <2>4. CASE k \in P
    <3>1. upTo(k) = upTo(k - 1) \cup {k}
      BY <2>4, <2>6
    <3> DEFINE Q == upTo(k - 1)
               c == Cardinality(Q)
    <3>2. Q \in SUBSET (1..(k - 1))
      BY <2>5
    <3> HIDE DEF upTo, Q
    <3> DEFINE l == k - 1
    <3>0. l \in Nat /\ k \in Nat /\ k > l /\ Q \in SUBSET (1..l)
      BY <2>1, <3>2
    <3> HIDE DEF l
    <3>3. /\ \A j \in 1..c : InOrder(Q \cup {k})[j] = InOrder(Q)[j]
          /\ InOrder(Q \cup {k})[c + 1] = k
      BY <3>0, InOrderOfOneMore
    <3>4. c \in Nat /\ Cardinality(Q \cup {k}) = c + 1
      <4>1. IsFiniteSet(Q) /\ c \in Nat
        BY <3>0, PlacesAreFinite
      <4>2. k \notin Q
        BY <3>0
      <4> QED
        BY <4>1, <4>2, FS_AddElement
    <3>5. \A j \in 1..c : InOrder(Q)[j] \in Q
      BY <2>2 DEF Q
    <3>6. \A j \in 1..(c + 1) : j \in 1..c \/ j = c + 1
      BY <3>4
    <3> HIDE DEF c
    <3>7. Right(Q \cup {k})
      BY <3>3, <3>4, <3>5, <3>6
    <3> HIDE DEF Right
    <3>8. Right(upTo(k))
      BY <3>1, <3>7 DEF Q
    <3> QED
      BY <2>1, <3>8
  <2> QED
    BY <2>3, <2>4
<1>3. n \in Good
  <2> HIDE DEF Good
  <2> QED
    BY <1>1, <1>2, Upward
<1>4. upTo(n) = P
  BY <1>0
<1> HIDE DEF upTo
<1>5. Right(P)
  BY <1>3, <1>4
<1>6. Cardinality(P) = 0 <=> P = {}
  BY PlacesAreFinite, FS_EmptySet
<1>7. DOMAIN InOrder(P) = 1..Cardinality(P)
  BY DEF InOrder
<1> QED
  BY <1>5, <1>6, <1>7
-----------------------------------------------------------------------------
(* The reference, when a text grows by a character *)

Texts == Seq(Chars)

\* The last character is a CR.
AfterCr(text) == Len(text) # 0 /\ text[Len(text)] = Cr

\* The next character ends a line.
Ends(text, ch) == ch = Cr \/ (ch = Lf /\ ~AfterCr(text))

\* The last place before i, or zero, is there and the last.
LEMMA LastBefore ==
    ASSUME NEW n \in Nat, NEW E \in SUBSET (1..n), NEW i \in Nat
    PROVE  /\ Max({0} \cup {j \in E : j < i}) \in {0} \cup {j \in E : j < i}
           /\ \A j \in E : j < i => j <= Max({0} \cup {j2 \in E : j2 < i})
<1> DEFINE S == {j \in E : j < i}
           all == {0} \cup S
<1>1. S \in SUBSET (1..n) /\ \A j \in S : j \in Nat /\ 0 <= j
  <2>1. \A j \in E : j \in Nat /\ 0 <= j
    OBVIOUS
  <2> QED
    BY <2>1
<1>2. PICK last \in all : \A j \in all : j <= last
  <2>1. CASE S = {}
    BY <2>1
  <2>2. CASE S # {}
    <3>1. Max(S) \in S /\ \A j \in S : j <= Max(S)
      <4> HIDE DEF S
      <4> QED
        BY <1>1, <2>2, LastPlace
    <3> HIDE DEF S
    <3> QED
      BY <1>1, <3>1
  <2> QED
    BY <2>1, <2>2
<1>3. all \in SUBSET Nat
  BY <1>1
<1>4. \A j \in E : j < i => j \in all
  OBVIOUS
<1> HIDE DEF all
<1>5. Max(all) = last
  BY <1>2, <1>3, MaxIs
<1> QED
  BY <1>2, <1>4, <1>5 DEF all

LEMMA TextIs ==
    ASSUME NEW text \in Texts
    PROVE  /\ Len(text) \in Nat /\ DOMAIN text = 1..Len(text)
           /\ \A i \in 1..Len(text) : text[i] \in Chars
           /\ LineEnds(text) \in SUBSET (1..Len(text))
<1>1. Len(text) \in Nat /\ DOMAIN text = 1..Len(text)
  BY DEF Texts
<1>2. \A i \in 1..Len(text) : text[i] \in Chars
  BY ElementOfSeq DEF Texts
<1> QED
  BY <1>1, <1>2 DEF LineEnds

LEMMA MoreIs ==
    ASSUME NEW text \in Texts, NEW ch \in Chars
    PROVE  /\ Append(text, ch) \in Texts
           /\ Len(Append(text, ch)) = Len(text) + 1
           /\ \A i \in 1..Len(text) : Append(text, ch)[i] = text[i]
           /\ Append(text, ch)[Len(text) + 1] = ch
BY AppendProperties DEF Texts

\* A line does not begin behind its end.
LEMMA StartWithin ==
    ASSUME NEW text \in Texts, NEW i \in 1..(Len(text) + 1)
    PROVE  LineStart(text, LineEnds(text), i) \in 1..i
<1> DEFINE ends == LineEnds(text)
           last == Max({0} \cup {j \in ends : j < i})
<1>1. Len(text) \in Nat /\ ends \in SUBSET (1..Len(text)) /\ i \in Nat /\ i >= 1
  BY TextIs
<1> HIDE DEF ends
<1>2. last \in {0} \cup {j \in ends : j < i}
  BY <1>1, LastBefore
<1>3. last \in Nat /\ last < i
  <2> HIDE DEF last
  <2> QED
    BY <1>1, <1>2
<1> HIDE DEF last
<1> QED
  BY <1>1, <1>3 DEF LineStart, last, ends

\* One character more is at most one end more.
LEMMA EndsOfMore ==
    ASSUME NEW text \in Texts, NEW ch \in Chars
    PROVE  LineEnds(Append(text, ch))
              = LineEnds(text) \cup (IF Ends(text, ch) THEN {Len(text) + 1} ELSE {})
<1> DEFINE more == Append(text, ch)
           n == Len(text)
<1>1. n \in Nat /\ DOMAIN text = 1..n /\ LineEnds(text) \in SUBSET (1..n)
  BY TextIs
<1>2. /\ more \in Texts /\ DOMAIN more = 1..(n + 1) /\ more[n + 1] = ch
      /\ \A i \in 1..n : more[i] = text[i]
  BY MoreIs DEF Texts
<1>3. \A i \in 1..(n + 1) : i \in 1..n \/ i = n + 1
  BY <1>1
<1>4. \A i \in 1..n : i \in LineEnds(more) <=> i \in LineEnds(text)
  <2> TAKE i \in 1..n
  <2>1. i \in 1..(n + 1) /\ more[i] = text[i]
    BY <1>1, <1>2
  <2>2. i > 1 => i - 1 \in 1..n
    BY <1>1
  <2>3. i > 1 => more[i - 1] = text[i - 1]
    BY <1>2, <2>2
  <2> HIDE DEF more, n
  <2> QED
    BY <1>1, <1>2, <2>1, <2>3 DEF LineEnds
<1>5. n + 1 \in LineEnds(more) <=> Ends(text, ch)
  <2>1. n + 1 \in 1..(n + 1) /\ (n + 1) - 1 = n /\ (n + 1 > 1 <=> n # 0)
    BY <1>1
  <2>2. n # 0 => more[n] = text[n]
    <3>1. n # 0 => n \in 1..n
      BY <1>1
    <3> HIDE DEF more, n
    <3> QED
      BY <1>2, <3>1
  <2> HIDE DEF more
  <2> QED
    BY <1>2, <2>1, <2>2 DEF LineEnds, Ends, AfterCr
<1>6. \A i \in LineEnds(more) : i \in 1..(n + 1)
  BY <1>2 DEF LineEnds
<1> QED
  BY <1>1, <1>3, <1>4, <1>5, <1>6

\* What is behind a place plays no part in the line that ends there ...
LEMMA LineUnmoved ==
    ASSUME NEW text \in Texts, NEW ch \in Chars, NEW i \in 1..(Len(text) + 1)
    PROVE  LineEnding(Append(text, ch), LineEnds(Append(text, ch)), i)
              = LineEnding(text, LineEnds(text), i)
<1> DEFINE more == Append(text, ch)
           n == Len(text)
           before(E) == {j \in E : j < i}
           last == Max({0} \cup before(LineEnds(text)))
<1>1. n \in Nat /\ LineEnds(text) \in SUBSET (1..n) /\ i \in Nat /\ 1 <= i /\ i <= n + 1
  BY TextIs
<1>2. before(LineEnds(more)) = before(LineEnds(text))
  BY <1>1, EndsOfMore
<1>3. \A j \in 1..n : more[j] = text[j]
  BY MoreIs
<1>4. last \in {0} \cup before(LineEnds(text))
  BY <1>1, LastBefore
<1>5. last \in Nat /\ last < i
  <2> HIDE DEF last
  <2> QED
    BY <1>1, <1>4
<1> HIDE DEF last
<1>6. /\ 0 < last => more[last] = text[last]
      /\ last + 1 < i => more[last + 1] = text[last + 1]
  <2>1. /\ 0 < last => last \in 1..n
        /\ last + 1 < i => last + 1 \in 1..n
    BY <1>1, <1>5
  <2> HIDE DEF more
  <2> QED
    BY <1>3, <2>1
<1>7. LineStart(more, LineEnds(more), i) = LineStart(text, LineEnds(text), i)
  <2> HIDE DEF more
  <2>1. Max({0} \cup {j \in LineEnds(more) : j < i}) = last
    BY <1>2 DEF last
  <2>2. Max({0} \cup {j \in LineEnds(text) : j < i}) = last
    BY DEF last
  <2> QED
    BY <1>6, <2>1, <2>2 DEF LineStart
<1> DEFINE from == LineStart(text, LineEnds(text), i)
<1>8. from \in 1..i
  BY StartWithin
<1> HIDE DEF from
<1>9. SubSeq(more, from, i - 1) = SubSeq(text, from, i - 1)
  <2>1. \A j \in from..(i - 1) : j \in 1..n
    BY <1>1, <1>8
  <2>2. more \in Texts /\ text \in Texts
    BY MoreIs
  <2>3. i - 1 \in Int /\ from \in Int
    BY <1>1, <1>8
  <2> HIDE DEF more
  <2> QED
    BY <1>3, <2>1, <2>2, <2>3 DEF Texts
<1> QED
  BY <1>7, <1>9 DEF LineEnding, from
-----------------------------------------------------------------------------
(* What is before a place, when a text grows *)

Line(text, i) == LineEnding(text, LineEnds(text), i)
Before(text, i) == DataBefore(text, LineEnds(text), i)

\* s has c elements.
Lists(s, c) == s = [k \in 1..c |-> s[k]]

\* A list that is another one and an element more is that list appended to.
LEMMA AppendIs ==
    ASSUME NEW c \in Nat, NEW s, NEW t, Lists(s, c), Lists(t, c + 1),
           \A k \in 1..c : t[k] = s[k]
    PROVE  t = Append(s, t[c + 1])
<1> DEFINE V == {t[k] : k \in 1..(c + 1)}
<1>1. t \in [1..(c + 1) -> V]
  BY DEF Lists
<1>2. s \in [1..c -> V]
  <2>1. \A k \in 1..c : k \in 1..(c + 1) /\ s[k] = t[k]
    OBVIOUS
  <2>2. \A k \in 1..c : s[k] \in V
    BY <2>1
  <2> HIDE DEF V
  <2> QED
    BY <2>2 DEF Lists
<1>3. t[c + 1] \in V
  OBVIOUS
<1> HIDE DEF V
<1>4. s \in Seq(V) /\ t \in Seq(V) /\ Len(s) = c /\ Len(t) = c + 1
  BY <1>1, <1>2
<1>5. Append(s, t[c + 1]) \in Seq(V) /\ Len(Append(s, t[c + 1])) = c + 1
  BY <1>3, <1>4
<1>6. \A k \in 1..(c + 1) : Append(s, t[c + 1])[k] = t[k]
  <2> TAKE k \in 1..(c + 1)
  <2>1. CASE k = c + 1
    BY <1>3, <1>4, <2>1, AppendProperties
  <2>2. CASE k # c + 1
    <3>1. k \in 1..c
      BY <2>2
    <3> QED
      BY <1>3, <1>4, <3>1, AppendProperties
  <2> QED
    BY <2>1, <2>2
<1> QED
  BY <1>4, <1>5, <1>6, SeqEqual

LEMMA BeforeIs ==
    ASSUME NEW text, NEW i
    PROVE  Before(text, i) =
              {j \in LineEnds(text) :
                  /\ j < i
                  /\ IsPrefix(DataField, Line(text, j))
                  /\ \A k \in LineEnds(text) : j < k /\ k < i => Line(text, k) # <<>>}
BY DEF Before, DataBefore, Line

LEMMA BeforeTyped ==
    ASSUME NEW text \in Texts, NEW i \in 1..(Len(text) + 2)
    PROVE  /\ Before(text, i) \in SUBSET (1..Len(text))
           /\ \A j \in Before(text, i) : j < i
BY TextIs, BeforeIs

\* What DataAt lists, place by place.
LEMMA DataIs ==
    ASSUME NEW text \in Texts, NEW i \in 1..(Len(text) + 2)
    PROVE  LET P == Before(text, i) IN
           /\ Cardinality(P) \in Nat
           /\ DataAt(text, i) = [k \in 1..Cardinality(P) |-> ValueOf(Line(text, InOrder(P)[k]))]
           /\ \A k \in 1..Cardinality(P) : InOrder(P)[k] \in P
           /\ DataAt(text, i) = <<>> <=> P = {}
<1> DEFINE P == Before(text, i)
           c == Cardinality(P)
<1>1. P \in SUBSET (1..Len(text)) /\ Len(text) \in Nat
  BY BeforeTyped, TextIs
<1>2. DataAt(text, i) = [k \in DOMAIN InOrder(P) |-> ValueOf(Line(text, InOrder(P)[k]))]
  BY DEF DataAt, Before, Line
<1> HIDE DEF P
<1>3. /\ DOMAIN InOrder(P) = 1..c /\ c \in Nat
      /\ \A k \in 1..c : InOrder(P)[k] \in P
      /\ c = 0 <=> P = {}
  BY <1>1, InOrderTyped, PlacesAreFinite
<1> HIDE DEF c
<1>4. DataAt(text, i) = [k \in 1..c |-> ValueOf(Line(text, InOrder(P)[k]))]
  BY <1>2, <1>3
<1>5. DataAt(text, i) = <<>> <=> P = {}
  <2>1. DOMAIN DataAt(text, i) = 1..c
    BY <1>4
  <2>2. CASE c = 0
    <3>1. DataAt(text, i) = [k \in {} |-> ValueOf(Line(text, InOrder(P)[k]))]
      BY <1>4, <2>2
    <3>2. DataAt(text, i) = <<>>
      BY <3>1
    <3> QED
      BY <1>3, <2>2, <3>2
  <2>3. CASE c # 0
    <3>1. 1 \in DOMAIN DataAt(text, i) /\ DOMAIN <<>> = {}
      BY <1>3, <2>1, <2>3
    <3> QED
      BY <1>3, <2>3, <3>1
  <2> QED
    BY <2>2, <2>3
<1> QED
  BY <1>3, <1>4, <1>5 DEF P, c

\* ... nor in which data lines there are before a place ...
LEMMA BeforeUnmoved ==
    ASSUME NEW text \in Texts, NEW ch \in Chars, NEW i \in 1..(Len(text) + 1)
    PROVE  Before(Append(text, ch), i) = Before(text, i)
<1> DEFINE more == Append(text, ch)
           n == Len(text)
<1>1. n \in Nat /\ LineEnds(text) \in SUBSET (1..n) /\ i \in Nat /\ i <= n + 1
  BY TextIs
<1>2. \A j \in 1..n : Line(more, j) = Line(text, j)
  <2>1. \A j \in 1..n : j \in 1..(Len(text) + 1)
    BY <1>1
  <2> QED
    BY <2>1, LineUnmoved DEF Line
<1>3. \A j : j \in LineEnds(more) /\ j < i <=> j \in LineEnds(text) /\ j < i
  <2>1. \A j \in LineEnds(more) : j < i => j \in LineEnds(text)
    BY <1>1, EndsOfMore
  <2>2. \A j \in LineEnds(text) : j \in LineEnds(more)
    BY EndsOfMore
  <2> QED
    BY <2>1, <2>2
<1> HIDE DEF more, n
<1>4. \A j \in LineEnds(text) : Line(more, j) = Line(text, j)
  BY <1>1, <1>2
<1>5. ASSUME NEW j PROVE j \in Before(more, i) <=> j \in Before(text, i)
  BY <1>3, <1>4, BeforeIs
<1> QED
  BY <1>5 DEF more

\* The data before two places are the same data, of two texts one of which goes on.
LEMMA SameData ==
    ASSUME NEW text \in Texts, NEW ch \in Chars,
           NEW i \in 1..(Len(text) + 1), NEW h \in 1..(Len(text) + 2),
           Before(Append(text, ch), h) = Before(text, i)
    PROVE  DataAt(Append(text, ch), h) = DataAt(text, i)
<1> DEFINE more == Append(text, ch)
           P == Before(text, i)
           c == Cardinality(P)
<1>1. /\ Len(text) \in Nat /\ more \in Texts /\ Len(more) = Len(text) + 1
  BY TextIs, MoreIs
<1>2. i \in 1..(Len(text) + 2) /\ h \in 1..(Len(more) + 2)
  BY <1>1
<1>3. P \in SUBSET (1..Len(text))
  BY <1>2, BeforeTyped
<1>4. /\ DataAt(text, i) = [k \in 1..c |-> ValueOf(Line(text, InOrder(P)[k]))]
      /\ \A k \in 1..c : InOrder(P)[k] \in P
  BY <1>2, DataIs
<1>5. DataAt(more, h) = [k \in 1..c |-> ValueOf(Line(more, InOrder(P)[k]))]
  <2> DEFINE Q == Before(more, h)
  <2>1. Q = P
    OBVIOUS
  <2> HIDE DEF more
  <2>2. DataAt(more, h) = [k \in 1..Cardinality(Q) |-> ValueOf(Line(more, InOrder(Q)[k]))]
    BY <1>1, <1>2, DataIs
  <2> HIDE DEF Q, P
  <2> QED
    BY <2>1, <2>2
<1>6. \A j \in 1..Len(text) : Line(more, j) = Line(text, j)
  <2>1. \A j \in 1..Len(text) : j \in 1..(Len(text) + 1)
    BY <1>1
  <2> QED
    BY <2>1, LineUnmoved DEF Line
<1> HIDE DEF more, P, c
<1>7. \A k \in 1..c : Line(more, InOrder(P)[k]) = Line(text, InOrder(P)[k])
  BY <1>3, <1>4, <1>6
<1> QED
  BY <1>4, <1>5, <1>7 DEF more
\* ... nor in what the data lines before a place hold.
LEMMA DataUnmoved ==
    ASSUME NEW text \in Texts, NEW ch \in Chars, NEW i \in 1..(Len(text) + 1)
    PROVE  DataAt(Append(text, ch), i) = DataAt(text, i)
<1>1. i \in 1..(Len(text) + 2)
  BY TextIs
<1> QED
  BY <1>1, BeforeUnmoved, SameData

\* The data lines behind the last character, by what it has been.
LEMMA BeforeGrows ==
    ASSUME NEW text \in Texts, NEW ch \in Chars
    PROVE  LET n == Len(text)
               line == Line(text, n + 1)
           IN  Before(Append(text, ch), n + 2) =
                  IF ~Ends(text, ch) THEN Before(text, n + 1)
                  ELSE IF line = <<>> THEN {}
                  ELSE IF IsPrefix(DataField, line) THEN Before(text, n + 1) \cup {n + 1}
                  ELSE Before(text, n + 1)
<1> DEFINE more == Append(text, ch)
           n == Len(text)
           line == Line(text, n + 1)
<1>1. n \in Nat /\ LineEnds(text) \in SUBSET (1..n)
  BY TextIs
<1>2. /\ \A j \in LineEnds(text) : Line(more, j) = Line(text, j)
      /\ Line(more, n + 1) = line
  <2>1. \A j \in LineEnds(text) : j \in 1..(Len(text) + 1)
    BY <1>1
  <2>2. n + 1 \in 1..(Len(text) + 1)
    BY <1>1
  <2> QED
    BY <2>1, <2>2, LineUnmoved DEF Line
<1>3. LineEnds(more) = LineEnds(text) \cup (IF Ends(text, ch) THEN {n + 1} ELSE {})
  BY EndsOfMore
<1>4. /\ \A j \in LineEnds(text) : j < n + 1 /\ j < n + 2 /\ j \in Nat
      /\ n + 1 < n + 2 /\ ~(n + 1 < n + 1)
      /\ \A j \in LineEnds(text) : ~(n + 1 < j)
  BY <1>1
<1> HIDE DEF more, n, line
<1>5. CASE ~Ends(text, ch)
  <2>1. LineEnds(more) = LineEnds(text)
    BY <1>3, <1>5
  <2>2. \A j : j \in Before(more, n + 2) <=> j \in Before(text, n + 1)
    BY <1>2, <1>4, <2>1, BeforeIs
  <2> QED
    BY <1>5, <2>2 DEF more, n, line
<1>6. CASE Ends(text, ch) /\ line = <<>>
  <2>1. LineEnds(more) = LineEnds(text) \cup {n + 1}
    BY <1>3, <1>6
  <2>2. ~IsPrefix(DataField, <<>>)
    BY BlankIsNoData
  <2>3. \A j : j \notin Before(more, n + 2)
    BY <1>2, <1>4, <1>6, <2>1, <2>2, BeforeIs
  <2> QED
    BY <1>6, <2>3 DEF more, n, line
<1>7. CASE Ends(text, ch) /\ line # <<>>
  <2>1. LineEnds(more) = LineEnds(text) \cup {n + 1}
    BY <1>3, <1>7
  <2>2. n + 1 \in Before(more, n + 2) <=> IsPrefix(DataField, line)
    BY <1>2, <1>4, <1>7, <2>1, BeforeIs
  <2>3. \A j \in LineEnds(text) : j \in Before(more, n + 2) <=> j \in Before(text, n + 1)
    BY <1>2, <1>4, <1>7, <2>1, BeforeIs
  <2>4. /\ \A j \in Before(more, n + 2) : j \in LineEnds(text) \/ j = n + 1
        /\ \A j \in Before(text, n + 1) : j \in LineEnds(text)
    BY <2>1, BeforeIs
  <2>5. CASE IsPrefix(DataField, line)
    <3>1. \A j : j \in Before(more, n + 2) <=> j \in Before(text, n + 1) \/ j = n + 1
      BY <2>2, <2>3, <2>4, <2>5
    <3> QED
      BY <1>7, <2>5, <3>1 DEF more, n, line
  <2>6. CASE ~IsPrefix(DataField, line)
    <3>1. \A j : j \in Before(more, n + 2) <=> j \in Before(text, n + 1)
      BY <2>2, <2>3, <2>4, <2>6
    <3> QED
      BY <1>7, <2>6, <3>1 DEF more, n, line
  <2> QED
    BY <2>5, <2>6
<1> QED
  BY <1>5, <1>6, <1>7

\* ... and what they hold.
LEMMA DataGrows ==
    ASSUME NEW text \in Texts, NEW ch \in Chars
    PROVE  LET n == Len(text)
               line == Line(text, n + 1)
           IN  DataAt(Append(text, ch), n + 2) =
                  IF ~Ends(text, ch) THEN DataAt(text, n + 1)
                  ELSE IF line = <<>> THEN <<>>
                  ELSE IF IsPrefix(DataField, line)
                       THEN Append(DataAt(text, n + 1), ValueOf(line))
                  ELSE DataAt(text, n + 1)
<1> DEFINE more == Append(text, ch)
           n == Len(text)
           line == Line(text, n + 1)
           P == Before(text, n + 1)
           c == Cardinality(P)
           Q == Before(more, n + 2)
<1>1. /\ n \in Nat /\ more \in Texts /\ Len(more) = n + 1
      /\ n + 1 \in 1..(n + 1) /\ n + 1 \in 1..(n + 2) /\ n + 2 \in 1..(n + 2)
      /\ n + 2 \in 1..((n + 1) + 2)
  BY TextIs, MoreIs
<1>2. Q = IF ~Ends(text, ch) THEN P
          ELSE IF line = <<>> THEN {}
          ELSE IF IsPrefix(DataField, line) THEN P \cup {n + 1}
          ELSE P
  BY BeforeGrows
<1>3. Q = P => DataAt(more, n + 2) = DataAt(text, n + 1)
  BY <1>1, SameData
<1>4. Q = {} => DataAt(more, n + 2) = <<>>
  <2> HIDE DEF more
  <2> QED
    BY <1>1, DataIs
<1>5. ASSUME Q = P \cup {n + 1}
      PROVE  DataAt(more, n + 2) = Append(DataAt(text, n + 1), ValueOf(line))
  <2>1. P \in SUBSET (1..n)
    BY <1>1, BeforeTyped
  <2>2. /\ c \in Nat
        /\ DataAt(text, n + 1) = [k \in 1..c |-> ValueOf(Line(text, InOrder(P)[k]))]
        /\ \A k \in 1..c : InOrder(P)[k] \in P
    BY <1>1, DataIs
  <2>3. DataAt(more, n + 2)
          = [k \in 1..Cardinality(Q) |-> ValueOf(Line(more, InOrder(Q)[k]))]
    <3> HIDE DEF more
    <3> QED
      BY <1>1, DataIs
  <2>4. /\ \A j \in 1..n : Line(more, j) = Line(text, j)
        /\ Line(more, n + 1) = line
    <3>1. \A j \in 1..n : j \in 1..(Len(text) + 1)
      BY <1>1
    <3>2. n + 1 \in 1..(Len(text) + 1)
      BY <1>1
    <3> QED
      BY <3>1, <3>2, LineUnmoved DEF Line
  <2> HIDE DEF more, n, line, P, Q
  <2>5. /\ \A k \in 1..c : InOrder(Q)[k] = InOrder(P)[k]
        /\ InOrder(Q)[c + 1] = n + 1
        /\ Cardinality(Q) = c + 1
    <3> DEFINE m == n + 1
    <3>1. m \in Nat /\ m > n /\ P \in SUBSET (1..n) /\ n \in Nat
      BY <1>1, <2>1
    <3>2. IsFiniteSet(P)
      BY <3>1, PlacesAreFinite
    <3>3. m \notin P
      BY <3>1
    <3> HIDE DEF m
    <3>4. Cardinality(P \cup {m}) = c + 1
      BY <3>2, <3>3, FS_AddElement
    <3>5. /\ \A k \in 1..c : InOrder(P \cup {m})[k] = InOrder(P)[k]
          /\ InOrder(P \cup {m})[c + 1] = m
      BY <3>1, InOrderOfOneMore
    <3> QED
      BY <1>5, <3>4, <3>5 DEF m
  <2> HIDE DEF c
  <2> DEFINE s == DataAt(text, n + 1)
             t == DataAt(more, n + 2)
  <2>6. Lists(s, c) /\ Lists(t, c + 1)
    BY <2>2, <2>3, <2>5 DEF Lists
  <2>7. \A k \in 1..c : t[k] = s[k]
    <3> TAKE k \in 1..c
    <3>1. k \in 1..(c + 1)
      BY <2>2
    <3>2. t[k] = ValueOf(Line(more, InOrder(Q)[k])) /\ s[k] = ValueOf(Line(text, InOrder(P)[k]))
      BY <2>2, <2>3, <2>5, <3>1
    <3>3. InOrder(Q)[k] = InOrder(P)[k] /\ InOrder(P)[k] \in 1..n
      BY <2>1, <2>2, <2>5
    <3> HIDE DEF s, t
    <3> QED
      BY <2>4, <3>2, <3>3
  <2>8. t[c + 1] = ValueOf(line)
    <3>1. c + 1 \in 1..(c + 1)
      BY <2>2
    <3> QED
      BY <2>3, <2>4, <2>5, <3>1
  <2> HIDE DEF s, t
  <2>9. t = Append(s, t[c + 1])
    <3>1. c \in Nat
      BY <2>2
    <3> QED
      BY <2>6, <2>7, <3>1, AppendIs
  <2> QED
    BY <2>8, <2>9 DEF s, t
<1> HIDE DEF more, n, line, P, Q
<1> QED
  BY <1>2, <1>3, <1>4, <1>5 DEF more, n, line
-----------------------------------------------------------------------------
(* The events, when a text grows *)

\* The next character completes an event.
Completes(text, ch) ==
    /\ Ends(text, ch)
    /\ Line(text, Len(text) + 1) = <<>>
    /\ DataAt(text, Len(text) + 1) # <<>>

LEMMA ClosingIs ==
    ASSUME NEW text
    PROVE  Closing(text) = {i \in LineEnds(text) : Line(text, i) = <<>> /\ Before(text, i) # {}}
BY DEF Closing, Line, Before

\* One character more is at most one event more, behind the others ...
LEMMA ClosingGrows ==
    ASSUME NEW text \in Texts, NEW ch \in Chars
    PROVE  /\ Closing(text) \in SUBSET (1..Len(text))
           /\ Closing(Append(text, ch))
                = Closing(text) \cup (IF Completes(text, ch) THEN {Len(text) + 1} ELSE {})
<1> DEFINE more == Append(text, ch)
           n == Len(text)
           line == Line(text, n + 1)
<1>1. n \in Nat /\ LineEnds(text) \in SUBSET (1..n) /\ n + 1 \in 1..(n + 1) /\ n + 1 \in 1..(n + 2)
  BY TextIs
<1>2. /\ \A j \in LineEnds(text) : Line(more, j) = Line(text, j) /\ Before(more, j) = Before(text, j)
      /\ Line(more, n + 1) = line /\ Before(more, n + 1) = Before(text, n + 1)
  <2>1. \A j \in LineEnds(text) : j \in 1..(Len(text) + 1)
    BY <1>1
  <2>2. n + 1 \in 1..(Len(text) + 1)
    BY <1>1
  <2> QED
    BY <2>1, <2>2, LineUnmoved, BeforeUnmoved DEF Line
<1>3. LineEnds(more) = LineEnds(text) \cup (IF Ends(text, ch) THEN {n + 1} ELSE {})
  BY EndsOfMore
<1>4. DataAt(text, n + 1) = <<>> <=> Before(text, n + 1) = {}
  BY <1>1, DataIs
<1>5. n + 1 \notin LineEnds(text)
  BY <1>1
<1>6. Closing(text) \in SUBSET (1..n)
  BY <1>1, ClosingIs
<1>7. Completes(text, ch)
        <=> Ends(text, ch) /\ line = <<>> /\ Before(text, n + 1) # {}
  BY <1>4 DEF Completes
<1> HIDE DEF more, n, line
<1>8. \A j : j \in Closing(more)
             <=> j \in Closing(text) \/ (Completes(text, ch) /\ j = n + 1)
  BY <1>2, <1>3, <1>5, <1>7, ClosingIs
<1> QED
  BY <1>6, <1>8 DEF more, n

LEMMA EventsAre ==
    ASSUME NEW text
    PROVE  LET P == Closing(text) IN
           EventsIn(text)
              = [k \in 1..Cardinality(P) |-> Joined(DataAt(text, InOrder(P)[k]))]
<1>1. DOMAIN InOrder(Closing(text)) = 1..Cardinality(Closing(text))
  BY DEF InOrder
<1> QED
  BY <1>1 DEF EventsIn

\* ... and it holds the data lines before it.
LEMMA EventsGrow ==
    ASSUME NEW text \in Texts, NEW ch \in Chars
    PROVE  EventsIn(Append(text, ch)) =
              IF Completes(text, ch)
              THEN Append(EventsIn(text), Joined(DataAt(text, Len(text) + 1)))
              ELSE EventsIn(text)
<1> DEFINE more == Append(text, ch)
           n == Len(text)
           P == Closing(text)
           c == Cardinality(P)
           Q == Closing(more)
           s == EventsIn(text)
           t == EventsIn(more)
<1>1. n \in Nat /\ P \in SUBSET (1..n) /\ Q = P \cup (IF Completes(text, ch) THEN {n + 1} ELSE {})
  BY TextIs, ClosingGrows
<1>2. \A j \in 1..(n + 1) : DataAt(more, j) = DataAt(text, j)
  BY DataUnmoved
<1>3. /\ s = [k \in 1..c |-> Joined(DataAt(text, InOrder(P)[k]))]
      /\ t = [k \in 1..Cardinality(Q) |-> Joined(DataAt(more, InOrder(Q)[k]))]
  <2> HIDE DEF more
  <2> QED
    BY EventsAre
<1> HIDE DEF more, n, P, Q, s, t
<1>4. c \in Nat /\ IsFiniteSet(P) /\ \A k \in 1..c : InOrder(P)[k] \in P
  BY <1>1, PlacesAreFinite, InOrderTyped
<1>5. \A k \in 1..c : DataAt(more, InOrder(P)[k]) = DataAt(text, InOrder(P)[k])
  <2> TAKE k \in 1..c
  <2>1. InOrder(P)[k] \in P
    BY <1>4
  <2>2. InOrder(P)[k] \in 1..(n + 1)
    <3>1. \A j \in 1..n : j \in 1..(n + 1)
      BY <1>1
    <3> QED
      BY <1>1, <2>1, <3>1
  <2> QED
    BY <1>2, <2>2
<1>6. CASE ~Completes(text, ch)
  <2>1. Q = P
    BY <1>1, <1>6
  <2>2. t = s
    BY <1>3, <1>5, <2>1
  <2> QED
    BY <1>6, <2>2 DEF more, s, t
<1>7. CASE Completes(text, ch)
  <2> DEFINE m == n + 1
  <2>1. m \in Nat /\ m > n /\ m \in 1..(n + 1) /\ m \notin P /\ Q = P \cup {m}
    BY <1>1, <1>7
  <2> HIDE DEF m
  <2>2. Cardinality(Q) = c + 1
    BY <1>4, <2>1, FS_AddElement
  <2>3. /\ \A k \in 1..c : InOrder(Q)[k] = InOrder(P)[k]
        /\ InOrder(Q)[c + 1] = m
    BY <1>1, <2>1, InOrderOfOneMore
  <2> HIDE DEF c
  <2>4. Lists(s, c) /\ Lists(t, c + 1)
    BY <1>3, <2>2 DEF Lists
  <2>5. \A k \in 1..c : t[k] = s[k]
    <3> TAKE k \in 1..c
    <3>1. k \in 1..(c + 1)
      BY <1>4
    <3>2. t[k] = Joined(DataAt(more, InOrder(P)[k]))
      BY <1>3, <2>2, <2>3, <3>1
    <3>3. s[k] = Joined(DataAt(text, InOrder(P)[k]))
      BY <1>3
    <3> QED
      BY <1>5, <3>2, <3>3
  <2>6. t[c + 1] = Joined(DataAt(text, m))
    <3>1. c + 1 \in 1..(c + 1)
      BY <1>4
    <3> QED
      BY <1>2, <1>3, <2>1, <2>2, <2>3, <3>1
  <2>7. c \in Nat
    BY <1>4
  <2>8. t = Append(s, t[c + 1])
    BY <2>4, <2>5, <2>7, AppendIs
  <2> QED
    BY <1>7, <2>6, <2>8 DEF more, m, n, s, t
<1> QED
  BY <1>6, <1>7
-----------------------------------------------------------------------------
(* The line under way *)

\* The line under way behind one character more.
LEMMA LineGrows ==
    ASSUME NEW text \in Texts, NEW ch \in Chars
    PROVE  LET n == Len(text) IN
           Line(Append(text, ch), n + 2) =
              IF Ends(text, ch) \/ ch = Lf THEN <<>> ELSE Append(Line(text, n + 1), ch)
<1> DEFINE more == Append(text, ch)
           n == Len(text)
           ends == LineEnds(text)
           ends2 == LineEnds(more)
           before(E, i) == {0} \cup {j \in E : j < i}
           last == Max(before(ends, n + 1))
           last2 == Max(before(ends2, n + 2))
           from == LineStart(text, ends, n + 1)
           from2 == LineStart(more, ends2, n + 2)
<1>1. /\ n \in Nat /\ ends \in SUBSET (1..n)
      /\ ends2 = ends \cup (IF Ends(text, ch) THEN {n + 1} ELSE {})
      /\ more \in Seq(Chars) /\ Len(more) = n + 1 /\ more[n + 1] = ch
      /\ \A i \in 1..n : more[i] = text[i]
      /\ text \in Seq(Chars)
  BY TextIs, MoreIs, EndsOfMore DEF Texts
<1> HIDE DEF ends, ends2, more
<1>2. /\ last \in before(ends, n + 1)
      /\ \A j \in ends : j < n + 1 => j <= last
  <2> DEFINE i == n + 1
  <2>1. i \in Nat /\ n \in Nat /\ ends \in SUBSET (1..n)
    BY <1>1
  <2> HIDE DEF i
  <2>2. /\ Max({0} \cup {j \in ends : j < i}) \in {0} \cup {j \in ends : j < i}
        /\ \A j \in ends : j < i => j <= Max({0} \cup {j2 \in ends : j2 < i})
    BY <2>1, LastBefore
  <2> QED
    BY <2>2 DEF i
<1>3. last \in Nat /\ last <= n /\ last < n + 1
  <2> HIDE DEF last
  <2> QED
    BY <1>1, <1>2
<1>4. /\ from = IF 0 < last /\ last + 1 < n + 1 /\ text[last] = Cr /\ text[last + 1] = Lf
                THEN last + 2 ELSE last + 1
      /\ from2 = IF 0 < last2 /\ last2 + 1 < n + 2 /\ more[last2] = Cr /\ more[last2 + 1] = Lf
                 THEN last2 + 2 ELSE last2 + 1
  BY DEF LineStart
<1>5. /\ Line(text, n + 1) = SubSeq(text, from, n)
      /\ Line(more, n + 2) = SubSeq(more, from2, n + 1)
  <2>1. (n + 1) - 1 = n /\ (n + 2) - 1 = n + 1
    BY <1>1
  <2> QED
    BY <2>1 DEF Line, LineEnding, ends, ends2
<1>6. from \in Nat /\ 1 <= from /\ from <= n + 1
  <2>1. n + 1 \in 1..(Len(text) + 1)
    BY <1>1
  <2>2. from \in 1..(n + 1)
    BY <2>1, StartWithin DEF ends
  <2> HIDE DEF from
  <2> QED
    BY <1>1, <2>2
<1>7. CASE Ends(text, ch)
  <2>1. n + 1 \in before(ends2, n + 2) /\ \A j \in before(ends2, n + 2) : j <= n + 1 /\ j \in Nat
    BY <1>1, <1>7
  <2>2. last2 = n + 1
    <3> DEFINE S == before(ends2, n + 2)
               m == n + 1
    <3>1. S \in SUBSET Nat /\ m \in S /\ \A i \in S : i <= m
      BY <2>1
    <3> HIDE DEF S, m
    <3>2. Max(S) = m
      BY <3>1, MaxIs
    <3> QED
      BY <3>2 DEF S, m
  <2>3. from2 = n + 2
    <3> HIDE DEF last2, from2
    <3> QED
      BY <1>1, <1>4, <2>2
  <2>4. SubSeq(more, n + 2, n + 1) = <<>>
    BY <1>1
  <2> QED
    BY <1>5, <1>7, <2>3, <2>4 DEF more
<1>8. CASE ~Ends(text, ch)
  <2>1. before(ends2, n + 2) = before(ends, n + 1)
    <3>1. ends2 = ends /\ \A j \in ends : j < n + 1 /\ j < n + 2
      BY <1>1, <1>8
    <3> QED
      BY <3>1
  <2>2. last2 = last
    BY <2>1
  <2> HIDE DEF last, last2, from, from2, before
  <2>3. CASE ch = Lf
    <3>1. n # 0 /\ text[n] = Cr
      BY <1>8, <2>3 DEF Ends, AfterCr
    <3>2. n \in ends
      <4>1. n \in 1..n /\ DOMAIN text = 1..n
        BY <1>1, <3>1
      <4> QED
        BY <3>1, <4>1 DEF ends, LineEnds
    <3>3. last = n
      <4>1. n < n + 1
        BY <1>1
      <4>2. n <= last
        BY <1>2, <3>2, <4>1
      <4> QED
        BY <1>1, <1>3, <4>2
    <3>4. more[n] = Cr
      <4>1. n \in 1..n
        BY <1>1, <3>1
      <4> QED
        BY <1>1, <3>1, <4>1
    <3>5. from2 = n + 2
      BY <1>1, <1>4, <2>2, <2>3, <3>1, <3>3, <3>4
    <3>6. SubSeq(more, n + 2, n + 1) = <<>>
      BY <1>1
    <3> QED
      BY <1>5, <2>3, <3>5, <3>6 DEF more
  <2>4. CASE ch # Lf
    <3>1. from2 = from
      <4>1. 0 < last => more[last] = text[last]
        <5>1. 0 < last => last \in 1..n
          BY <1>1, <1>3
        <5> QED
          BY <1>1, <5>1
      <4>2. last + 1 < n + 1 => more[last + 1] = text[last + 1]
        <5>1. last + 1 < n + 1 => last + 1 \in 1..n
          BY <1>1, <1>3
        <5> QED
          BY <1>1, <5>1
      <4>3. ~(last + 1 < n + 1) => last + 1 = n + 1
        BY <1>1, <1>3
      <4>4. last + 1 < n + 1 => last + 1 < n + 2
        BY <1>1, <1>3
      <4> QED
        BY <1>1, <1>4, <2>2, <2>4, <4>1, <4>2, <4>3, <4>4
    <3> DEFINE s == SubSeq(text, from, n)
               t == SubSeq(more, from, n + 1)
    <3>2. /\ s \in Seq(Chars) /\ Len(s) = n + 1 - from
          /\ \A k \in 1..(n + 1 - from) : s[k] = text[from + k - 1]
      <4>1. \A j \in from..n : text[j] \in Chars
        <5>1. \A j \in from..n : j \in 1..Len(text)
          BY <1>1, <1>6
        <5> QED
          BY <1>1, <5>1, ElementOfSeq
      <4> QED
        BY <1>1, <1>6, <4>1
    <3>3. /\ t \in Seq(Chars) /\ Len(t) = n + 2 - from
          /\ \A k \in 1..(n + 2 - from) : t[k] = more[from + k - 1]
      <4>1. \A j \in from..(n + 1) : more[j] \in Chars
        <5>1. \A j \in from..(n + 1) : j \in 1..Len(more)
          BY <1>1, <1>6
        <5> QED
          BY <1>1, <5>1, ElementOfSeq
      <4> QED
        BY <1>1, <1>6, <4>1
    <3> DEFINE l == n + 1 - from
    <3>4. l \in Nat /\ l + 1 = n + 2 - from
      BY <1>1, <1>6
    <3>5. Append(s, ch) \in Seq(Chars) /\ Len(Append(s, ch)) = l + 1
          /\ (\A k \in 1..l : Append(s, ch)[k] = s[k]) /\ Append(s, ch)[l + 1] = ch
      <4> HIDE DEF s
      <4> QED
        BY <3>2, AppendProperties
    <3>6. \A k \in 1..(l + 1) : Append(s, ch)[k] = t[k]
      <4> TAKE k \in 1..(l + 1)
      <4>1. k \in 1..(n + 2 - from) /\ (k = l + 1 \/ k \in 1..l)
        BY <3>4
      <4>2. CASE k = l + 1
        <5>1. from + k - 1 = n + 1
          BY <1>1, <1>6, <4>2
        <5> HIDE DEF s, t, l
        <5> QED
          BY <1>1, <3>3, <3>5, <4>1, <4>2, <5>1
      <4>3. CASE k \in 1..l
        <5>1. from + k - 1 \in 1..n
          BY <1>1, <1>6, <4>3
        <5>2. more[from + k - 1] = text[from + k - 1]
          BY <1>1, <5>1
        <5>3. s[k] = text[from + k - 1] /\ t[k] = more[from + k - 1]
          BY <3>2, <3>3, <4>1, <4>3
        <5> HIDE DEF s, t, l
        <5> QED
          BY <3>5, <4>3, <5>2, <5>3
      <4> QED
        BY <4>1, <4>2, <4>3
    <3>7. t = Append(s, ch)
      <4> HIDE DEF s, t, l
      <4> QED
        BY <3>3, <3>4, <3>5, <3>6, SeqEqual
    <3> QED
      BY <1>5, <1>8, <2>4, <3>1, <3>7 DEF more
  <2> QED
    BY <2>3, <2>4
<1> QED
  BY <1>7, <1>8
-----------------------------------------------------------------------------
(* The machines and the reference *)

\* The two machines have made of a text what the reference makes of it.
Agrees(text, line, afterCr, data, evs) ==
    /\ line = Line(text, Len(text) + 1)
    /\ afterCr <=> AfterCr(text)
    /\ afterCr => line = <<>>
    /\ data = DataAt(text, Len(text) + 1)
    /\ evs = EventsIn(text)

\* A line is handled as the reference sees it end.
LEMMA LineHandled ==
    ASSUME NEW text \in Texts, NEW ch \in Chars, Ends(text, ch),
           NEW p \in Parsers, NEW E \in Seq(Joinings), NEW line \in Lines,
           line = Line(text, Len(text) + 1),
           p.data = DataAt(text, Len(text) + 1),
           E \o p.events = EventsIn(text)
    PROVE  /\ HandleLine(p, line).data = DataAt(Append(text, ch), Len(text) + 2)
           /\ E \o HandleLine(p, line).events = EventsIn(Append(text, ch))
<1>1. p.data \in Seq(Lines) /\ p.events \in Seq(Joinings)
  BY DEF Parsers
<1> DEFINE n == Len(text)
           data2 == DataAt(Append(text, ch), n + 2)
           events2 == EventsIn(Append(text, ch))
<1>2. data2 = IF line = <<>> THEN <<>>
              ELSE IF IsPrefix(DataField, line) THEN Append(p.data, ValueOf(line))
              ELSE p.data
  BY DataGrows
<1>3. events2 = IF line = <<>> /\ p.data # <<>>
                THEN Append(E \o p.events, Joined(p.data))
                ELSE E \o p.events
  BY EventsGrow DEF Completes
<1> HIDE DEF data2, events2
<1>4. CASE line = <<>> /\ p.data # <<>>
  <2>1. HandleLine(p, line) = [data |-> <<>>, events |-> Append(p.events, Joined(p.data))]
    BY <1>4, BlankIsNoData DEF HandleLine, Dispatch
  <2>2. Joined(p.data) \in Joinings
    BY <1>1 DEF Joinings
  <2>3. E \o Append(p.events, Joined(p.data)) = Append(E \o p.events, Joined(p.data))
    <3> DEFINE x == Joined(p.data)
               es == p.events
    <3>1. x \in Joinings /\ es \in Seq(Joinings)
      BY <1>1, <2>2
    <3> HIDE DEF x, es
    <3>2. <<x>> \in Seq(Joinings) /\ E \o es \in Seq(Joinings)
      BY <3>1
    <3>3. Append(es, x) = es \o <<x>> /\ Append(E \o es, x) = (E \o es) \o <<x>>
      BY <3>1, <3>2, AppendIsConcat
    <3>4. E \o (es \o <<x>>) = (E \o es) \o <<x>>
      BY <3>1, <3>2, ConcatAssociative
    <3> QED
      BY <3>3, <3>4 DEF x, es
  <2>4. /\ HandleLine(p, line).data = <<>>
        /\ HandleLine(p, line).events = Append(p.events, Joined(p.data))
    BY <2>1
  <2>5. data2 = <<>> /\ events2 = Append(E \o p.events, Joined(p.data))
    BY <1>2, <1>3, <1>4
  <2> QED
    BY <2>3, <2>4, <2>5 DEF data2, events2
<1>5. CASE line = <<>> /\ p.data = <<>>
  <2>1. HandleLine(p, line) = p
    BY <1>5, BlankIsNoData DEF HandleLine, Dispatch
  <2> QED
    BY <1>2, <1>3, <1>5, <2>1 DEF data2, events2
<1>6. CASE line # <<>> /\ IsPrefix(DataField, line)
  <2>1. HandleLine(p, line) = [p EXCEPT !.data = Append(@, ValueOf(line))]
    BY <1>6 DEF HandleLine
  <2>2. HandleLine(p, line).data = Append(p.data, ValueOf(line))
        /\ HandleLine(p, line).events = p.events
    BY <2>1 DEF Parsers
  <2> QED
    BY <1>2, <1>3, <1>6, <2>2 DEF data2, events2
<1>7. CASE line # <<>> /\ ~IsPrefix(DataField, line)
  <2>1. HandleLine(p, line) = p
    BY <1>7 DEF HandleLine
  <2> QED
    BY <1>2, <1>3, <1>7, <2>1 DEF data2, events2
<1> QED
  BY <1>4, <1>5, <1>6, <1>7

\* One character more.
LEMMA CharacterAgrees ==
    ASSUME dataLines \in Seq(Lines), NEW E \in Seq(Joinings),
           NEW text \in Texts, NEW ch \in Chars, NEW s \in Splitters,
           Agrees(text, s.buffer, s.pendingCr, Handle(s.lines).data, E \o Handle(s.lines).events)
    PROVE  LET r == Read(s, ch) IN
           Agrees(Append(text, ch), r.buffer, r.pendingCr,
                  Handle(r.lines).data, E \o Handle(r.lines).events)
<1> DEFINE n == Len(text)
           more == Append(text, ch)
           p == Handle(s.lines)
           r == Read(s, ch)
<1>1. s.buffer \in Lines /\ s.pendingCr \in BOOLEAN /\ s.lines \in Seq(Lines)
  BY DEF Splitters
<1>2. p \in Parsers
  BY <1>1, HandleStep
<1>3. /\ s.buffer = Line(text, n + 1) /\ (s.pendingCr <=> AfterCr(text))
      /\ (s.pendingCr => s.buffer = <<>>)
      /\ p.data = DataAt(text, n + 1) /\ E \o p.events = EventsIn(text)
  BY DEF Agrees
<1>4. n \in Nat /\ Len(more) = n + 1 /\ (AfterCr(more) <=> ch = Cr)
  <2>1. n \in Nat /\ Len(more) = n + 1 /\ more[n + 1] = ch
    BY TextIs, MoreIs
  <2> HIDE DEF more, n
  <2> QED
    BY <2>1 DEF AfterCr
<1>5. (n + 1) + 1 = n + 2
  BY <1>4
<1>6. Line(more, n + 2) = IF Ends(text, ch) \/ ch = Lf THEN <<>> ELSE Append(s.buffer, ch)
  BY <1>3, LineGrows
<1>7. CASE Ends(text, ch)
  <2>1. r = [buffer |-> <<>>, pendingCr |-> ch = Cr, lines |-> Append(s.lines, s.buffer)]
    BY <1>3, <1>7, FramingAssumptions DEF Read, Ends
  <2>2. Handle(Append(s.lines, s.buffer)) = HandleLine(p, s.buffer)
    BY <1>1, HandleStep
  <2>3. /\ HandleLine(p, s.buffer).data = DataAt(more, n + 2)
        /\ E \o HandleLine(p, s.buffer).events = EventsIn(more)
    <3> HIDE DEF p
    <3> QED
      BY <1>1, <1>2, <1>3, <1>7, LineHandled
  <2>4. /\ r.buffer = <<>> /\ (r.pendingCr <=> ch = Cr)
        /\ Handle(r.lines) = HandleLine(p, s.buffer)
    <3> HIDE DEF r, p
    <3> QED
      BY <2>1, <2>2
  <2>5. Line(more, n + 2) = <<>>
    BY <1>6, <1>7
  <2> HIDE DEF more, n, p, r
  <2> QED
    BY <1>4, <1>5, <2>3, <2>4, <2>5 DEF Agrees, more, r
<1>8. CASE ~Ends(text, ch)
  <2>1. /\ Handle(r.lines) = p /\ r.pendingCr = FALSE
        /\ r.buffer = IF ch = Lf THEN <<>> ELSE Append(s.buffer, ch)
    <3>1. CASE ch = Lf
      <4>1. s.pendingCr
        BY <1>3, <1>8, <3>1 DEF Ends
      <4>2. r = [s EXCEPT !.pendingCr = FALSE]
        BY <3>1, <4>1, FramingAssumptions DEF Read
      <4>3. r.lines = s.lines /\ r.buffer = s.buffer /\ r.pendingCr = FALSE
        BY <4>2 DEF Splitters
      <4> QED
        BY <1>3, <3>1, <4>1, <4>3
    <3>2. CASE ch # Lf
      <4>1. ch # Cr
        BY <1>8 DEF Ends
      <4>2. r = [s EXCEPT !.buffer = Append(@, ch), !.pendingCr = FALSE]
        BY <3>2, <4>1 DEF Read
      <4>3. r.lines = s.lines /\ r.buffer = Append(s.buffer, ch) /\ r.pendingCr = FALSE
        BY <4>2 DEF Splitters
      <4> QED
        BY <3>2, <4>3
    <3> QED
      BY <3>1, <3>2
  <2>2. ch # Cr
    BY <1>8 DEF Ends
  <2>3. DataAt(more, n + 2) = p.data
    BY <1>3, <1>8, DataGrows
  <2>4. EventsIn(more) = E \o p.events
    BY <1>3, <1>8, EventsGrow DEF Completes
  <2>5. Line(more, n + 2) = r.buffer
    BY <1>6, <1>8, <2>1
  <2> HIDE DEF more, n, p, r
  <2> QED
    BY <1>4, <1>5, <2>1, <2>2, <2>3, <2>4, <2>5 DEF Agrees, more, r
<1> QED
  BY <1>7, <1>8
\* A chunk more.
LEMMA ChunkAgrees ==
    ASSUME dataLines \in Seq(Lines), events \in Seq(Joinings), buffer \in Lines,
           pendingCr \in BOOLEAN, received \in Texts,
           Agrees(received, buffer, pendingCr, dataLines, events),
           NEW chunk \in Texts
    PROVE  LET split == Split(chunk)
               parsed == Handle(split.lines)
           IN  /\ split \in Splitters /\ parsed \in Parsers
               /\ Agrees(received \o chunk, split.buffer, split.pendingCr,
                         parsed.data, events \o parsed.events)
<1> DEFINE s0 == [buffer |-> buffer, pendingCr |-> pendingCr, lines |-> <<>>]
           n == Len(chunk)
           after(k) == ReadFrom(s0, chunk)[1..k]
           upTo(k) == received \o SubSeq(chunk, 1, k)
           Right(k) == Agrees(upTo(k), after(k).buffer, after(k).pendingCr,
                              Handle(after(k).lines).data, events \o Handle(after(k).lines).events)
           Good == {k \in 0..n : Right(k)}
<1>1. s0 \in Splitters
  BY DEF Splitters
<1>2. n \in Nat /\ DOMAIN chunk = 1..n /\ \A k \in 1..n : chunk[k] \in Chars
  BY TextIs
<1>3. /\ after(0) = s0
      /\ \A k \in 1..n : after(k) = Read(after(k - 1), chunk[k])
      /\ \A k \in 0..n : after(k) \in Splitters
  <2> HIDE DEF s0
  <2> QED
    BY <1>1, Reading DEF Texts
<1>4. \A k \in 0..n : upTo(k) \in Texts
  <2> TAKE k \in 0..n
  <2>1. \A i \in 1..k : i \in 1..n
    BY <1>2
  <2>2. SubSeq(chunk, 1, k) \in Seq(Chars)
    BY <1>2, <2>1, SubSeqProperties DEF Texts
  <2> QED
    BY <2>2, ConcatProperties DEF Texts
<1>5. \A k \in 1..n : upTo(k) = Append(upTo(k - 1), chunk[k])
  <2> TAKE k \in 1..n
  <2> DEFINE head == SubSeq(chunk, 1, k - 1)
             ch == chunk[k]
  <2>1. ch \in Chars
    BY <1>2
  <2>2. head \in Seq(Chars)
    <3>1. \A i \in 1..(k - 1) : i \in 1..n
      BY <1>2
    <3> QED
      BY <1>2, <3>1, SubSeqProperties DEF Texts
  <2>3. SubSeq(chunk, 1, k) = head \o <<ch>>
    <3>1. 1 \in 1..Len(chunk) /\ k \in 1..Len(chunk) /\ chunk \in Seq(Chars)
      BY <1>2 DEF Texts
    <3> QED
      BY <3>1, SubSeqRecursiveSecond
  <2> HIDE DEF head, ch
  <2>4. <<ch>> \in Seq(Chars) /\ received \in Seq(Chars)
    BY <2>1 DEF Texts
  <2>5. received \o (head \o <<ch>>) = (received \o head) \o <<ch>>
    BY <2>2, <2>4, ConcatAssociative
  <2>6. received \o head \in Seq(Chars)
    BY <2>2, <2>4, ConcatProperties
  <2>7. Append(received \o head, ch) = (received \o head) \o <<ch>>
    BY <2>1, <2>6, AppendIsConcat
  <2> QED
    BY <2>3, <2>5, <2>7 DEF head, ch
<1>6. received \o <<>> = received /\ events \o <<>> = events
  BY ConcatEmptySeq DEF Texts
<1>7. 0 \in Good
  <2>1. SubSeq(chunk, 1, 0) = <<>>
    BY SubSeqEmpty DEF Texts
  <2>2. upTo(0) = received
    BY <1>6, <2>1
  <2>3. /\ after(0).buffer = buffer /\ after(0).pendingCr = pendingCr
        /\ Handle(after(0).lines) = [data |-> dataLines, events |-> <<>>]
    BY <1>3, HandleStep
  <2>4. 0 \in 0..n
    BY <1>2
  <2> DEFINE p == Handle(after(0).lines)
  <2>6. p.data = dataLines /\ events \o p.events = events
    BY <1>6, <2>3
  <2> HIDE DEF after, upTo, p
  <2>5. Right(0)
    BY <2>2, <2>3, <2>6 DEF p
  <2> HIDE DEF Right
  <2> QED
    BY <2>4, <2>5
<1>8. ASSUME NEW k \in 1..n, k - 1 \in Good PROVE k \in Good
  <2> DEFINE text == upTo(k - 1)
             s == after(k - 1)
             ch == chunk[k]
  <2>1. k - 1 \in 0..n /\ k \in 0..n
    BY <1>2
  <2>2. text \in Texts /\ s \in Splitters /\ ch \in Chars
    BY <1>2, <1>3, <1>4, <2>1
  <2>3. Agrees(text, s.buffer, s.pendingCr, Handle(s.lines).data, events \o Handle(s.lines).events)
    BY <1>8
  <2>4. upTo(k) = Append(text, ch) /\ after(k) = Read(s, ch)
    BY <1>3, <1>5
  <2> HIDE DEF text, s, ch, upTo, after
  <2>5. LET r == Read(s, ch) IN
        Agrees(Append(text, ch), r.buffer, r.pendingCr,
               Handle(r.lines).data, events \o Handle(r.lines).events)
    BY <2>2, <2>3, CharacterAgrees
  <2>6. Right(k)
    BY <2>4, <2>5
  <2> HIDE DEF Right
  <2> QED
    BY <2>1, <2>6
<1>9. n \in Good
  <2> HIDE DEF Good, n
  <2>1. n \in Nat /\ n \in 0..n
    BY <1>2
  <2>2. 0..n \subseteq Good
    BY <1>7, <1>8, <2>1, Upward
  <2> QED
    BY <2>1, <2>2
<1>10. Split(chunk) = after(n)
  BY <1>2, SplitIsReading
<1>11. upTo(n) = received \o chunk
  <2>1. SubSeq(chunk, 1, n) = chunk
    BY SubSeqFull DEF Texts
  <2> QED
    BY <2>1
<1>12. n \in 0..n
  BY <1>2
<1>13. after(n) \in Splitters
  BY <1>3, <1>12
<1>14. Handle(after(n).lines) \in Parsers
  <2> HIDE DEF after, n
  <2>1. after(n).lines \in Seq(Lines)
    BY <1>13 DEF Splitters
  <2> QED
    BY <2>1, HandleStep
<1>15. Right(n)
  BY <1>9
<1> HIDE DEF after, upTo
<1> QED
  BY <1>10, <1>11, <1>13, <1>14, <1>15

\* The end of the response is as good as two LF.
LEMMA EndAgrees ==
    ASSUME dataLines \in Seq(Lines), events \in Seq(Joinings), buffer \in Lines,
           pendingCr \in BOOLEAN, received \in Texts,
           Agrees(received, buffer, pendingCr, dataLines, events)
    PROVE  LET last == IF buffer = <<>> THEN <<>> ELSE <<buffer>> IN
           /\ Dispatch(Handle(last)) \in Parsers
           /\ events \o Dispatch(Handle(last)).events = EventsIn(received \o <<Lf, Lf>>)
<1> DEFINE chunk == <<Lf, Lf>>
           s0 == [buffer |-> buffer, pendingCr |-> pendingCr, lines |-> <<>>]
           r1 == Read(s0, Lf)
           r2 == Read(r1, Lf)
           p0 == [data |-> dataLines, events |-> <<>>]
           last == IF buffer = <<>> THEN <<>> ELSE <<buffer>>
<1>1. chunk \in Texts /\ Len(chunk) = 2 /\ chunk[1] = Lf /\ chunk[2] = Lf /\ DOMAIN chunk = 1..2
  BY DEF Texts, Chars
<1>2. s0 \in Splitters /\ Lf \in Chars
  BY DEF Splitters, Chars
<1>3. Split(chunk) = r2
  <2> DEFINE iter == ReadFrom(s0, chunk)
  <2> HIDE DEF chunk, s0
  <2>1. /\ iter[1..0] = s0
        /\ \A k \in 1..Len(chunk) : iter[1..k] = Read(iter[1..(k - 1)], chunk[k])
    BY <1>1, <1>2, Reading DEF Texts
  <2> HIDE DEF iter
  <2>2. 1 \in 1..2 /\ 2 \in 1..2 /\ 1 - 1 = 0 /\ 2 - 1 = 1
    OBVIOUS
  <2>3. iter[1..1] = Read(iter[1..0], chunk[1])
    BY <1>1, <2>1, <2>2
  <2>4. iter[1..2] = Read(iter[1..1], chunk[2])
    BY <1>1, <2>1, <2>2
  <2>5. Split(chunk) = iter[1..2]
    BY <1>1, SplitIsReading DEF iter, s0
  <2> QED
    BY <1>1, <2>1, <2>3, <2>4, <2>5
<1>4. /\ Handle(<<>>) = p0
      /\ p0 \in Parsers
      /\ \A lines \in Seq(Lines), line \in Lines :
            Handle(Append(lines, line)) = HandleLine(Handle(lines), line)
  BY HandleStep DEF Parsers
<1>5. <<>> \in Lines /\ <<>> \in Seq(Lines) /\ <<buffer>> \in Seq(Lines)
  BY DEF Lines
<1>6. Handle(<<buffer>>) = HandleLine(p0, buffer)
  <2>1. Append(<<>>, buffer) = <<buffer>>
    BY DEF Lines
  <2> QED
    BY <1>4, <1>5, <2>1
<1>7. HandleLine(p0, <<>>) = Dispatch(p0)
  BY BlankIsNoData DEF HandleLine
<1>8. Handle(last) \in Parsers
  BY <1>4, <1>5, HandleStep
<1>9. Dispatch(Handle(last)) \in Parsers
  BY <1>8, DispatchTyped
<1>10. Handle(r2.lines).events = Dispatch(Handle(last)).events
  <2>1. CASE pendingCr
    <3>1. buffer = <<>>
      BY <2>1 DEF Agrees
    <3>2. r1 = [buffer |-> <<>>, pendingCr |-> FALSE, lines |-> <<>>]
      BY <2>1, <3>1, FramingAssumptions DEF Read
    <3>3. r2.lines = Append(<<>>, <<>>)
      BY <3>2, FramingAssumptions DEF Read
    <3>4. Handle(r2.lines) = HandleLine(p0, <<>>)
      BY <1>4, <1>5, <3>3
    <3> QED
      BY <1>4, <1>7, <3>1, <3>4
  <2>2. CASE ~pendingCr
    <3>1. r1 = [buffer |-> <<>>, pendingCr |-> FALSE, lines |-> Append(<<>>, buffer)]
      BY <2>2, FramingAssumptions DEF Read
    <3>2. r2.lines = Append(Append(<<>>, buffer), <<>>)
      BY <3>1, FramingAssumptions DEF Read
    <3>3. Append(<<>>, buffer) = <<buffer>>
      BY DEF Lines
    <3>4. Handle(r2.lines) = HandleLine(HandleLine(p0, buffer), <<>>)
      BY <1>4, <1>5, <1>6, <3>2, <3>3
    <3>5. HandleLine(HandleLine(p0, buffer), <<>>) = Dispatch(HandleLine(p0, buffer))
      BY BlankIsNoData DEF HandleLine
    <3>6. CASE buffer # <<>>
      BY <1>6, <3>4, <3>5, <3>6
    <3>7. CASE buffer = <<>>
      <4>1. Dispatch(Dispatch(p0)) = Dispatch(p0)
        BY DEF Dispatch
      <4> QED
        BY <1>4, <1>7, <3>4, <3>5, <3>7, <4>1
    <3> QED
      BY <3>6, <3>7
  <2> QED
    BY <2>1, <2>2
<1>11. EventsIn(received \o chunk) = events \o Handle(r2.lines).events
  <2> HIDE DEF chunk, r2
  <2> QED
    BY <1>1, <1>3, ChunkAgrees DEF Agrees
<1> QED
  BY <1>9, <1>10, <1>11

-----------------------------------------------------------------------------
(* The specification *)

\* The inductive invariant: until the end, all five parts of the state are what the
\* reference makes of the text so far.
IInv ==
    /\ received \in Texts
    /\ buffer \in Lines
    /\ pendingCr \in BOOLEAN
    /\ dataLines \in Seq(Lines)
    /\ events \in Seq(Joinings)
    /\ flushed \in BOOLEAN
    /\ ~flushed => Agrees(received, buffer, pendingCr, dataLines, events)
    /\ FramedAsWhole

LEMMA InitIInv == ASSUME Init PROVE IInv
<1> USE DEF Init
<1>1. received \in Texts /\ Len(received) = 0 /\ LineEnds(received) = {}
  BY DEF Texts, LineEnds
<1>2. Line(received, 1) = <<>>
  BY <1>1 DEF Line, LineEnding, LineStart
<1>3. Before(received, 1) = {}
  BY <1>1 DEF Before, DataBefore
<1>4. DataAt(received, 1) = <<>>
  <2>1. 1 \in 1..(Len(received) + 2)
    BY <1>1
  <2> QED
    BY <1>1, <1>3, <2>1, DataIs
<1>5. EventsIn(received) = <<>>
  <2>1. Closing(received) = {}
    BY <1>1 DEF Closing
  <2>2. DOMAIN InOrder({}) = {}
    BY InOrderOfNone
  <2>3. EventsIn(received) = [k \in {} |-> Joined(DataAt(received, InOrder({})[k]))]
    BY <2>1, <2>2 DEF EventsIn
  <2> QED
    BY <2>3
<1>6. Agrees(received, buffer, pendingCr, dataLines, events)
  <2>1. Len(received) + 1 = 1 /\ ~AfterCr(received)
    BY <1>1 DEF AfterCr
  <2> QED
    BY <1>2, <1>4, <1>5, <2>1 DEF Agrees
<1>7. FramedAsWhole
  BY <1>5 DEF FramedAsWhole
<1>8. buffer \in Lines /\ dataLines \in Seq(Lines) /\ events \in Seq(Joinings)
  BY DEF Lines
<1> QED
  BY <1>1, <1>6, <1>7, <1>8 DEF IInv

LEMMA NextIInv == ASSUME IInv, [Next]_vars PROVE IInv'
<1>1. CASE UNCHANGED vars
  BY <1>1 DEF IInv, vars, splitter, Agrees, FramedAsWhole
<1>2. ASSUME NEW chunk \in BoundedSeq(Chars, MaxChunk), Feed(chunk) PROVE IInv'
  <2>1. chunk \in Texts
    BY FramingAssumptions DEF BoundedSeq, SeqOf, Texts
  <2> DEFINE split == Split(chunk)
             parsed == Handle(split.lines)
  <2>2. ~flushed /\ Agrees(received, buffer, pendingCr, dataLines, events)
    BY <1>2 DEF IInv, Feed
  <2>3. /\ split \in Splitters /\ parsed \in Parsers
        /\ Agrees(received \o chunk, split.buffer, split.pendingCr,
                  parsed.data, events \o parsed.events)
    BY <2>1, <2>2, ChunkAgrees DEF IInv
  <2>4. /\ buffer' = split.buffer /\ pendingCr' = split.pendingCr
        /\ dataLines' = parsed.data /\ events' = events \o parsed.events
        /\ received' = received \o chunk /\ flushed' = flushed
    BY <1>2 DEF Feed
  <2> HIDE DEF split, parsed
  <2>5. /\ buffer' \in Lines /\ pendingCr' \in BOOLEAN /\ dataLines' \in Seq(Lines)
    BY <2>3, <2>4 DEF Splitters, Parsers
  <2>6. received' \in Texts /\ events' \in Seq(Joinings)
    <3>1. parsed.events \in Seq(Joinings)
      BY <2>3 DEF Parsers
    <3> QED
      BY <2>1, <2>4, <3>1, ConcatProperties DEF IInv, Texts
  <2>7. Agrees(received', buffer', pendingCr', dataLines', events')
    BY <2>3, <2>4
  <2>8. FramedAsWhole'
    BY <2>2, <2>4, <2>7 DEF FramedAsWhole, Agrees
  <2> QED
    BY <2>2, <2>4, <2>5, <2>6, <2>7, <2>8 DEF IInv, Agrees
<1>3. CASE Flush
  <2> DEFINE last == IF buffer = <<>> THEN <<>> ELSE <<buffer>>
             parsed == Dispatch(Handle(last))
  <2>1. ~flushed /\ Agrees(received, buffer, pendingCr, dataLines, events)
    BY <1>3 DEF IInv, Flush
  <2>2. parsed \in Parsers /\ events \o parsed.events = EventsIn(received \o <<Lf, Lf>>)
    BY <2>1, EndAgrees DEF IInv
  <2>3. /\ buffer' = <<>> /\ pendingCr' = FALSE /\ dataLines' = <<>> /\ flushed' = TRUE
        /\ events' = events \o parsed.events /\ received' = received
    BY <1>3 DEF Flush
  <2> HIDE DEF parsed
  <2>4. events' \in Seq(Joinings)
    <3>1. parsed.events \in Seq(Joinings)
      BY <2>2 DEF Parsers
    <3> QED
      BY <2>3, <3>1, ConcatProperties DEF IInv
  <2>5. FramedAsWhole'
    BY <2>2, <2>3 DEF FramedAsWhole
  <2>6. buffer' \in Lines /\ dataLines' \in Seq(Lines) /\ received' \in Texts
    BY <2>3 DEF IInv, Lines
  <2> QED
    BY <2>3, <2>4, <2>5, <2>6 DEF IInv
<1> QED
  BY <1>1, <1>2, <1>3 DEF Next

\* However the network cuts a response, the parser makes of it the events of the whole.
THEOREM FramedAsWholeHolds == Spec => []FramedAsWhole
<1>1. Init => IInv
  BY InitIInv
<1>2. IInv /\ [Next]_vars => IInv'
  BY NextIInv
<1>3. IInv => FramedAsWhole
  BY DEF IInv
<1> QED
  BY <1>1, <1>2, <1>3, PTL DEF Spec
=============================================================================
