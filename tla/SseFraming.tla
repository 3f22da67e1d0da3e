---------------------------- MODULE SseFraming ----------------------------
(***************************************************************************)
(* src/src/proxy/sse_framing.py: the decoded text of an upstream response  *)
(* arrives in network chunks that end anywhere, and SSEEventParser makes   *)
(* events of it.  _LineSplitter is a state machine over characters (a line *)
(* ends at CR LF, LF or CR); the parser is one over lines (a blank line    *)
(* ends the event, data lines add to it, other lines are discarded).       *)
(*                                                                         *)
(* Whether the two machines agree with the rules they implement is asked   *)
(* of a reference that sees the whole text at once and looks for the ends  *)
(* of lines and of events by their places.                                 *)
(***************************************************************************)
EXTENDS Integers, Sequences, SequencesExt, FiniteSetsExt

CONSTANTS
    Cr, Lf, Space,
    Others,      \* the other characters
    DataField,   \* "data:", a sequence of other characters
    MaxText,     \* bound of a response's text
    MaxChunk     \* bound of one network chunk

Chars == {Cr, Lf, Space} \cup Others

ASSUME FramingAssumptions ==
    /\ Cr # Lf /\ Cr # Space /\ Lf # Space /\ {Cr, Lf, Space} \cap Others = {}
    /\ DataField \in Seq(Others) /\ DataField # <<>>
    /\ MaxText \in Nat /\ MaxChunk \in Nat

VARIABLES
    buffer, pendingCr,  \* _LineSplitter
    dataLines,          \* SSEEventParser
    received,           \* history: the text so far
    events,             \* history: the data of the events returned so far
    flushed             \* flush() has been called

splitter == <<buffer, pendingCr>>
vars == <<splitter, dataLines, received, events, flushed>>

TypeOK ==
    /\ buffer \in Seq(Chars \ {Cr, Lf})
    /\ pendingCr \in BOOLEAN
    /\ dataLines \in Seq(Seq(Chars \ {Cr, Lf}))
    /\ received \in Seq(Chars)
    /\ events \in Seq(Seq(Chars \ {Cr}))
    /\ flushed \in BOOLEAN

Init ==
    /\ buffer = <<>> /\ pendingCr = FALSE
    /\ dataLines = <<>>
    /\ received = <<>>
    /\ events = <<>>
    /\ flushed = FALSE
-----------------------------------------------------------------------------
(* _LineSplitter *)

\* One character: the LF behind a CR belongs to a line that has ended already.
Read(s, ch) ==
    CASE s.pendingCr /\ ch = Lf -> [s EXCEPT !.pendingCr = FALSE]
      [] ch = Cr \/ (ch = Lf /\ ~s.pendingCr) ->
            [buffer |-> <<>>, pendingCr |-> ch = Cr, lines |-> Append(s.lines, s.buffer)]
      [] OTHER -> [s EXCEPT !.buffer = Append(@, ch), !.pendingCr = FALSE]

\* Mutant: each chunk is read for itself, as str.splitlines would.
SplitAfresh(chunk) ==
    FoldLeft(Read, [buffer |-> buffer, pendingCr |-> FALSE, lines |-> <<>>], chunk)

\* The splitter behind a chunk, and the lines the chunk has completed.
Split(chunk) ==
    FoldLeft(Read, [buffer |-> buffer, pendingCr |-> pendingCr, lines |-> <<>>], chunk)
-----------------------------------------------------------------------------
(* SSEEventParser *)

Joined(lines) ==
    IF lines = <<>> THEN <<>>
    ELSE FoldLeft(LAMBDA text, line : text \o <<Lf>> \o line, Head(lines), Tail(lines))

\* What follows the field's name, without one leading space.
ValueOf(line) ==
    LET value == SubSeq(line, Len(DataField) + 1, Len(line)) IN
    IF value # <<>> /\ Head(value) = Space THEN Tail(value) ELSE value

\* The event under way, if there is one, is complete.
Dispatch(p) ==
    IF p.data = <<>> THEN p
    ELSE [data |-> <<>>, events |-> Append(p.events, Joined(p.data))]

HandleLine(p, line) ==
    CASE line = <<>> -> Dispatch(p)
      [] IsPrefix(DataField, line) -> [p EXCEPT !.data = Append(@, ValueOf(line))]
      [] OTHER -> p

Handle(lines) == FoldLeft(HandleLine, [data |-> dataLines, events |-> <<>>], lines)

Feed(chunk) ==
    /\ ~flushed
    /\ LET split == Split(chunk)
           parsed == Handle(split.lines)
       IN  /\ buffer' = split.buffer
           /\ pendingCr' = split.pendingCr
           /\ dataLines' = parsed.data
           /\ events' = events \o parsed.events
    /\ received' = received \o chunk
    /\ UNCHANGED flushed

\* The response has ended: the line under way is the last one, and so is the event.
Flush ==
    /\ ~flushed
    /\ LET last == IF buffer = <<>> THEN <<>> ELSE <<buffer>>
           parsed == Dispatch(Handle(last))
       IN  events' = events \o parsed.events
    /\ buffer' = <<>>
    /\ pendingCr' = FALSE
    /\ dataLines' = <<>>
    /\ flushed' = TRUE
    /\ UNCHANGED received

Next ==
    \/ \E chunk \in BoundedSeq(Chars, MaxChunk) :
          /\ Len(received) + Len(chunk) <= MaxText
          /\ Feed(chunk)
    \/ Flush

Spec == Init /\ [][Next]_vars
-----------------------------------------------------------------------------
(* The reference: the events of a whole text *)

\* Where a line ends: at a CR, and at an LF that is not the second half of a CR LF.
LineEnds(text) ==
    {i \in DOMAIN text :
        text[i] = Cr \/ (text[i] = Lf /\ ~(i > 1 /\ text[i - 1] = Cr))}

\* The line that ends there, or that is under way there, begins behind the line before
\* it, and behind the LF of a CR LF.
LineStart(text, ends, i) ==
    LET last == Max({0} \cup {j \in ends : j < i})
        inCrLf == 0 < last /\ last + 1 < i /\ text[last] = Cr /\ text[last + 1] = Lf
    IN  IF inCrLf THEN last + 2 ELSE last + 1

LineEnding(text, ends, i) == SubSeq(text, LineStart(text, ends, i), i - 1)

\* The data lines since the last blank one before i, as the places of their ends.
DataBefore(text, ends, i) ==
    {j \in ends :
        /\ j < i
        /\ IsPrefix(DataField, LineEnding(text, ends, j))
        /\ \A k \in ends : j < k /\ k < i => LineEnding(text, ends, k) # <<>>}

\* The one of the places with as many of them before it, and itself.
OfRank(places, n) == {i \in places : Cardinality({j \in places : j <= i}) = n}
Only(set) == CHOOSE i \in set : TRUE
InOrder(places) == [n \in 1..Cardinality(places) |-> Only(OfRank(places, n))]

\* What those data lines hold, in their order.
DataAt(text, i) ==
    LET ends == LineEnds(text)
        order == InOrder(DataBefore(text, ends, i))
    IN  [n \in DOMAIN order |-> ValueOf(LineEnding(text, ends, order[n]))]

\* An event is a blank line with data lines before it.
Closing(text) ==
    LET ends == LineEnds(text) IN
    {i \in ends : LineEnding(text, ends, i) = <<>> /\ DataBefore(text, ends, i) # {}}

EventsIn(text) ==
    LET order == InOrder(Closing(text)) IN
    [n \in DOMAIN order |-> Joined(DataAt(text, order[n]))]

\* However the network cuts a response, its events are those of the whole text; at the
\* end the event under way is among them ("correct regardless of where the
\* fragmentation lands", sse_framing.py).
FramedAsWhole ==
    events = EventsIn(IF flushed THEN received \o <<Lf, Lf>> ELSE received)
=============================================================================
