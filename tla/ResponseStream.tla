-------------------------- MODULE ResponseStream --------------------------
(***************************************************************************)
(* _generate_sse (src/src/proxy/routes.py): the generator between the      *)
(* upstream's event stream and the client's, with the SlidingWindow it     *)
(* owns.  The upstream's bytes arrive in network chunks; SSEEventParser    *)
(* makes of each chunk a batch of complete events and keeps the event that *)
(* is still under way.  Events are handled one by one, and between any two *)
(* the upstream may drop or the client disconnect.                         *)
(*                                                                         *)
(* The window is module SlidingWindow's: its variables, Feed and Flush.    *)
(* The stream feeds it, so SlidingWindow's Chunks, MaxText and Futures,    *)
(* which are of the window by itself, play no part here.                   *)
(*                                                                         *)
(* An event is [kind, text, mark].  "content" has a content slot and its   *)
(* text (the role chunk's is empty), "structural" has none (the            *)
(* finish_reason chunk), "done" is [DONE], "malformed" is what parse_event *)
(* raises UpstreamError for.  The mark stands for the rest of the envelope.*)
(***************************************************************************)
EXTENDS SlidingWindow, FiniteSetsExt

CONSTANTS
    Events,     \* the events an upstream may send
    MaxEvents,  \* bound of the events of one response
    MaxBatch,   \* bound of the events one network chunk completes
    Nothing

Kinds == {"content", "structural", "done", "malformed"}
Marks == {"plain", "finish", "usage"}

ASSUME StreamAssumptions ==
    /\ MaxEvents \in Nat
    /\ MaxBatch \in Nat
    /\ Events \subseteq [kind : Kinds, text : Seq(Chars), mark : Marks]
    /\ \A event \in Events : event.kind # "content" => event.text = <<>>
    /\ Nothing \notin Events

VARIABLES
    upstream,    \* history: the events the upstream has begun to send
    partial,     \* the event the parser has not seen the end of
    batch,       \* events the parser has returned and the loop has not handled
    lastContent, \* last_content_delta
    structural,  \* pending_structural_delta
    pc,
    connected,   \* stream_ctx is open
    out          \* what has been yielded to the client

vars ==
    <<windowVars, upstream, partial, batch, lastContent, structural, pc, connected, out>>

Maybe(S) == S \cup {Nothing}

TypeOK ==
    /\ WindowTypeOK
    /\ upstream \in Seq(Events)
    /\ partial \in Maybe(Events)
    /\ batch \in Seq(Events)
    /\ lastContent \in Maybe(Events)
    /\ structural \in Maybe(Events)
    /\ pc \in {"reading", "draining", "finishing", "ended", "cut"}
    /\ connected \in BOOLEAN
    /\ out \in Seq([kind : Kinds, text : Seq(Chars), mark : Marks])

Init ==
    /\ WindowInit
    /\ upstream = <<>>
    /\ partial = Nothing
    /\ batch = <<>>
    /\ lastContent = Nothing
    /\ structural = Nothing
    /\ pc = "reading"
    /\ connected = TRUE
    /\ out = <<>>
-----------------------------------------------------------------------------
(* What is yielded *)

\* serialize_content_delta, which writes the text into a content slot only.
Carried(event, text) ==
    <<[event EXCEPT !.text = IF event.kind = "content" THEN text ELSE <<>>]>>

\* A release is yielded in its carrier's envelope, if there is anything to yield.
Release(event, text) ==
    IF text = <<>> \/ event = Nothing THEN <<>> ELSE Carried(event, text)

Done == <<[kind |-> "done", text |-> <<>>, mark |-> "plain"]>>

\* Mutant: the last text goes out in the envelope of the last event of any kind.
EndingLastEvent ==
    LET carrier == IF structural = Nothing THEN lastContent ELSE structural IN
    Release(carrier, Transform(buffer))
        \o (IF structural = Nothing THEN <<>> ELSE Carried(structural, <<>>)) \o Done

\* Mutant: the structural event goes out ahead of the window's remainder.
EndingStructuralFirst ==
    (IF structural = Nothing THEN <<>> ELSE Carried(structural, <<>>))
        \o Release(lastContent, Transform(buffer)) \o Done

\* The end of every stream: the remainder, the structural event, [DONE].
Ending ==
    Release(lastContent, Transform(buffer))
        \o (IF structural = Nothing THEN <<>> ELSE Carried(structural, <<>>)) \o Done
-----------------------------------------------------------------------------
(* The loop over the upstream *)

\* The next network chunk ends the event under way, holds some whole events, and
\* begins another.
Receive(events, next) ==
    /\ pc = "reading" /\ batch = <<>>
    /\ batch' = (IF partial = Nothing THEN <<>> ELSE <<partial>>) \o events
    /\ partial' = next
    /\ upstream' = upstream \o events \o (IF next = Nothing THEN <<>> ELSE <<next>>)
    /\ UNCHANGED <<windowVars, lastContent, structural, pc, connected, out>>

\* An event with a content slot, from the loop or from the final flush of the parser.
TakeContent(event) ==
    /\ event.kind = "content"
    /\ lastContent' = event
    /\ Feed(event.text)
    /\ out' = out \o Release(event, Excess(Transform(buffer \o event.text)))
    /\ UNCHANGED structural

\* An event without one waits for the end; a later one takes its place.
TakeStructural(event) ==
    /\ event.kind = "structural"
    /\ structural' = event
    /\ UNCHANGED <<windowVars, lastContent, out>>

HandleDelta ==
    /\ pc = "reading" /\ batch # <<>>
    /\ TakeContent(Head(batch)) \/ TakeStructural(Head(batch))
    /\ batch' = Tail(batch)
    /\ UNCHANGED <<upstream, partial, pc, connected>>

\* Mutant: [DONE] returns without leaving the upstream's context.
HandleDoneStillOpen ==
    /\ pc = "reading" /\ batch # <<>>
    /\ Head(batch).kind = "done"
    /\ Flush
    /\ out' = out \o Ending
    /\ pc' = "ended"
    /\ batch' = <<>>
    /\ UNCHANGED <<upstream, partial, lastContent, structural, connected>>

\* [DONE]: flush, and return through the finally.
HandleDone ==
    /\ pc = "reading" /\ batch # <<>>
    /\ Head(batch).kind = "done"
    /\ Flush
    /\ out' = out \o Ending
    /\ pc' = "ended"
    /\ batch' = <<>>
    /\ connected' = FALSE
    /\ UNCHANGED <<upstream, partial, lastContent, structural>>

\* parse_event raises: the rest of the batch is lost, and the loop is left.
HandleMalformed ==
    /\ pc = "reading" /\ batch # <<>>
    /\ Head(batch).kind = "malformed"
    /\ pc' = "draining"
    /\ batch' = <<>>
    /\ connected' = FALSE
    /\ UNCHANGED <<windowVars, upstream, partial, lastContent, structural, out>>

\* Mutant: no read timeout, and the loop waits for [DONE].
UpstreamEndsAfterDone ==
    /\ pc = "reading" /\ batch = <<>>
    /\ \E i \in 1..Len(upstream) : upstream[i].kind = "done"
    /\ pc' = "draining"
    /\ connected' = FALSE
    /\ UNCHANGED <<windowVars, upstream, partial, batch, lastContent, structural, out>>

\* The upstream closes, or drops, or is silent for upstream_timeout.
UpstreamEnds ==
    /\ pc = "reading" /\ batch = <<>>
    /\ pc' = "draining"
    /\ connected' = FALSE
    /\ UNCHANGED <<windowVars, upstream, partial, batch, lastContent, structural, out>>
-----------------------------------------------------------------------------
(* After the loop *)

\* parser.flush() yields the event under way, if its data had arrived in full.
DrainDelta ==
    /\ pc = "draining" /\ partial # Nothing
    /\ TakeContent(partial) \/ TakeStructural(partial)
    /\ partial' = Nothing
    /\ pc' = "finishing"
    /\ UNCHANGED <<upstream, batch, connected>>

\* There was none, or it was cut in the middle, or it was [DONE].
DrainNothing ==
    /\ pc = "draining"
    /\ partial' = Nothing
    /\ pc' = "finishing"
    /\ UNCHANGED <<windowVars, upstream, batch, lastContent, structural, connected, out>>

\* Mutant: no flush at the end of a stream without [DONE].
FinishUnflushed ==
    /\ pc = "finishing"
    /\ out' = out \o Done
    /\ pc' = "ended"
    /\ UNCHANGED <<windowVars, upstream, partial, batch, lastContent, structural, connected>>

Finish ==
    /\ pc = "finishing"
    /\ Flush
    /\ out' = out \o Ending
    /\ pc' = "ended"
    /\ UNCHANGED <<upstream, partial, batch, lastContent, structural, connected>>

\* The client goes away: the generator is closed where it is suspended.
Disconnect ==
    /\ pc \in {"reading", "draining", "finishing"}
    /\ pc' = "cut"
    /\ connected' = FALSE
    /\ UNCHANGED <<windowVars, upstream, partial, batch, lastContent, structural, out>>

\* What the generator and the upstream do, the client aside.
Run ==
    \/ \E events \in BoundedSeq(Events, MaxBatch), next \in Maybe(Events) :
          /\ Len(upstream) + Len(events) < MaxEvents
          /\ Receive(events, next)
    \/ HandleDelta
    \/ HandleDone
    \/ HandleMalformed
    \/ UpstreamEnds
    \/ DrainDelta
    \/ DrainNothing
    \/ Finish

Next == Run \/ Disconnect

\* A network read returns or times out (httpx's timeout), and the generator runs on;
\* nothing is assumed of the client.
Spec == Init /\ [][Next]_vars /\ WF_vars(Run)
-----------------------------------------------------------------------------
(* Properties *)

TextOf(items) == FoldLeft(LAMBDA text, item : text \o item.text, <<>>, items)

\* The structural event that counts, if there is one.
LastStructural(items) ==
    LET places == {i \in DOMAIN items : items[i].kind = "structural"} IN
    IF places = {} THEN Nothing ELSE items[Max(places)]

\* The upstream's answer: its events up to [DONE] or to the first malformed one.
Answer ==
    LET ends == {i \in 1..Len(upstream) : upstream[i].kind \in {"done", "malformed"}}
    IN  IF ends = {} THEN upstream ELSE SubSeq(upstream, 1, Min(ends) - 1)

Delivered(events) ==
    /\ TextOf(out) = Transform(TextOf(events))
    /\ LastStructural(out) = LastStructural(events)

\* The event under way when a malformed one ended the loop.
BehindMalformed ==
    IF Answer # upstream /\ upstream[Len(Answer) + 1].kind = "malformed"
    THEN <<Last(upstream)>> ELSE <<>>

\* A stream that ends has delivered the whole answer, rehydrated, with its structural
\* event; if the upstream dropped, all but the event that was cut ("truncated final
\* output, the last sentence of every response", sliding_window.py); and of what came
\* behind a malformed event at most the one that was under way.  So for every answer in
\* which the surrogates stand apart.
WholeAnswer ==
    pc = "ended" /\ Standing(Known, TextOf(Answer \o BehindMalformed)) =>
        \/ Delivered(Answer)
        \/ Answer = upstream /\ upstream # <<>> /\ Delivered(Front(upstream))
        \/ Delivered(Answer \o BehindMalformed)

\* Every character the window lets go reaches the client, in order: there always is
\* an envelope with a content slot to carry it (_has_content_slot).
ReleasedReachesClient == TextOf(out) = released

\* The client gets content, then at most one structural event, then one [DONE] and
\* nothing after it ("finish_reason must be the last signal", routes.py).
WellOrdered ==
    \A i, j \in 1..Len(out) : i < j =>
        /\ out[i].kind # "done"
        /\ out[i].kind = "structural" => out[j].kind = "done"

\* Once the loop over the upstream is left, on whatever path, the connection has
\* been given back.
ConnectionReleased == pc # "reading" => ~connected

\* A response does not stay open: the stream ends, or the client has left.
Terminates == <>(pc \in {"ended", "cut"})
=============================================================================
