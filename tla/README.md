# TLA+ models of the LLM privacy gateway

The gateway sits between a chat client and an OpenAI-compatible provider. On
the way in it finds personal data in the request body and replaces each
occurrence by a *surrogate* that looks like the real thing; on the way out it
puts the real values back, also when the answer is streamed in chunks. What it
knows about a conversation lives in memory, in a `Session`.

This directory holds TLA+ models of that program, the TLC runs that check them
on small instances, and TLAPS proofs of the main results for every value of the
constants. `PROJECT.json` maps every definition to the lines it translates.

    tlc -workers 2 -config MCSession.cfg MCSession      # check a model
    tlapm SessionProofs.tla                             # check proofs

## Inventory

| part | state it keeps | operations | what makes it correct |
| --- | --- | --- | --- |
| `session/session.py` | name maps both ways, registry of minted surrogates, last access | allocate or look up a name, record a surrogate, snapshot, resolve, touch | one-to-one and permanent name map; a surrogate is only ever restored to a value it has replaced, also from a snapshot |
| `session/store.py` | an `OrderedDict` of sessions | `get_or_create`: look up, touch, replace, evict, create | hard cap; the least recently used one evicted; the right conversation; no two live sessions for one id; a session in use is not replaced |
| `detect/` (cascade, precedence, tiers) | none | report spans, resolve overlaps, recognise replays | no overlap; nothing given up without reason; Tier 1 unaffected by Tier 2 |
| `pipeline/sanitize.py`, `field_walker.py` | none; mints into the session | walk the body's regions, splice surrogates | fully sanitized or not forwarded; splices land where they should |
| `surrogate/` | none (keys from the environment) | FF1 encrypt and decrypt per format | a bijection on every format; a surrogate looks like what it replaces |
| `pipeline/rehydrate.py` | none | replace known surrogates in a text | the longest known surrogate, one pass |
| `pipeline/sliding_window.py` | retained text, flushed flag | feed, flush | streamed equals whole; bounded retention |
| `proxy/sse_framing.py`, `chat_stream.py` | partial line and event | bytes to events, events to envelopes | framing independent of chunk boundaries |
| `proxy/routes.py` | locals of each handler and generator | take a request, forward it, answer or stream | order of events, connection given back, honest ends, own session throughout |
| `core/`, `app/main.py`, the `get_*` factories | settings, one cached object per factory | start, warm-up, resolve dependencies; fail mode, errors to statuses | no request without an answer; one object of a kind for the whole process |
| `mock_upstream/`, `core/chunking.py` | none | echo a message, whole or in pieces | pieces make up the whole; the gateway's parser finds every object |
| `benchmarks/`, `adversarial/`, `latency/`, `rehydration_fidelity/` | | offline measurements | not modelled |

Interaction: a handler is a coroutine on one event loop. It gets its session
from the store *before* its first await and keeps that object to the end of the
answer. Handlers of one conversation share a session; all share the store. The
session and the store have locks of their own, because `session.py` also
promises safety in worker threads. The hard behaviours are the unlocked gaps
between locked sections, what happens to the session while a handler awaits,
chunk boundaries that cut surrogates and events anywhere, failures after some
of a request's surrogates are minted, and upstreams that drop, stall, refuse or
talk nonsense.

## Modules

`Session` - one Session object under callers that sanitize or rehydrate. Each
method is one step (it holds the lock for its whole body); between recognising
a span and substituting it, and between a snapshot and the lookup of a match,
others may run. Real values and surrogates are drawn from one set, because
nothing in the code tells them apart. Each structured type has a cipher of its own,
and two types of one format may give two values the same surrogate, whose entry in
the registry is then overwritten. `Plain` is a text with its digits in ASCII, which
is how a domain writes what it decrypts. `sent` is a history.
`SurrogateLedger` is what a session promises about names; `ImplementsLedger`
is the refinement, with `ledger <- forward`.

`SessionStore` - `get_or_create` as four steps: read the clock and begin, look
up under the store lock, touch under the session's lock, settle under the store
lock. `mode` chooses between interleaving these with other threads' and running
a call in one piece as the event loop does. The `OrderedDict` is its contents
(`entry`) and its order (`older`); Session objects are identities that may be
reused once nobody refers to them.

`SessionMap` is what the store promises its callers, without time, order or locks:
a call gives the session that is stored under its id, or a new one that it stores,
in one step. `AtomicOnEventLoop` is the refinement, with `held <- result`: of the
steps of a call all but the last are stutters. It is stated of the event loop; a
worker thread may be given a session that another call has replaced meanwhile,
which the map never does.

`Rehydration` - the single left-to-right pass of `re.sub` over an alternation,
longest first, as a function on sequences of characters. `Standing` says of a text
that the surrogates in it stand apart: no two share a character, and what is put in
for the last one of a beginning does not, with what surrounds it, look like a
surrogate again.

`SlidingWindow` - feed and flush, with `rehydrate` over a registry `Known` as the
injected transform. Any registry will do: surrogates may be parts of each other, real
values may be longer than surrogates and look like them or their beginnings. The
registry does not change while a response lasts.

`ResponseStream` - `_generate_sse` around a window (it extends `SlidingWindow`
and takes its feeds and flushes) and an event parser that hands out whole events and keeps the
one under way. One step per event; the upstream may drop and the client
disconnect between any two.

`Detection` - one region: the reports of the detectors, `precedence.resolve`
span by span, ingress recognition, and the splices from right to left. A
character is named by its place and a surrogate by its span, so a splice in the
wrong place is visible.

`Gateway` - `chat_completions` end to end for several requests, composed of
the abstractions the other modules justify: a session is a one-to-one ledger
(`SurrogateLedger`), the store an instance of `SessionMap`, whose steps are
conjuncts of `Rejoin`, `Open` and `OpenEvicting`, and an answer is one text.
`running` is the handler that has the event loop; sanitizing a body is
uninterrupted but taken span by span because it may fail at each. `logged`,
`forwarded` and `written` are what an observer of the log and of the upstream
would see. The numbers belong to formats with a cipher each, and may share a
surrogate; `filed` is the value each session restores a surrogate to, the last one it
was recorded for. `Content` restores only a 2xx body that is a JSON object, as
`_rehydrated_content` does; every other one is passed on as it is, and a 2xx body that
cannot be decoded makes the handler fail (500).

`SseFraming` - the two machines of `sse_framing.py`: `Read` is the line splitter
over characters, `HandleLine` the event parser over lines, `Feed` and `Flush`
one network chunk and the end. The reference `EventsIn` sees the whole text and
finds the ends of lines and of events by their places.

`MockUpstream` - the sender to that receiver, as operators: the echo, the two
ways of splitting it, and the objects of a stream.

`MixedRadixFF1` - one value through `encrypt_combined` and back through
`decrypt_combined`, one step per Feistel round; the AES round function is an
operator parameter. `trail` is a history of the points encryption went through.

`Checksums`, `Tier1Detectors`, `SurrogateDomains`, `FieldWalker` - the pure
parts, as operators on sequences of characters and on trees: Verhoeff and Luhn;
each detector's pattern with its evidence and the resolution of overlaps; what
each domain frees, freezes and repairs; walk and rebuild. A character is a
number (digits, capitals) or a class (any lower-case letter, any other mark);
digits of other scripts are in, because `\d` and `isdigit` take them.

`RequestBody` - those four composed with the loops of `sanitize` and
`rehydrate_body`: one body to an upstream that repeats what it was sent, as it
is or in its own choices or tool calls, and back. A region is a step.

`Dependencies` - how the process starts and how requests come by the objects
they share: FastAPI calls the plain functions behind `Depends()` in worker
threads, and `functools.lru_cache` does not hold a lock while one runs. `Miss`
and `Made` are the two ends of such a call; an object is a number per factory.

`MC*` modules give the constants values; `*Proofs` modules hold theorems.
Definitions introduced by "Mutant:" are deliberately wrong variants of the
definition that follows them; they are part of no specification, and each shows
that one property notices that mistake.

## Runs

| run | module | asks | bounds |
| --- | --- | --- | --- |
| session | MCSession | does the name map stay one-to-one, and is a surrogate only restored to what it replaced, under interleaving? | 2 callers, 3 people for 2 names, 2 name types, Aadhaar and phone with one surrogate in common, a phone number in two scripts, a type without domain |
| store | MCSessionStore | does `get_or_create` keep capacity, identity, order and freshness, and is it one step of `SessionMap`? | 3 ids, capacity 2, 2 requests, 5 objects, TTL 1, clock to 2 |
| window | MCSlidingWindow | is chunking invisible where surrogates stand apart? | texts to 7 characters, chunks to 3, all continuations to 2; three surrogates, nested and overlapping, one real value a surrogate |
| stream | MCResponseStream | does every stream end whole, ordered and released? | 5 events of 7 kinds in batches of up to 2, lookahead 3, two surrogates of which one begins with the other |
| gateway | MCGateway | do requests survive each other, failures and evictions? | 2 requests, 2 conversations, a store of 1, 3 bodies, two formats with one surrogate in common |
| detection | MCDetection | do overlaps and splices resolve correctly? | text of 4, 2 Tier-1 detectors and 1 Tier-2, 2 spans each |
| cipher | MCMixedRadixFF1 | does decryption undo encryption, walks included? | domains of 2 to 6 values, 10 rounds, 64 keys, 3 walks |
| framing | MCSseFraming | are events independent of the network's cuts? | texts to 7 characters, chunks to 2 |
| request | MCRequestBody | do walker, detectors, domains and rebuild fit together? | bodies of each format and shape, digits of other scripts among them, 4 keys |
| window_nested | MCSlidingWindow | (violated) is chunking invisible whatever the response? | texts to 4 characters, the "Priya Khan" pair of surrogates |
| gateway_errors | MCGateway | (violated) does an upstream's status reach the client? | 1 request, upstream statuses 200 and 429 |
| dependencies | MCDependencies | (violated) do all requests share one store? | 2 requests, 5 factories, warm-up on |

Why these are enough: every property is about at most two actors and one or two
values; the pools, the store and the TTL are small enough to run out, be full
and expire within the bound; the window's lookahead (3) is shorter than the
texts (7), so that every cut through a surrogate, with text released before it
and read behind it, occurs. In `stream`, surrogates of two and three characters are
split between events (`a`, then `b x` or `b a`), completed or not, and cut by the end.
A text of four characters lets three spans overlap in a chain. In `framing`, seven characters
hold a two-character field name, its value, a CR LF and a blank line, so that
every place to cut an event occurs, with a comment or another event around it. In
`cipher`, the domains of 3, 5 and 6 values lie in coverings of 4 and 8 points, so
encryption walks one to three times or gives up; the domain of one bit is refused.
In `request`, every shape each pattern admits is in some body (prefixes, lengths,
schemes, near misses and check digits), beside others or alone. Deadlock checking is off where
behaviours end (a stream that has ended, requests that have been answered, a
region that has been sanitized).

In `window`, some responses have both surrogates of the nested pair in them, touching
surrogates, or a value put in that is another one's surrogate or looks like its
beginning; `MCStanding` evaluates that such responses are among those the properties
are about. The type invariants of modules
with a proof are theorems and are not run again.

What the passing runs show, in the properties' words:

* `OneToOne`, `ImplementsLedger`, `ExhaustedByDistinctValues`: racing and
  repeated allocations never break or waste the name map.
* `RoundTrip`, `RestoresWhatItReplaced`, `NoRehydrationError`: what was sent can be
  undone for ever, and the unlocked gap in `rehydrate` never brings back a value that
  the surrogate did not stand for. Where two formats share a surrogate it stands for
  the value recorded last (see below); everything else comes back as itself.
* `WithinCapacity`, `RightConversation`, `NoSplitBrain` in every interleaving of
  threads; `LeastRecentlyUsedEvicted` (the order of the dictionary never disagrees with
  the access times the sessions keep for themselves), `LiveNeverReplaced`,
  `ReturnedIsFresh` and `AtomicOnEventLoop` on the event loop.
* `NothingUnsettledReleased`, `StreamedEqualsWhole`, of responses in which the
  surrogates stand apart; `RetentionBounded` of all.
* `WholeAnswer`, of answers in which the surrogates stand apart;
  `ReleasedReachesClient`, `WellOrdered`, `ConnectionReleased`, `Terminates`, of all.
* `FullySanitizedOrNotForwarded`, `AnswerRestored`, `OwnValuesOnly`,
  `NamesConsistent`, `ReplaysLeftAlone`, `Answered`. `AnswerRestored` is about 2xx
  answers that are JSON objects, and allows for a number of another format that the
  conversation has sent under the same surrogate.
* `NoOverlap`, `OnlyOutranked`, `Tier1Undisturbed`, `ReplacedAtOnce`.
* `RoundTrip` and `NeverLost` of the cipher: no surrogate is minted whose
  decryption would stop at the limit of the walk.
* `FramedAsWhole`.
* `BodyRestored`, `NothingLeft`, `UntouchedVerbatim`, `StillDetected`,
  `DomainsAgree`, `WithinMargin`: detectors, domains, walker and window agree with
  one another on what a value is, where it may stand and how long it can be. The
  digits of a value come back in ASCII, in whatever script they were written.

### Where the code and its documents disagree

Three runs each check one sentence of the documents or comments, and TLC finds a
behaviour of the code that contradicts it. `PROJECT.json` quotes the lines.

* `window_nested`: of two surrogates of which one begins with the other ("Priya Khan",
  "Priya Khanna"), the window replaces the shorter one if a chunk ends between them,
  and leaves the rest of the longer one behind it; in one piece the response comes out
  as `rehydrate.py` and `README.md` say.
* `gateway_errors`: an upstream's error status on a streaming request becomes 200.
* `dependencies`: two requests that come before the first `SessionStore` has been
  cached are given one each. What the loser mints is gone after its answer: a
  later turn of that conversation meets an empty session, its replayed surrogates
  are taken for real values, and surrogates in the answer are not restored. The
  same holds of the upstream client, and of the Tier-2 model with NER_WARMUP off,
  where the window is as long as the model takes to load.

### Observed, without a run

Shown by what a passing run's property has to allow:

* A user's own value that equals a minted surrogate is taken for a replay and forwarded
  as it is (`cascade.py:151`): the pools are lists of real names. Nothing in the code
  could tell the two apart, and `FullySanitizedOrNotForwarded` counts it as a replay.
* `record_surrogate` overwrites the entry of a surrogate that is there
  (`session.py:114`). Twelve digits are a format of three domains (Aadhaar, card, phone
  with 91); if two values of one conversation meet on the same twelve, the first one's
  surrogate is from then on restored to the second (`RoundTrip`, `AnswerRestored`).
* A phone number or PAN in the digits of another script is detected and encrypted, and
  comes back in ASCII digits (`BodyRestored`), against `domain.py:61-63`.
* A restored value that is itself a surrogate, or completes one with the text around
  it, and is still in the buffer, is replaced once more at the next chunk, so that one
  name can come back as another (`meera`, then `rahul`, then `asha`). `Standing`
  excludes such responses, and those that hold one surrogate within another. It excludes
  more than it must: a phone number with and without +91 share their end, so that no
  chunk boundary comes between them.
* A 2xx body that is not a JSON object is passed on with its surrogates in it, and one
  that cannot be decoded is answered with a 500 (`routes.py:318`; `Content`, `Respond`).
* `WholeAnswer` is permissive where the code is: the last event of a cut response may
  be there or not, and so may the one under way behind a malformed event, the rest of
  whose batch is lost.

Read off the model while writing it:

* A `finish_reason` beside content goes out with the first text that carries the
  event's envelope, before text the window still holds; `WellOrdered` is about
  structural events of their own, and does not notice.
* A response whose generator was never started, because the client left before the
  first read, does not run its `finally`; `ResponseStream` begins behind that point.
* A body that is not JSON gives a 500 (`ARCHITECTURE.md:787` says 400) after a
  session has been created.
* The headers of an upstream's answer are passed on although the body is another:
  httpx has undone a Content-Encoding that the client is still told of, and the
  streaming path keeps Content-Length as well (`routes.py:293`).
* The fail-open "WARNING" (`fail_mode.py:67`) is logged at INFO.
* In worker threads a touch may move a session's last access back
  (`session.py:71-75`).
* A candidate equal to the real name itself may be allocated to it
  (`session.py:214`).
* A role chunk with empty content is never passed on, since nothing is released
  for it.
* The UPI pattern does match the head of an e-mail address whose domain has a
  hyphen before its dot, which `upi.py` calls a tested non-collision; precedence
  gives the span to the e-mail.
* `sanitize` ignores the set of paths `rebuild` reports as applied. `NothingLeft`
  shows that none is missing on the bodies of the run.
* A line that is only the field name, "data", is discarded, where the SSE
  standard takes it for an empty value; and the end of a response dispatches the
  event under way, which the standard discards and the code does on purpose.
* `latency/runner/process_harness.py` leaves a process behind if it does not
  become ready, because it is started outside the `try` that tears it down.

## Fairness

`ResponseStream` assumes weak fairness of the generator's steps together
(`Run`): the event loop resumes it, and a read from the upstream returns or
raises at the latest after the client's timeout (`upstream_client.py`). Nothing
is assumed of the client but that it reads what it is sent or goes away, and nothing
of which of the outcomes a read has. `Gateway`
assumes weak fairness of each request's handler once the body has been read, on
the same two grounds; an upstream answers or times out (`UpstreamFails`).
Nothing makes a client send its body. A stream's own duration is bounded in
`ResponseStream` by the bound on its events: an upstream that never stops talking,
and be it keep-alives without an event, keeps a response open in the code as well.
The other modules state safety only.
`Dependencies` assumes nothing: its run shows what may happen.

## Proofs

No theorem bounds the sizes of its constants.

* `SessionProofs`. `IInv` adds to the types that the two name maps are inverse
  to each other (`MapsInverse`), that a name's surrogate is registered as a name
  (`NamesRegistered`), that whatever is registered or held in a snapshot can be
  resolved (`KnownResolvable`, `CallersConsistent`) and that what was sent still
  agrees with the maps (`SentConsistent`). `OneToOne` alone is not inductive: it
  speaks of what was sent, and says nothing of entries not sent yet. Follow:
  `OneToOne`, `NoRehydrationError`, `ExhaustedByDistinctValues`, the refinement of
  `SurrogateLedger`, and `RoundTrip` and `RestoresWhatItReplaced`, for which every entry,
  and every snapshot of one, must be of a substitution that was sent (`Minted`): the
  type a match is inverted by is then one whose cipher has made it. Nothing is assumed
  that keeps the types' surrogates apart. `SessionAssumptions` states what is assumed of
  FF1 (injective on each format, up to the script of the digits) and of the pools (no
  candidate is an FF1 output).
* `SessionStoreProofs`. `IInv` says what a thread holds at each point of its
  call, that every reference is to a session of the id asked for, and that a
  session in hand is the stored one or has been retired (`Accounted`), which is
  what makes `NoSplitBrain` inductive across the unlocked gaps. Follow also
  `WithinCapacity` and `RightConversation`. The action
  properties of calls on the event loop need to know that such a call is one
  uninterrupted piece (`Undisturbed`): no other is in the midst of one, what it found
  is still what is stored, and what it found expired is so by the clock of now. Follow `LiveNeverReplaced`
  and `ReturnedIsFresh`; `LeastRecentlyUsedEvicted` by `OrderedByAccess`, which relates
  the order of the dictionary to times that are kept elsewhere, in the sessions, and
  holds except for a session that has been moved and is about to be touched;
  and the refinement of `SessionMap`: what a call settles in
  the store agrees with what it looked up, so its last step alone is `Rejoin`, `Open`
  or `OpenEvicting` (`MapOpen`, `MapOpenEvicting`). None of these is claimed of
  worker threads.
* `ResponseStreamProofs`, for every registry of texts that are not empty and not longer
  than the lookahead (which the code makes the length of the longest,
  `rehydrate.py:55`).

  The pass is a recursive function: it has a solution (`PassEquation`), does behind a
  text what it does without it (`PassBehind`), and so replaces a surrogate in front and
  copies a character at which none begins, by which it can be followed
  (`PassInduction`); it works on both sides of a place that no surrogate crosses
  (`Splits`). `StandingStands` translates `Standing` into what the proofs use. Where
  surrogates stand apart, a beginning of the text ends, for the pass, at the end of its
  last whole surrogate: up to there nothing can match any more, neither in what was put
  in nor across its edges, and behind it the pass copies (`LastEnd`, `BehindLastEnd`).
  Hence `PieceByPiece`: running the pass over a beginning first, and then over what it
  has become and the rest, makes no difference. Of a text in which they do not, this is
  false, and `window_nested` shows it.

  The window, by itself (`WindowSpec`) and fed whatever chunks there are. `Exact`: of
  every rest with which the surrogates stand apart, what has been released and what is
  kept are together the pass over what was received, and what has been released ends no
  later than where a surrogate that the rest will complete begins (`Settled`). The
  second part is needed: a text released too far would still be a right beginning
  as long as nothing comes. A feed keeps it (`SettledNext`), because such a surrogate is
  not longer than the lookahead and its beginning is copied, so it is within what is
  kept. Follow `NothingUnsettledReleased` and `StreamedEqualsWhole`; `RetentionBounded`
  and the types need no registry in particular. The step is stated of one feed and one
  flush (`FeedWindowExact`, `FlushWindowExact`), because the stream takes it in the
  midst of its own actions.

  The stream, in two layers. `SInv` says for each point of the generator what may be
  pending, held and sent: from it the types, `WellOrdered` and `ConnectionReleased`, and
  `ReleasedReachesClient`, for which there must always be an envelope with a content
  slot when the window lets a text go. `FInv` follows the content from the upstream to
  the client: the events taken are those handled, in order (`Story`, `Handled`), the
  rest are still to come or lost with the event that was cut (`Left`), and the window is
  exact on what was handled, by the lemmas of the window. What was handled is a
  beginning of the answer, in which the surrogates stand apart if they do in the answer
  (`HandledStands`). Follow `WholeAnswer`, and, since nothing is left to replace in what
  the pass makes of such a text (`NoneLeft`), that no surrogate of the session stands
  anywhere in an answer that ended (`NoSurrogateDelivered`). `TextOf`, which joins the
  texts of a list of events, is a fold: what it gives for one more event is by induction
  over sets of places (`FoldEquation`, `Upward`).
* `SseFramingProofs`. `FramedAsWhole`, for every response, whatever its length and
  wherever the network cuts it. Read backwards the property says nothing about a
  chunk to come, so it is not inductive: `Agrees` adds what the reference makes of
  the state between two characters - the line under way (`buffer`) is the one that
  would end here, a CR is behind us (`pendingCr`), the data lines held are those
  since the last blank line. The step is one character more (`CharacterAgrees`):
  nothing before a place depends on what is behind it (`LineUnmoved`,
  `BeforeUnmoved`, `DataUnmoved`), and what the new character adds is what the
  machines do (`LineGrows`, `DataGrows`, `EventsGrow`). A chunk is an induction
  over its characters (`ChunkAgrees`); `flush` is as good as two LF (`EndAgrees`).
  Assumed is only that CR, LF, the space and the rest are different characters and
  that the field has a name without them.
* `DetectionProofs`. `Settled` (each span considered is kept or lost to a kept
  one that it does not outrank) and `KeptAhead` (no pending span outranks a kept
  one) give `OnlyOutranked`; `InText` keeps the spliced text well formed. The
  references of `Tier1Undisturbed` and `ReplacedAtOnce` are recursive functions:
  each is shown to satisfy its recursion (`AloneEquation`, `FromEquation`). While
  splices are made from the right, the text is the original up to any place between
  those to be done and those done, and what replacing at once makes of the rest
  (`Rebuilding`): the offsets of a splice to be done are still right, whatever the
  lengths of those done. What resolve keeps of Tier 1 satisfies a description that
  only one set of spans does (`Reported`, `OneResolution`).
* `GatewayProofs`. None of `Gateway`'s properties is inductive, because a step of
  one request mints into a session that others hold and will answer from. `IInv`
  therefore says what a request holds at each point of its handler (`Held`), that
  a session belongs to one conversation, in the store and in the hands of every
  request that has it (`Owned`), that a ledger is one to one on names and on each
  format, and files a surrogate under one of its values (`Minted`), and holds
  everything written (`Accounted`), that its values are from bodies of its
  conversation (`Provenance`), what is still to be done in the region under way
  (`Covered`), and that an answer was restored from the ledger and nothing written
  later disagrees (`Restoring`). Follow `FullySanitizedOrNotForwarded`,
  `AnswerRestored`, `OwnValuesOnly` and `NamesConsistent`. `ReplaysLeftAlone` needs
  that what a region's scan did not take for a replay, although its session knows it
  by now, this request has minted itself in this region (`Recognising`). Assumed are the three
  kinds of texts being disjoint and an FF1 that is injective on each format: two formats
  may share surrogates, and `AnswerRestored` says what then comes back.

* `MixedRadixFF1Proofs`. `RoundTrip` says nothing of the steps between a value
  and its return. `IInv` ties each of them to the history: each point of the trail
  is the round before it applied (`Encrypting`), encryption stopped at the first
  point inside (`Arrived`, `Surrogate`), and decryption is always at the point of
  the trail it should be at (`Decrypting`, `Retraced`). The step is `RoundUndone`: a
  round undone gives the halves before it, since they are below the modulus. Follow
  `RoundTrip` and `NeverLost` - the way back is as long as the way there, so the
  limit cannot strike on it - for every round function, every radix list and every
  limit. Nothing is assumed of the codes: `DecodeUndoesEncode`,
  `EncodeUndoesDecode` and `CoveringTight` are theorems for every list of radixes.
  Each recursion has a function (`Recursion`), and what it gives at each place is by
  induction over sets of numbers (`Upward`, `Downward`); the widths that suffice have
  a least one, which is what the choice in `CoveringBits` takes.
* `DependenciesProofs`. What caching does guarantee, although `OneSessionStore` is
  violated: an object that is not the cached one is held by one request only
  (`StrayNotShared`), a cached one stays (`CachedForEver`), and with the warm-up on
  no request loads the Tier-2 model or fails for want of it (`ModelWarm`). `Unseen`,
  the object a thread is making is known to no one else, makes the first inductive.

Induction. The library states it for predicates given as parameters, which the
provers here cannot instantiate. Where a proof needs it, it is over a *set*: the
places up to which a recursive function is what it should be. Such a set without
its last places has a least missing one (`LeastNatural`, from the well-foundedness
of inclusion on finite sets), which is a contradiction.

Model-checked only: liveness (`Terminates`, `Answered`); and everything about
`RequestBody`, whose walker is a RECURSIVE operator and whose patterns are what is
in question: no general statement about them is shorter than they are.

## Not modelled

* A registry that grows while a response is streamed, by another request of the same
  conversation: `rehydrate` reads it anew at each chunk. `Session` has the interleaving,
  `SlidingWindow` and `ResponseStream` a registry that stays.
* The NER model: any report, or a failure, is possible.
* AES and the derivation of the key: the round function is any function.
* FF1 over radix 10, which Aadhaar, card and phone use without a walk: its rounds
  are those of `MixedRadixFF1` with powers of ten for the sizes of the halves.
* Within `FieldWalker`: duplicate keys (`json.loads` keeps the last), the spelling
  of numbers and escapes in a string that is rewritten, and keys of objects, which
  the code does not scan either.
* Bytes: httpx decodes; a superscript digit, which `isdigit` takes and `int` does
  not, is outside every pattern.
* Header filtering, the wording of errors, log lines and their redaction, and each
  setting's own constraint.
* The health probe, and the offline harnesses (`benchmarks/`, `adversarial/`,
  `latency/`, `rehydration_fidelity/`): they measure the gateway from outside and
  keep nothing it depends on.

`PROJECT.json` lists each part with its status.

## Plan

Order of work, most important behaviour first; all are done.

1. `Session` and `SurrogateLedger`, with proofs.
2. `SessionStore`, with proofs.
3. `Rehydration` and `SlidingWindow`, with proofs.
4. `ResponseStream`, composing the window with the generator.
5. `Gateway`, composing the session, the store and the fail modes, with proofs.
6. `Detection`, with proofs.
7. `SseFraming`, with `MockUpstream` as its sender.
8. `MixedRadixFF1`, with proofs.
9. `Checksums`, `Tier1Detectors`, `SurrogateDomains`.
10. `FieldWalker`, and `RequestBody` composing 9 and 10.
11. `Dependencies`, with proofs.
12. Proofs about `ResponseStream` and `SseFraming`; the remaining properties of
    `Detection`, `SessionStore` and `Gateway`; the codes of `mixed_radix.py`.
13. `rehydrate` shown to be resumable where surrogates stand apart, for every
    registry, and the window and the stream proved with it; `SessionStore` shown to
    implement `SessionMap`, and `Gateway` built on that.

What could come next: the properties of `RequestBody` for every body, which needs
the walker as a recursive function and each pattern's own theory; the session
shared by `Gateway` as an instance of `SurrogateLedger`; a registry that grows while a
response is streamed; the header filters.
