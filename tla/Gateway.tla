------------------------------ MODULE Gateway ------------------------------
(***************************************************************************)
(* chat_completions (src/src/proxy/routes.py) from the request's headers   *)
(* to the answer, for several requests on one event loop.  A handler runs  *)
(* without interruption from one await to the next: `running' is the       *)
(* request whose handler is between two awaits.  Sanitizing a body is one  *)
(* such piece and is taken here span by span, because it may fail at any   *)
(* span with the surrogates of the earlier ones already minted.            *)
(*                                                                         *)
(* A Session is what module Session shows it to be, a one-to-one ledger of *)
(* real values and surrogates, and the store a SessionMap, which           *)
(* SessionStore is shown to implement.  A Session object is named by the   *)
(* request that created it.  An upstream's answer is one text it says;     *)
(* module ResponseStream has the events of a stream.                       *)
(***************************************************************************)
EXTENDS Integers, Sequences, FiniteSets

CONSTANTS
    Requests,          \* HTTP requests, each with a handler of its own
    Ids,               \* session ids
    Names,             \* texts the Tier-2 detectors report
    Numbers,           \* texts in ASCII digits Tier 1 reports, of a type with an FF1 domain
    Addresses,         \* texts Tier 1 reports, of a type without one (e-mail, UPI)
    Pool,              \* the candidate names
    Format,            \* their types: each has an FF1 domain of its own
    Encrypt,           \* FF1 on Numbers, under the type of each
    Bodies,            \* request bodies: a sequence of regions, each a set of spans
    Sayings,           \* the texts looked at in an upstream's answer
    UpstreamStatuses,  \* the statuses an upstream may answer with
    MaxSessions,       \* max_sessions
    FailModes,         \* the FAIL_MODE settings looked at
    None

Texts == Names \cup Numbers \cup Addresses
Maybe(S) == S \cup {None}
OK == 200   \* any 2xx

ASSUME GatewayAssumptions ==
    /\ None \notin Requests \cup Ids \cup Texts \cup Int
    /\ Names \cap Numbers = {} /\ Names \cap Addresses = {} /\ Numbers \cap Addresses = {}
    /\ Pool \subseteq Names
    /\ Encrypt \in [Numbers -> Numbers]
    /\ \A m, n \in Numbers : Format[m] = Format[n] /\ Encrypt[m] = Encrypt[n] => m = n
    /\ Bodies \subseteq Seq(SUBSET Texts)
    /\ Sayings \subseteq Texts
    /\ UpstreamStatuses \subseteq Nat
    /\ MaxSessions \in Nat \ {0}
    /\ FailModes \subseteq {"open", "closed"}

VARIABLES
    failMode,   \* Settings.fail_mode
    entry,      \* the store: id -> session
    ledger,     \* what each session has minted: <<real value, surrogate>>
    filed,      \* the value each session restores a surrogate to: the last one it recorded
    running,    \* the request whose handler has the event loop
    pc,         \* where each request is
    id,         \* its X-Session-ID
    session,    \* local `session'
    body,       \* its parsed body
    stream,     \* whether the body asks for a stream
    region,     \* the region being sanitized
    spans,      \* the spans of that region still to be substituted
    written,    \* what the sanitized body holds in place of each span
    logged,     \* requests with a detection.tier2_failed log line
    forwarded,  \* requests whose sanitized body has been sent upstream
    upstream,   \* the status the upstream answered with
    answer      \* what the client got: status and text; what the upstream said, and how

sessions == <<ledger, filed>>
request == <<id, session, body, stream>>
sanitizing == <<region, spans, written, logged>>
vars == <<failMode, entry, sessions, running, pc, request, sanitizing, forwarded, upstream,
          answer>>

NoAnswer == [status |-> None, said |-> None, object |-> FALSE, got |-> None]

TypeOK ==
    /\ failMode \in FailModes
    /\ entry \in [Ids -> Maybe(Requests)]
    /\ ledger \in [Requests -> SUBSET (Texts \X Texts)]
    /\ filed \in [Requests -> [Texts -> Maybe(Texts)]]
    /\ running \in Maybe(Requests)
    /\ pc \in [Requests -> {"new", "reading", "sanitizing", "waiting", "streaming", "answered"}]
    /\ id \in [Requests -> Maybe(Ids)]
    /\ session \in [Requests -> Maybe(Requests)]
    /\ body \in [Requests -> Bodies \cup {<<>>}]
    /\ stream \in [Requests -> BOOLEAN]
    /\ region \in [Requests -> Nat]
    /\ spans \in [Requests -> SUBSET [text : Texts, ingress : BOOLEAN]]
    /\ written \in [Requests -> SUBSET [region : Nat, text : Texts, sent : Texts]]
    /\ logged \in SUBSET Requests
    /\ forwarded \in SUBSET Requests
    /\ upstream \in [Requests -> Maybe(Nat)]
    /\ answer \in [Requests -> [status : Maybe(Nat), said : Maybe(Texts), object : BOOLEAN,
                                got : Maybe(Texts)]]

Init ==
    /\ failMode \in FailModes
    /\ entry = [i \in Ids |-> None]
    /\ ledger = [o \in Requests |-> {}]
    /\ filed = [o \in Requests |-> [s \in Texts |-> None]]
    /\ running = None
    /\ pc = [r \in Requests |-> "new"]
    /\ id = [r \in Requests |-> None]
    /\ session = [r \in Requests |-> None]
    /\ body = [r \in Requests |-> <<>>]
    /\ stream = [r \in Requests |-> FALSE]
    /\ region = [r \in Requests |-> 0]
    /\ spans = [r \in Requests |-> {}]
    /\ written = [r \in Requests |-> {}]
    /\ logged = {}
    /\ forwarded = {}
    /\ upstream = [r \in Requests |-> None]
    /\ answer = [r \in Requests |-> NoAnswer]
-----------------------------------------------------------------------------
(* Sessions *)

Known(o, s) == \E v \in Texts : <<v, s>> \in ledger[o]

\* What the store promises a call on the event loop, whose caller holds what it is given.
Store == INSTANCE SessionMap WITH Callers <- Requests, Objects <- Requests, held <- session

\* A surrogate recorded once more, for a number of another type, is filed anew.
Mint(o, v, s) ==
    /\ ledger' = [ledger EXCEPT ![o] = @ \cup {<<v, s>>}]
    /\ filed' = [filed EXCEPT ![o][s] = v]

\* rehydrate: a known surrogate is put back, any other text is left as it is.
Restored(o, s) == IF Known(o, s) THEN filed[o][s] ELSE s

\* The end of a handler: the upstream said a text, in a JSON object or not.
Answer(r, status, said, object, got) ==
    /\ pc' = [pc EXCEPT ![r] = "answered"]
    /\ answer' = [answer EXCEPT ![r] =
                     [status |-> status, said |-> said, object |-> object, got |-> got]]

\* app/main.py turns an exception into its status.
Refuse(r, status) == Answer(r, status, None, FALSE, None)
-----------------------------------------------------------------------------
(* Taking a request in *)

\* No X-Session-ID: 400, before anything is read or created.
RefuseAnonymous(r) ==
    /\ pc[r] = "new" /\ running = None
    /\ Refuse(r, 400)
    /\ UNCHANGED <<failMode, entry, sessions, running, request, sanitizing, forwarded, upstream>>

\* get_or_create has returned; the body is awaited.
Enter(r, i) ==
    /\ pc[r] = "new" /\ running = None
    /\ pc' = [pc EXCEPT ![r] = "reading"]
    /\ id' = [id EXCEPT ![r] = i]
    /\ UNCHANGED <<failMode, sessions, running, body, stream, sanitizing, forwarded, upstream,
                   answer>>

\* The session is the conversation's, or a new one, perhaps in another's place.
Rejoin(r, i) == Store!Rejoin(r, i) /\ Enter(r, i)
Open(r, i) == Store!Open(r, i, r) /\ Enter(r, i)
OpenEvicting(r, i) == Store!OpenEvicting(r, i, r) /\ Enter(r, i)

\* request.json() raises (500), or the body is not an object (400).
RefuseBody(r) ==
    /\ pc[r] = "reading" /\ running = None
    /\ \E status \in {400, 500} : Refuse(r, status)
    /\ UNCHANGED <<failMode, entry, sessions, running, request, sanitizing, forwarded, upstream>>

ReadBody(r) ==
    /\ pc[r] = "reading" /\ running = None
    /\ running' = r
    /\ pc' = [pc EXCEPT ![r] = "sanitizing"]
    /\ body' \in {[body EXCEPT ![r] = b] : b \in Bodies}
    /\ stream' \in {[stream EXCEPT ![r] = on] : on \in BOOLEAN}
    /\ region' = [region EXCEPT ![r] = 1]
    /\ UNCHANGED <<failMode, entry, sessions, id, session, spans, written, logged, forwarded,
                   upstream, answer>>
-----------------------------------------------------------------------------
(* Sanitizing *)

\* What Tier 1 reports of the region.
Tier1Texts(r) == body[r][region[r]] \ Names

\* No span of the region is left: sanitize goes on to the next one.
AtRegion(r) ==
    /\ pc[r] = "sanitizing" /\ running = r
    /\ spans[r] = {}
    /\ region[r] <= Len(body[r])

Recognised(r, texts) ==
    {[text |-> t, ingress |-> Known(session[r], t)] : t \in texts}

\* Mutant: the session is not asked.
DetectBlind(r) ==
    /\ AtRegion(r)
    /\ spans' = [spans EXCEPT ![r] = {[text |-> t, ingress |-> FALSE] :
                                         t \in body[r][region[r]]}]
    /\ region' = [region EXCEPT ![r] = @ + 1]
    /\ UNCHANGED <<failMode, entry, sessions, running, pc, request, written, logged, forwarded,
                   upstream, answer>>

\* detect(): every span of the region, looked up in the session.
Detect(r) ==
    /\ AtRegion(r)
    /\ spans' = [spans EXCEPT ![r] = Recognised(r, body[r][region[r]])]
    /\ region' = [region EXCEPT ![r] = @ + 1]
    /\ UNCHANGED <<failMode, entry, sessions, running, pc, request, written, logged, forwarded,
                   upstream, answer>>

\* What stays in the body as it was.
Unchanged(r, texts) == {[region |-> region[r], text |-> t, sent |-> t] : t \in texts}

\* Tier 2 fails under FAIL_MODE=open: logged, and the region has Tier 1's spans only.
DetectFailsOpen(r) ==
    /\ AtRegion(r)
    /\ failMode = "open"
    /\ spans' = [spans EXCEPT ![r] = Recognised(r, Tier1Texts(r))]
    /\ written' = [written EXCEPT ![r] = @ \cup Unchanged(r, body[r][region[r]] \cap Names)]
    /\ logged' = logged \cup {r}
    /\ region' = [region EXCEPT ![r] = @ + 1]
    /\ UNCHANGED <<failMode, entry, sessions, running, pc, request, forwarded, upstream, answer>>

\* Under FAIL_MODE=closed: FailClosedError.
DetectFailsClosed(r) ==
    /\ AtRegion(r)
    /\ failMode = "closed"
    /\ Refuse(r, 503)
    /\ running' = None
    /\ UNCHANGED <<failMode, entry, sessions, request, sanitizing, forwarded, upstream>>

\* The span is replaced by s, or stays; its region is the one before `region'.
Write(r, span, s) ==
    /\ written' = [written EXCEPT ![r] =
            @ \cup {[region |-> region[r] - 1, text |-> span.text, sent |-> s]}]
    /\ spans' = [spans EXCEPT ![r] = @ \ {span}]
    /\ UNCHANGED <<failMode, entry, running, pc, request, region, logged, forwarded, upstream,
                   answer>>

KeepReplay(r, span) ==
    /\ span.ingress
    /\ Write(r, span, span.text)
    /\ UNCHANGED sessions

\* Mutant: a name is replaced by any candidate, taken or not.
ReplaceNameByAny(r, span) ==
    /\ ~span.ingress /\ span.text \in Names
    /\ \E s \in Pool :
          /\ Write(r, span, s)
          /\ Mint(session[r], span.text, s)

\* allocate_or_lookup_name: the name's surrogate, or any candidate that is free.
ReplaceName(r, span) ==
    /\ ~span.ingress /\ span.text \in Names
    /\ \E s \in Pool :
          /\ \/ <<span.text, s>> \in ledger[session[r]]
             \/ ~Known(session[r], s) /\ \A p \in ledger[session[r]] : p[1] # span.text
          /\ Write(r, span, s)
          /\ Mint(session[r], span.text, s)

\* engine.encrypt and record_surrogate.
ReplaceNumber(r, span) ==
    /\ ~span.ingress /\ span.text \in Numbers
    /\ Write(r, span, Encrypt[span.text])
    /\ Mint(session[r], span.text, Encrypt[span.text])

\* The name is new and every candidate is held by another one.
Exhausted(r, span) ==
    /\ span.text \in Names
    /\ \A p \in ledger[session[r]] : p[1] # span.text
    /\ \A s \in Pool : Known(session[r], s)

\* NameListExhaustedError or SurrogateDomainError: 500, and what was minted stays.
FailSpan(r, span) ==
    /\ ~span.ingress
    /\ Exhausted(r, span) \/ span.text \in Addresses
    /\ Refuse(r, 500)
    /\ running' = None
    /\ UNCHANGED <<failMode, entry, sessions, request, sanitizing, forwarded, upstream>>

Substitute(r) ==
    /\ pc[r] = "sanitizing" /\ running = r
    /\ \E span \in spans[r] :
          \/ KeepReplay(r, span)
          \/ ReplaceName(r, span)
          \/ ReplaceNumber(r, span)
          \/ FailSpan(r, span)

\* Mutant: the body is forwarded as soon as its last region has been looked at.
ForwardEarly(r) ==
    /\ pc[r] = "sanitizing" /\ running = r
    /\ region[r] > Len(body[r])
    /\ forwarded' = forwarded \cup {r}
    /\ pc' = [pc EXCEPT ![r] = "waiting"]
    /\ running' = None
    /\ UNCHANGED <<failMode, entry, sessions, request, sanitizing, upstream, answer>>

\* Mutant: the upstream is called without an await.
ForwardBlocking(r) ==
    /\ pc[r] = "sanitizing" /\ running = r
    /\ spans[r] = {} /\ region[r] > Len(body[r])
    /\ forwarded' = forwarded \cup {r}
    /\ pc' = [pc EXCEPT ![r] = "waiting"]
    /\ UNCHANGED <<failMode, entry, sessions, running, request, sanitizing, upstream, answer>>

\* rebuild(), and the body is on its way.
Forward(r) ==
    /\ pc[r] = "sanitizing" /\ running = r
    /\ spans[r] = {} /\ region[r] > Len(body[r])
    /\ forwarded' = forwarded \cup {r}
    /\ pc' = [pc EXCEPT ![r] = "waiting"]
    /\ running' = None
    /\ UNCHANGED <<failMode, entry, sessions, request, sanitizing, upstream, answer>>
-----------------------------------------------------------------------------
(* The upstream's answer *)

Waiting(r) == pc[r] = "waiting" /\ running = None

\* A transport error becomes 502, a timeout 504; so too when a stream is opened.
UpstreamFails(r) ==
    /\ Waiting(r)
    /\ \E status \in {502, 504} : Refuse(r, status)
    /\ UNCHANGED <<failMode, entry, sessions, running, request, sanitizing, forwarded, upstream>>

\* Mutant: the response path looks the session up again by its id.
RespondAfresh(r) ==
    /\ Waiting(r) /\ ~stream[r]
    /\ \E status \in UpstreamStatuses, said \in Sayings :
          /\ upstream' = [upstream EXCEPT ![r] = status]
          /\ Answer(r, status, said, TRUE,
                IF status = OK /\ entry[id[r]] # None THEN Restored(entry[id[r]], said)
                ELSE said)
    /\ UNCHANGED <<failMode, entry, sessions, running, request, sanitizing, forwarded>>

\* Mutant: the text is looked up in every session there is.
RespondFromAll(r) ==
    /\ Waiting(r) /\ ~stream[r]
    /\ \E said \in Sayings, o \in Requests :
          /\ Answer(r, OK, said, TRUE, Restored(o, said))
          /\ upstream' = [upstream EXCEPT ![r] = OK]
    /\ UNCHANGED <<failMode, entry, sessions, running, request, sanitizing, forwarded>>

\* _rehydrated_content: only a 2xx body that is a JSON object is rehydrated; every other
\* one is passed on as it is.
Content(o, status, said, object) ==
    IF status = OK /\ object THEN Restored(o, said) ELSE said

\* _forward_non_streaming: the status is passed on with the content; a 2xx body that is
\* not even text makes json.loads raise what nobody catches (500).
Respond(r) ==
    /\ Waiting(r) /\ ~stream[r]
    /\ \E status \in UpstreamStatuses :
          /\ upstream' = [upstream EXCEPT ![r] = status]
          /\ \/ \E said \in Sayings, object \in BOOLEAN :
                   Answer(r, status, said, object, Content(session[r], status, said, object))
             \/ status = OK /\ Refuse(r, 500)
    /\ UNCHANGED <<failMode, entry, sessions, running, request, sanitizing, forwarded>>

\* _start_streaming: the upstream's status is known, and is not looked at.
StartStreaming(r) ==
    /\ Waiting(r) /\ stream[r]
    /\ \E status \in UpstreamStatuses : upstream' = [upstream EXCEPT ![r] = status]
    /\ pc' = [pc EXCEPT ![r] = "streaming"]
    /\ UNCHANGED <<failMode, entry, sessions, running, request, sanitizing, forwarded, answer>>

\* _generate_sse to its end, each event a JSON object; an error's body holds no event.
EndStream(r) ==
    /\ pc[r] = "streaming" /\ running = None
    /\ \/ \E said \in Sayings :
             upstream[r] = OK /\ Answer(r, OK, said, TRUE, Restored(session[r], said))
       \/ Answer(r, OK, None, FALSE, None)
    /\ UNCHANGED <<failMode, entry, sessions, running, request, sanitizing, forwarded, upstream>>
-----------------------------------------------------------------------------
Arrive(r) ==
    \/ RefuseAnonymous(r)
    \/ \E i \in Ids : Rejoin(r, i) \/ Open(r, i) \/ OpenEvicting(r, i)
    \/ RefuseBody(r)
    \/ ReadBody(r)

Handle(r) ==
    \/ Detect(r)
    \/ DetectFailsOpen(r)
    \/ DetectFailsClosed(r)
    \/ Substitute(r)
    \/ Forward(r)
    \/ UpstreamFails(r)
    \/ Respond(r)
    \/ StartStreaming(r)
    \/ EndStream(r)

Next == \E r \in Requests : Arrive(r) \/ Handle(r)

\* The event loop runs every handler that can run, and the upstream answers or times
\* out (upstream_timeout_seconds); nothing is assumed of the clients.
Spec == Init /\ [][Next]_vars /\ \A r \in Requests : WF_vars(Handle(r))
-----------------------------------------------------------------------------
(* Properties *)

Replaced(r) == {w \in written[r] : <<w.text, w.sent>> \in ledger[session[r]]}

\* A request body is either fully sanitized or never forwarded (sanitize.py): at every
\* span the upstream sees a surrogate of this session, or a replayed one, or, only
\* under FAIL_MODE=open and on record, a name Tier 2 has failed on.
FullySanitizedOrNotForwarded ==
    \A r \in forwarded : \A k \in 1..Len(body[r]) : \A t \in body[r][k] :
        \E w \in written[r] :
            /\ w.region = k /\ w.text = t
            /\ \/ w \in Replaced(r)
               \/ w.sent = t /\ Known(session[r], t)
               \/ w.sent = t /\ t \in Names /\ failMode = "open" /\ r \in logged

\* The session has sent s for v too, a number of another type than t.
SentForAnother(o, v, t, s) ==
    /\ v \in Numbers /\ t \in Numbers /\ Format[v] # Format[t]
    /\ <<v, s>> \in ledger[o]

\* Within one request's processing the session is self-consistent (DECISIONS.md): what
\* the upstream says, in a 2xx body that can be read, of a surrogate sent with this
\* request comes back as the value it replaced, though the session may have expired or
\* been evicted meanwhile.  Only a number of another type that this conversation has
\* sent under the same surrogate may come in its place.
AnswerRestored ==
    \A r \in Requests : answer[r].status = OK /\ answer[r].object =>
        \A w \in Replaced(r) : answer[r].said = w.sent =>
            \/ answer[r].got = w.text
            \/ SentForAnother(session[r], answer[r].got, w.text, w.sent)

\* No conversation is ever answered with a real value of another one.
OwnValuesOnly ==
    \A r \in Requests : answer[r].got # answer[r].said =>
        \E q \in Requests : id[q] = id[r] /\ \E k \in 1..Len(body[q]) : answer[r].got \in body[q][k]

\* However the turns of a conversation overlap, those served by one session send a
\* name under one surrogate, and no two names under the same.
NamesConsistent ==
    \A q, r \in Requests : session[q] = session[r] =>
        \A u \in Replaced(q), w \in Replaced(r) :
            u.text \in Names /\ w.text \in Names => (u.text = w.text <=> u.sent = w.sent)

\* What an earlier turn has minted is not encrypted again, "a surrogate of a surrogate";
\* a text first minted within the same region is the one exception.
ReplaysLeftAlone ==
    [][\A r \in Requests : \A w \in written'[r] \ written[r] :
          w.sent # w.text /\ Known(session[r], w.text) =>
              \E u \in written[r] : u.region = w.region /\ u.sent = w.text]_vars

\* Once its body has been read a request is answered: no handler waits on another, and
\* none on an upstream for ever.
Answered == \A r \in Requests : pc[r] = "sanitizing" ~> pc[r] = "answered"

\* An upstream's 4xx or 5xx is propagated verbatim (ARCHITECTURE.md).
UpstreamErrorsPropagate ==
    \A r \in Requests : pc[r] = "answered" /\ upstream[r] \notin {None, OK} =>
        answer[r].status = upstream[r]
=============================================================================
