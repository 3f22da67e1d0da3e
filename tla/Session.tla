------------------------------ MODULE Session ------------------------------
(***************************************************************************)
(* One conversation's Session object (src/src/session/session.py) under    *)
(* the two clients that use it: sanitize.py, which recognises a span and   *)
(* then substitutes it, and rehydrate.py, which takes a snapshot of the    *)
(* known surrogates and then resolves each match.                          *)
(*                                                                         *)
(* Every method holds the session's own lock for its whole body, so a      *)
(* method is one step; everything between two calls is unlocked, so any    *)
(* number of other callers' calls may fall in between.  A request whose    *)
(* region holds several spans (recognise all, then substitute each) is the *)
(* interleaving of several callers here.                                   *)
(*                                                                         *)
(* Strings are opaque: real values and surrogates come from one set Texts, *)
(* since nothing in the code tells one kind from the other.  The creation  *)
(* time of a KnownSurrogate is left out, as no code reads it;              *)
(* _last_accessed_at is in module SessionStore.                            *)
(***************************************************************************)
EXTENDS FiniteSets

CONSTANTS
    Texts,           \* the strings a span can hold
    Callers,         \* concurrent uses of the session
    NameTypes,       \* PERSON, ORG, ADDRESS
    StructuredTypes, \* the Tier-1 types, with or without an FF1 domain
    Candidates,      \* the candidate pool of each name type
    Encrypt,         \* FF1 under the one key: type -> text -> surrogate or None
    Plain,           \* a text with its digits written in ASCII, as a domain writes them
    Detectable,      \* the <<text, type>> pairs the detectors can report
    None

Types == NameTypes \cup StructuredTypes
Maybe(S) == S \cup {None}
Pool == UNION {Candidates[ty] : ty \in NameTypes}

\* FF1 permutes each type's own domain, so a surrogate has one value of that type,
\* up to the script of its digits; a name candidate is never shaped like a structured
\* value.  Two types may share a format (12 digits: Aadhaar, card, phone with 91), and
\* then a string can be the surrogate of a value of each.
ASSUME SessionAssumptions ==
    /\ None \notin Texts \cup Types
    /\ NameTypes \cap StructuredTypes = {}
    /\ Candidates \in [NameTypes -> SUBSET Texts]
    /\ Encrypt \in [StructuredTypes -> [Texts -> Maybe(Texts)]]
    /\ Plain \in [Texts -> Texts]
    /\ Detectable \subseteq Texts \X Types
    /\ \A ty \in StructuredTypes : \A v, w \in Texts :
          Encrypt[ty][v] # None /\ Encrypt[ty][v] = Encrypt[ty][w] => Plain[v] = Plain[w]
    /\ \A ty \in StructuredTypes : \A v \in Texts : Encrypt[ty][v] \notin Pool

VARIABLES
    forward,  \* _name_forward: real name -> surrogate name
    reverse,  \* _name_reverse: surrogate name -> real name
    known,    \* _known_surrogates: surrogate -> the type it was minted for
    pc,       \* what each caller does next
    span,     \* the span a sanitizing caller has recognised
    match,    \* the match a rehydrating caller has yet to resolve
    outcome,  \* how each caller's last call ended
    sent      \* history: the substitutions written into forwarded requests

object == <<forward, reverse, known>>
vars == <<forward, reverse, known, pc, span, match, outcome, sent>>

NoSpan == [text |-> None, type |-> None, ingress |-> FALSE]
NoMatch == [surrogate |-> None, type |-> None]
Outcomes == {"none", "ok", "restored", "SurrogateDomainError",
             "NameListExhaustedError", "RehydrationError"}

TypeOK ==
    /\ forward \in [Texts -> Maybe(Texts)]
    /\ reverse \in [Texts -> Maybe(Texts)]
    /\ known \in [Texts -> Maybe(Types)]
    /\ pc \in [Callers -> {"idle", "substitute", "resolve"}]
    /\ span \in [Callers -> [text : Maybe(Texts), type : Maybe(Types), ingress : BOOLEAN]]
    /\ match \in [Callers -> [surrogate : Maybe(Texts), type : Maybe(Types)]]
    /\ outcome \in [Callers -> Outcomes]
    /\ sent \in SUBSET [real : Texts, surrogate : Texts, type : Types]

Init ==
    /\ forward = [v \in Texts |-> None]
    /\ reverse = [s \in Texts |-> None]
    /\ known = [s \in Texts |-> None]
    /\ pc = [c \in Callers |-> "idle"]
    /\ span = [c \in Callers |-> NoSpan]
    /\ match = [c \in Callers |-> NoMatch]
    /\ outcome = [c \in Callers |-> "none"]
    /\ sent = {}
-----------------------------------------------------------------------------
(* What a surrogate stands for *)

Decrypt(ty, s) == Plain[CHOOSE v \in Texts : Encrypt[ty][v] = s]

\* _resolve_real_value: the type recorded for the surrogate picks the inverse.
RealValue(s, ty) == IF ty \in NameTypes THEN reverse[s] ELSE Decrypt(ty, s)
-----------------------------------------------------------------------------
(* Sanitizing a span *)

\* detect() ends by looking each resolved span up in the session: what it has minted is
\* taken for a replay, whoever wrote it.
Recognise(c, v, ty) ==
    /\ pc[c] = "idle"
    /\ <<v, ty>> \in Detectable
    /\ span' = [span EXCEPT ![c] = [text |-> v, type |-> ty, ingress |-> known[v] # None]]
    /\ pc' = [pc EXCEPT ![c] = "substitute"]
    /\ outcome' = [outcome EXCEPT ![c] = "none"]
    /\ UNCHANGED <<object, match, sent>>

\* The step that ends a caller's work on its span.
Finish(c, how) ==
    /\ pc' = [pc EXCEPT ![c] = "idle"]
    /\ span' = [span EXCEPT ![c] = NoSpan]
    /\ outcome' = [outcome EXCEPT ![c] = how]
    /\ UNCHANGED match

\* _sanitize_region replaces the span's text by the surrogate.
Send(c, s) ==
    sent' = sent \cup {[real |-> span[c].text, surrogate |-> s, type |-> span[c].type]}

\* An ingress surrogate is left exactly as it is.
PassThrough(c) ==
    /\ pc[c] = "substitute"
    /\ span[c].ingress
    /\ Finish(c, "ok")
    /\ UNCHANGED <<object, sent>>

\* allocate_or_lookup_name, a value this session already has a name for.
LookupName(c) ==
    LET v == span[c].text IN
    /\ pc[c] = "substitute" /\ ~span[c].ingress
    /\ span[c].type \in NameTypes
    /\ forward[v] # None
    /\ Send(c, forward[v])
    /\ Finish(c, "ok")
    /\ UNCHANGED object

\* Mutant: the "already assigned" probe is lost.
FreeUnprobed(ty) == Candidates[ty]

\* The candidates a shuffle can put first: those no real value holds.
Free(ty) == {s \in Candidates[ty] : reverse[s] = None}

\* Mutant: the reverse entry is not written.
AllocateForwardOnly(c) ==
    LET v == span[c].text
        ty == span[c].type
    IN
    /\ pc[c] = "substitute" /\ ~span[c].ingress
    /\ ty \in NameTypes
    /\ forward[v] = None
    /\ \E s \in Free(ty) :
          /\ forward' = [forward EXCEPT ![v] = s]
          /\ known' = [known EXCEPT ![s] = ty]
          /\ Send(c, s)
    /\ Finish(c, "ok")
    /\ UNCHANGED reverse

\* Mutant: the forward-map check is lost, so every call allocates.
AllocateAlways(c) ==
    LET v == span[c].text
        ty == span[c].type
    IN
    /\ pc[c] = "substitute" /\ ~span[c].ingress
    /\ ty \in NameTypes
    /\ \E s \in Free(ty) :
          /\ forward' = [forward EXCEPT ![v] = s]
          /\ reverse' = [reverse EXCEPT ![s] = v]
          /\ known' = [known EXCEPT ![s] = ty]
          /\ Send(c, s)
    /\ Finish(c, "ok")

\* allocate_or_lookup_name, a new value: the first unused candidate of a shuffle.
AllocateName(c) ==
    LET v == span[c].text
        ty == span[c].type
    IN
    /\ pc[c] = "substitute" /\ ~span[c].ingress
    /\ ty \in NameTypes
    /\ forward[v] = None
    /\ \E s \in Free(ty) :
          /\ forward' = [forward EXCEPT ![v] = s]
          /\ reverse' = [reverse EXCEPT ![s] = v]
          /\ known' = [known EXCEPT ![s] = ty]
          /\ Send(c, s)
    /\ Finish(c, "ok")

\* allocate_or_lookup_name, no candidate left: NameListExhaustedError.
ExhaustNames(c) ==
    /\ pc[c] = "substitute" /\ ~span[c].ingress
    /\ span[c].type \in NameTypes
    /\ forward[span[c].text] = None
    /\ Free(span[c].type) = {}
    /\ Finish(c, "NameListExhaustedError")
    /\ UNCHANGED <<object, sent>>

\* Mutant: record_surrogate is given the text that was replaced.
EncryptRecordingText(c) ==
    LET ty == span[c].type
        s == Encrypt[ty][span[c].text]
    IN
    /\ pc[c] = "substitute" /\ ~span[c].ingress
    /\ ty \in StructuredTypes
    /\ s # None
    /\ known' = [known EXCEPT ![span[c].text] = ty]
    /\ Send(c, s)
    /\ Finish(c, "ok")
    /\ UNCHANGED <<forward, reverse>>

\* engine.encrypt, then record_surrogate: an entry already there is overwritten.
EncryptSpan(c) ==
    LET ty == span[c].type
        s == Encrypt[ty][span[c].text]
    IN
    /\ pc[c] = "substitute" /\ ~span[c].ingress
    /\ ty \in StructuredTypes
    /\ s # None
    /\ known' = [known EXCEPT ![s] = ty]
    /\ Send(c, s)
    /\ Finish(c, "ok")
    /\ UNCHANGED <<forward, reverse>>

\* engine.encrypt, no domain for the type or a value outside it.
RejectSpan(c) ==
    /\ pc[c] = "substitute" /\ ~span[c].ingress
    /\ span[c].type \in StructuredTypes
    /\ Encrypt[span[c].type][span[c].text] = None
    /\ Finish(c, "SurrogateDomainError")
    /\ UNCHANGED <<object, sent>>
-----------------------------------------------------------------------------
(* Rehydrating a response *)

\* rehydrate() copies the registry and finds one of its keys in the text.
Snapshot(c, s) ==
    /\ pc[c] = "idle"
    /\ known[s] # None
    /\ match' = [match EXCEPT ![c] = [surrogate |-> s, type |-> known[s]]]
    /\ pc' = [pc EXCEPT ![c] = "resolve"]
    /\ outcome' = [outcome EXCEPT ![c] = "none"]
    /\ UNCHANGED <<object, span, sent>>

\* _resolve_real_value, with the type the snapshot holds.
Resolve(c) ==
    /\ pc[c] = "resolve"
    /\ outcome' = [outcome EXCEPT ![c] =
            IF RealValue(match[c].surrogate, match[c].type) = None
            THEN "RehydrationError" ELSE "restored"]
    /\ match' = [match EXCEPT ![c] = NoMatch]
    /\ pc' = [pc EXCEPT ![c] = "idle"]
    /\ UNCHANGED <<object, span, sent>>
-----------------------------------------------------------------------------
Substitute(c) ==
    \/ PassThrough(c)
    \/ LookupName(c)
    \/ AllocateName(c)
    \/ ExhaustNames(c)
    \/ EncryptSpan(c)
    \/ RejectSpan(c)

Next ==
    \E c \in Callers :
        \/ \E v \in Texts, ty \in Types : Recognise(c, v, ty)
        \/ Substitute(c)
        \/ \E s \in Texts : Snapshot(c, s)
        \/ Resolve(c)

Spec == Init /\ [][Next]_vars
-----------------------------------------------------------------------------
(* Properties *)

\* No two real names ever share a surrogate and no name is sent under two, however
\* sanitizing calls interleave and whatever types the detectors gave the value
\* (allocate_or_lookup_name claims a candidate under one lock acquisition).
OneToOne ==
    \A a, b \in {m \in sent : m.type \in NameTypes} :
        a.real = b.real <=> a.surrogate = b.surrogate

\* The value a substitution replaced, as a restored answer writes it.
Replaced(m) == IF m.type \in NameTypes THEN m.real ELSE Plain[m.real]

\* The value an occurrence of the surrogate in an answer is given now.
GivenBack(s) == RealValue(s, known[s])

\* Everything substituted into a request can still be turned back, whatever was
\* minted since: a name, and a value of a format of its own, into exactly the value
\* it replaced.  Only where record_surrogate has filed the surrogate under another
\* structured type is the value another one, and that one it did replace as well.
RoundTrip ==
    \A m \in sent :
        /\ known[m.surrogate] # None
        /\ \/ GivenBack(m.surrogate) = Replaced(m)
           \/ \E n \in sent :
                 /\ n.surrogate = m.surrogate
                 /\ n.type # m.type
                 /\ {m.type, n.type} \subseteq StructuredTypes
                 /\ GivenBack(m.surrogate) = Replaced(n)

\* rehydrate.py's RehydrationError ("an invariant violation") is unreachable: every
\* name in a snapshot has its reverse entry by the time it is resolved.
NoRehydrationError == \A c \in Callers : outcome[c] # "RehydrationError"

\* The lock is released between the snapshot and the lookups, and the entry may be
\* overwritten in between: the match still resolves to a value that this very
\* surrogate replaced in a request of this session, never to another or to none.
RestoresWhatItReplaced ==
    \A c \in Callers : pc[c] = "resolve" =>
        \E m \in sent :
            /\ m.surrogate = match[c].surrogate
            /\ RealValue(match[c].surrogate, match[c].type) = Replaced(m)

\* NameListExhaustedError only when distinct real values hold the whole pool:
\* retries and repeats of a value never use up candidates.
ExhaustedByDistinctValues ==
    [][\A c \in Callers :
          outcome'[c] = "NameListExhaustedError" /\ pc[c] = "substitute" /\ pc'[c] = "idle"
          => Candidates[span[c].type] \subseteq {forward[v] : v \in Texts}]_vars

\* The name map is a ledger: entries are one-to-one and permanent.
Ledger == INSTANCE SurrogateLedger WITH ledger <- forward
ImplementsLedger == Ledger!Spec
=============================================================================
