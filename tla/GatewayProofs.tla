--------------------------- MODULE GatewayProofs ---------------------------
(***************************************************************************)
(* Theorems about Gateway, for any number of requests, conversations and   *)
(* bodies.  None of its properties is inductive.  A step of one request    *)
(* mints into a session that others hold, so each property needs to know   *)
(* how a session's ledger relates to what every request has written        *)
(* (Minted, Accounted), where its values come from (Provenance), and what  *)
(* is left to do in a region that is under way (Covered).  What is left    *)
(* alone as a replay depends on who may mint meanwhile (Recognising).      *)
(***************************************************************************)
EXTENDS Gateway, SequenceTheorems, TLAPS

USE GatewayAssumptions DEF Maybe

Active == {"reading", "sanitizing", "waiting", "streaming"}

\* What a request holds at each point of its handler.
Held ==
    \A r \in Requests :
        /\ pc[r] \in Active => session[r] \in Requests /\ id[r] \in Ids
        /\ session[r] # None => pc[r] # "new" /\ id[r] \in Ids
        /\ written[r] # {} \/ spans[r] # {} => session[r] # None
        /\ pc[r] \in {"new", "reading", "sanitizing"} => r \notin forwarded
        /\ pc[r] \in {"new", "reading"} => spans[r] = {} /\ body[r] = <<>>
        /\ pc[r] = "new" => id[r] = None
        /\ pc[r] = "sanitizing" => region[r] >= 1
        /\ pc[r] # "answered" => answer[r] = NoAnswer

\* A session is known by one id only, in the store and to those who hold it.
Owned ==
    /\ \A i \in Ids : entry[i] # None => session[entry[i]] # None /\ id[entry[i]] = i
    /\ \A r \in Requests : session[r] # None =>
          session[session[r]] # None /\ id[session[r]] = id[r]

\* A ledger has the names and the numbers a session has replaced, one to one but for
\* numbers of two types; each surrogate is filed for one of those it has been sent for.
OtherTypes(m, n) == m \in Numbers /\ n \in Numbers /\ Format[m] # Format[n]

Paired(p, q) ==
    /\ (p[1] \in Names /\ p[2] \in Pool) \/ (p[1] \in Numbers /\ p[2] = Encrypt[p[1]])
    /\ p[2] = q[2] => p[1] = q[1] \/ OtherTypes(p[1], q[1])
    /\ p[1] = q[1] => p[2] = q[2]

Minted ==
    \A o \in Requests :
        /\ \A p, q \in ledger[o] : Paired(p, q)
        /\ \A p \in ledger[o] : <<filed[o][p[2]], p[2]>> \in ledger[o]

\* Everything written was left as it was or is in the ledger.
Accounted ==
    \A r \in Requests : \A w \in written[r] :
        w.sent = w.text \/ <<w.text, w.sent>> \in ledger[session[r]]

\* Every value in a ledger is of a body of its conversation, and so is every span.
Of(r, t) == \E k \in 1..Len(body[r]) : t \in body[r][k]

Provenance ==
    /\ \A o \in Requests : \A p \in ledger[o] :
          \E r \in Requests : session[r] # None /\ id[r] = id[o] /\ Of(r, p[1])
    /\ \A r \in Requests : \A span \in spans[r] :
          Of(r, span.text) /\ (span.ingress => Known(session[r], span.text))

\* The span t of region k has been dealt with.
Settled(r, k, t) ==
    \E w \in written[r] :
        /\ w.region = k /\ w.text = t
        /\ \/ w \in Replaced(r)
           \/ w.sent = t /\ Known(session[r], t)
           \/ w.sent = t /\ t \in Names /\ failMode = "open" /\ r \in logged

Covered ==
    \A r \in Requests :
        /\ r \in forwarded => spans[r] = {} /\ region[r] > Len(body[r])
        /\ \A k \in 1..Len(body[r]) : k < region[r] => \A t \in body[r][k] :
              \/ Settled(r, k, t)
              \/ k = region[r] - 1 /\ \E span \in spans[r] : span.text = t

\* An answer was restored from the ledger as it stood, and what was written by then
\* agrees with it for good.
Restoring ==
    \A r \in Requests : IF answer[r].said = None THEN answer[r].got = None ELSE
        /\ session[r] # None
        /\ answer[r].said \in Texts /\ answer[r].got \in Texts
        /\ \/ answer[r].got = answer[r].said
           \/ <<answer[r].got, answer[r].said>> \in ledger[session[r]]
        /\ answer[r].status = OK /\ answer[r].object =>
              \A w \in written[r] : w.sent = answer[r].said =>
                 \/ answer[r].got = w.text
                 \/ /\ w.sent = w.text \/ OtherTypes(answer[r].got, w.text)
                    /\ <<answer[r].got, w.sent>> \in ledger[session[r]]

IInv ==
    /\ TypeOK
    /\ Held
    /\ Owned
    /\ Minted
    /\ Accounted
    /\ Provenance
    /\ Covered
    /\ Restoring
-----------------------------------------------------------------------------
USE DEF request, sanitizing, sessions

LEMMA Statuses ==
    /\ OK \in Nat
    /\ None # OK
    /\ \A b \in Bodies \cup {<<>>} : b \in Seq(SUBSET Texts)
<1>1. OK \in Nat /\ OK \in Int
  BY DEF OK
<1>2. None \notin Int
  OBVIOUS
<1>3. \A b \in Bodies \cup {<<>>} : b \in Seq(SUBSET Texts)
  <2>1. <<>> \in Seq(SUBSET Texts)
    BY EmptySeq
  <2>2. QED
    BY <2>1
<1>4. QED
  BY <1>1, <1>2, <1>3

LEMMA InitIInv == Init => IInv
<1> SUFFICES ASSUME Init PROVE IInv
  OBVIOUS
<1>1. TypeOK
  BY DEF Init, TypeOK, NoAnswer
<1>2. Held /\ Owned /\ Minted /\ Accounted /\ Provenance /\ Restoring
  BY DEF Init, Held, Active, Owned, Minted, Accounted, Provenance, Restoring, NoAnswer
<1>3. Covered
  BY DEF Init, Covered
<1>4. QED
  BY <1>1, <1>2, <1>3 DEF IInv

\* What a session knows it knows for good, so what was settled stays settled.
Grows == \A o \in Requests : ledger[o] \subseteq ledger'[o]

LEMMA KnownGrows ==
    ASSUME Grows, NEW o \in Requests, NEW t, Known(o, t)
    PROVE  Known(o, t)'
  BY DEF Grows, Known

LEMMA SettledGrows ==
    ASSUME IInv, Grows, NEW r \in Requests, NEW k, NEW t, Settled(r, k, t),
           written[r] \subseteq written'[r], session'[r] = session[r],
           failMode' = failMode, logged \subseteq logged'
    PROVE  Settled(r, k, t)'
<1>1. PICK w \in written[r] :
        /\ w.region = k /\ w.text = t
        /\ \/ w \in Replaced(r)
           \/ w.sent = t /\ Known(session[r], t)
           \/ w.sent = t /\ t \in Names /\ failMode = "open" /\ r \in logged
  BY DEF Settled
<1>2. session[r] \in Requests /\ w \in written'[r]
  BY <1>1 DEF IInv, Held, TypeOK
<1>3. CASE w \in Replaced(r)
  <2>1. <<w.text, w.sent>> \in ledger'[session[r]]
    BY <1>2, <1>3 DEF Replaced, Grows
  <2>2. w \in Replaced(r)'
    BY <1>2, <2>1 DEF Replaced
  <2>3. QED
    BY <1>1, <1>2, <2>2 DEF Settled
<1>4. CASE w.sent = t /\ Known(session[r], t)
  <2>1. Known(session[r], t)'
    <3>1. PICK v \in Texts : <<v, t>> \in ledger[session[r]]
      BY <1>4 DEF Known
    <3>2. <<v, t>> \in ledger'[session'[r]]
      BY <1>2, <3>1 DEF Grows
    <3>3. QED
      BY <3>2 DEF Known
  <2>2. QED
    BY <1>1, <1>2, <1>4, <2>1 DEF Settled
<1>5. CASE w.sent = t /\ t \in Names /\ failMode = "open" /\ r \in logged
  BY <1>1, <1>2, <1>5 DEF Settled
<1>6. QED
  BY <1>1, <1>3, <1>4, <1>5
\* Provenance and Covered speak of neither pc nor the answers.
LEMMA Unmoved ==
    ASSUME Provenance, Covered, id' = id, session' = session, body' = body, spans' = spans,
           region' = region, written' = written, logged' = logged, ledger' = ledger,
           failMode' = failMode, forwarded' = forwarded
    PROVE  Provenance' /\ Covered'
<1>1. \A r, t : Of(r, t)' <=> Of(r, t)
  BY DEF Of
<1>2. \A o, t : Known(o, t)' <=> Known(o, t)
  BY DEF Known
<1>3. \A r : Replaced(r)' = Replaced(r)
  BY DEF Replaced
<1>4. \A r, k, t : Settled(r, k, t)' <=> Settled(r, k, t)
  BY <1>3, <1>2 DEF Settled
<1>5. QED
  BY <1>1, <1>2, <1>4 DEF Provenance, Covered
-----------------------------------------------------------------------------
(* Answers *)

\* Nothing but the answer, and who has the event loop, changes.
Answering(r) ==
    /\ pc[r] # "answered" /\ pc' = [pc EXCEPT ![r] = "answered"]
    /\ running' \in Maybe(Requests)
    /\ UNCHANGED <<failMode, entry, sessions, request, sanitizing, forwarded>>
    /\ upstream' \in [Requests -> Maybe(Nat)]

\* An answer with nothing of the upstream's in it: a refusal, a failure, a timeout.
LEMMA QuietAnswer ==
    ASSUME IInv, NEW r \in Requests, Answering(r), NEW status \in Nat,
           Refuse(r, status)
    PROVE  IInv'
<1>1. answer' = [answer EXCEPT ![r] = [status |-> status, said |-> None, object |-> FALSE,
                                          got |-> None]]
  BY DEF Refuse, Answer
<1>2. TypeOK'
  BY <1>1 DEF IInv, TypeOK, Answering
<1>3. Held'
  BY <1>1 DEF IInv, Held, TypeOK, Answering, Active
<1>4. Owned' /\ Minted' /\ Accounted'
  BY DEF IInv, Owned, Minted, Accounted, Answering
<1>5. Provenance' /\ Covered'
  BY Unmoved DEF IInv, Answering
<1>7. Restoring'
  BY <1>1 DEF IInv, Restoring, Answering, TypeOK
<1>8. QED
  BY <1>2, <1>3, <1>4, <1>5, <1>7 DEF IInv

\* An upstream's text, restored by the ledger of the session at hand.
LEMMA RestoredAnswer ==
    ASSUME IInv, NEW r \in Requests, Answering(r), pc[r] \in Active,
           NEW status \in Nat, NEW said \in Texts, NEW object \in BOOLEAN,
           Answer(r, status, said, object, Content(session[r], status, said, object))
    PROVE  IInv'
<1> DEFINE o == session[r]
           got == Content(o, status, said, object)
           new == [status |-> status, said |-> said, object |-> object, got |-> got]
<1>1. answer' = [answer EXCEPT ![r] = new]
  BY DEF Answer
<1>2. o \in Requests
  BY DEF IInv, Held
<1>3. /\ Known(o, said) => <<Restored(o, said), said>> \in ledger[o]
      /\ ~Known(o, said) => Restored(o, said) = said
  <2>1. ASSUME NEW v \in Texts, <<v, said>> \in ledger[o]
        PROVE  <<filed[o][said], said>> \in ledger[o]
    BY <1>2, <2>1 DEF IInv, Minted
  <2> QED
    BY <2>1 DEF Restored, Known
<1>4. got \in Texts /\ (got = said \/ <<got, said>> \in ledger[o])
  <2>1. <<Restored(o, said), said>> \in ledger[o] => Restored(o, said) \in Texts
    BY <1>2 DEF IInv, TypeOK
  <2>2. got = said \/ (got = Restored(o, said))
    BY DEF Content
  <2> QED
    BY <1>3, <2>1, <2>2
<1>5. status = OK /\ object => \A w \in written[r] : w.sent = said =>
        \/ got = w.text
        \/ /\ w.sent = w.text \/ OtherTypes(got, w.text)
           /\ <<got, w.sent>> \in ledger[o]
  <2> SUFFICES ASSUME status = OK, object, NEW w \in written[r], w.sent = said
               PROVE  \/ got = w.text
                      \/ /\ w.sent = w.text \/ OtherTypes(got, w.text)
                         /\ <<got, w.sent>> \in ledger[o]
    OBVIOUS
  <2>1. w.text \in Texts /\ (w.sent = w.text \/ <<w.text, said>> \in ledger[o])
    BY DEF IInv, TypeOK, Accounted
  <2>2. CASE Known(o, said)
    <3>1. <<got, said>> \in ledger[o]
      BY <1>3, <2>2 DEF Content
    <3>2. <<w.text, said>> \in ledger[o] => got = w.text \/ OtherTypes(got, w.text)
      <4> HIDE DEF got
      <4>1. \A p, q \in ledger[o] : p[2] = q[2] => p[1] = q[1] \/ OtherTypes(p[1], q[1])
        BY <1>2 DEF IInv, Minted, Paired
      <4>2. /\ <<got, said>>[1] = got /\ <<got, said>>[2] = said
            /\ <<w.text, said>>[1] = w.text /\ <<w.text, said>>[2] = said
        OBVIOUS
      <4> QED
        BY <3>1, <4>1, <4>2
    <3>3. QED
      BY <2>1, <3>1, <3>2
  <2>3. CASE ~Known(o, said)
    <3>1. got = said /\ <<w.text, said>> \notin ledger[o]
      BY <1>3, <2>1, <2>3 DEF Content, Known
    <3>2. QED
      BY <2>1, <3>1
  <2>4. QED
    BY <2>2, <2>3
<1>6. TypeOK'
  <2>1. new \in [status : Maybe(Nat), said : Maybe(Texts), object : BOOLEAN, got : Maybe(Texts)]
    BY <1>4
  <2> HIDE DEF new
  <2> QED
    BY <1>1, <2>1 DEF IInv, TypeOK, Answering
<1>7. Held'
  BY <1>1 DEF IInv, Held, TypeOK, Answering, Active
<1>8. Owned' /\ Minted' /\ Accounted'
  BY DEF IInv, Owned, Minted, Accounted, Answering
<1>9. Provenance' /\ Covered'
  BY Unmoved DEF IInv, Answering
<1>11. Restoring'
  <2> HIDE DEF got
  <2>1. \A q \in Requests \ {r} : answer'[q] = answer[q]
    BY <1>1 DEF IInv, TypeOK
  <2>2. answer'[r] = new
    <3> HIDE DEF new
    <3> QED
      BY <1>1 DEF IInv, TypeOK
  <2>3. said # None /\ o # None
    BY <1>2
  <2>4. session' = session /\ ledger' = ledger /\ written' = written
    BY DEF Answering
  <2>5. ASSUME NEW q \in Requests
        PROVE  IF answer'[q].said = None THEN answer'[q].got = None ELSE
               /\ session[q] # None
               /\ answer'[q].said \in Texts /\ answer'[q].got \in Texts
               /\ \/ answer'[q].got = answer'[q].said
                  \/ <<answer'[q].got, answer'[q].said>> \in ledger[session[q]]
               /\ answer'[q].status = OK /\ answer'[q].object =>
                     \A w \in written[q] : w.sent = answer'[q].said =>
                        \/ answer'[q].got = w.text
                        \/ /\ w.sent = w.text \/ OtherTypes(answer'[q].got, w.text)
                           /\ <<answer'[q].got, w.sent>> \in ledger[session[q]]
    <3>1. CASE q = r
      BY <1>4, <1>5, <2>2, <2>3, <3>1
    <3>2. CASE q # r
      BY <2>1, <3>2 DEF IInv, Restoring
    <3>3. QED
      BY <3>1, <3>2
  <2>6. QED
    BY <2>4, <2>5 DEF Restoring
<1>12. QED
  BY <1>6, <1>7, <1>8, <1>9, <1>11 DEF IInv
-----------------------------------------------------------------------------
(* Taking a request in *)

LEMMA EnterIInv ==
    ASSUME IInv, NEW r \in Requests, NEW i \in Ids,
           Rejoin(r, i) \/ Open(r, i) \/ OpenEvicting(r, i)
    PROVE  IInv'
<1>1. PICK o \in Requests :
        /\ Enter(r, i) /\ session' = [session EXCEPT ![r] = o]
        /\ \/ o = entry[i] /\ entry' = entry
           \/ o = r /\ \E base \in [Ids -> Maybe(Requests)] :
                 /\ entry' = [base EXCEPT ![i] = r]
                 /\ \A j \in Ids : base[j] \in {None, entry[j]}
  <2>1. CASE Rejoin(r, i)
    BY <2>1 DEF Rejoin, Store!Rejoin, Store!Give, IInv, TypeOK
  <2>2. CASE Open(r, i)
    BY <2>2 DEF Open, Store!Open, Store!Give, IInv, TypeOK
  <2>3. CASE OpenEvicting(r, i)
    <3>1. PICK victim \in Store!Stored :
             entry' = [entry EXCEPT ![victim] = None, ![i] = r]
      BY <2>3 DEF OpenEvicting, Store!OpenEvicting
    <3> DEFINE base == [entry EXCEPT ![victim] = None]
    <3>2. /\ base \in [Ids -> Maybe(Requests)]
          /\ entry' = [base EXCEPT ![i] = r]
          /\ \A j \in Ids : base[j] \in {None, entry[j]}
      BY <3>1 DEF Store!Stored, IInv, TypeOK
    <3>3. QED
      BY <2>3, <3>2 DEF OpenEvicting, Store!OpenEvicting, Store!Give
  <2>4. QED
    BY <2>1, <2>2, <2>3
<1>2. /\ pc[r] = "new" /\ id[r] = None /\ session[r] = None
      /\ written[r] = {} /\ spans[r] = {} /\ body[r] = <<>> /\ answer[r] = NoAnswer
  BY <1>1 DEF Enter, IInv, Held
<1>3. /\ pc' = [pc EXCEPT ![r] = "reading"]
      /\ id' = [id EXCEPT ![r] = i]
      /\ session' = [session EXCEPT ![r] = o]
      /\ UNCHANGED <<failMode, sessions, running, body, stream, sanitizing, forwarded, upstream,
                     answer>>
  BY <1>1 DEF Enter
<1>4. entry' \in [Ids -> Maybe(Requests)]
  BY <1>1, ZenonT(30) DEF IInv, TypeOK
<1>5. TypeOK'
  BY <1>3, <1>4 DEF IInv, TypeOK
<1>6. Held'
  BY <1>2, <1>3 DEF IInv, Held, TypeOK, Active
<1>7. \A q \in Requests : q # r => session'[q] = session[q] /\ id'[q] = id[q]
  BY <1>3 DEF IInv, TypeOK
<1>8. session'[r] = o /\ id'[r] = i /\ r # None /\ o # None
  BY <1>3 DEF IInv, TypeOK
<1>9. \A j \in Ids : entry[j] # r
  BY <1>2 DEF IInv, Owned
<1>10. Owned'
  <2>1. ASSUME NEW j \in Ids, entry'[j] # None
        PROVE  session'[entry'[j]] # None /\ id'[entry'[j]] = j
    <3>1. entry'[j] = entry[j] \/ (j = i /\ entry'[j] = r)
      BY <1>1, <2>1 DEF IInv, TypeOK
    <3>2. QED
      BY <1>7, <1>8, <1>9, <2>1, <3>1 DEF IInv, Owned, TypeOK
  <2>2. ASSUME NEW q \in Requests, session'[q] # None
        PROVE  session'[session'[q]] # None /\ id'[session'[q]] = id'[q]
    <3>1. CASE q = r
      <4>1. o = r \/ (o # r /\ session[o] # None /\ id[o] = i)
        BY <1>1, <1>2, <1>9 DEF IInv, Owned
      <4>2. QED
        BY <1>7, <1>8, <3>1, <4>1
    <3>2. CASE q # r
      BY <1>2, <1>7, <2>2, <3>2 DEF IInv, Owned, TypeOK
    <3>3. QED
      BY <3>1, <3>2
  <2>3. QED
    BY <2>1, <2>2 DEF Owned
<1>11. Minted'
  BY <1>3 DEF IInv, Minted
<1>12. Accounted'
  BY <1>2, <1>3, <1>7 DEF IInv, Accounted
<1>13. Provenance'
  <2>1. ASSUME NEW p \in Requests, NEW e \in ledger[p]
        PROVE  \E q \in Requests : session'[q] # None /\ id'[q] = id'[p] /\ Of(q, e[1])'
    <3>1. PICK q \in Requests : session[q] # None /\ id[q] = id[p] /\ Of(q, e[1])
      BY DEF IInv, Provenance
    <3>2. q # r /\ id[q] \in Ids
      BY <1>2, <3>1 DEF IInv, Held
    <3>3. p # r
      BY <1>2, <3>1, <3>2
    <3>4. Of(q, e[1])'
      BY <1>3, <3>1 DEF Of
    <3>5. QED
      BY <1>7, <3>1, <3>2, <3>3, <3>4
  <2>2. ASSUME NEW q \in Requests, NEW span \in spans[q]
        PROVE  Of(q, span.text)' /\ (span.ingress => Known(session[q], span.text)')
    <3>1. q # r
      BY <1>2, <2>2
    <3>2. Of(q, span.text) /\ (span.ingress => Known(session[q], span.text))
      BY DEF IInv, Provenance
    <3>3. session'[q] = session[q] /\ body' = body /\ ledger' = ledger
      BY <1>3, <1>7, <3>1
    <3>4. QED
      BY <3>2, <3>3 DEF Of, Known
  <2>3. QED
    BY <1>3, <2>1, <2>2 DEF Provenance
<1>14. Covered'
  <2>1. Grows
    BY <1>3 DEF Grows
  <2>2. ASSUME NEW q \in Requests, NEW k \in 1..Len(body[q]), k < region[q],
               NEW t \in body[q][k]
        PROVE  \/ Settled(q, k, t)'
               \/ k = region[q] - 1 /\ \E span \in spans[q] : span.text = t
    <3>1. q # r
      BY <1>2, <2>2
    <3>2. \/ Settled(q, k, t)
          \/ k = region[q] - 1 /\ \E span \in spans[q] : span.text = t
      BY <2>2 DEF IInv, Covered
    <3>3. Settled(q, k, t) => Settled(q, k, t)'
      BY <1>3, <1>7, <2>1, <3>1, SettledGrows
    <3>4. QED
      BY <3>2, <3>3
  <2>3. QED
    BY <1>3, <2>2 DEF IInv, Covered
<1>15. Restoring'
  BY <1>2, <1>3, <1>7 DEF IInv, Restoring, NoAnswer
<1>16. QED
  BY <1>5, <1>6, <1>10, <1>11, <1>12, <1>13, <1>14, <1>15 DEF IInv

LEMMA ReadBodyIInv ==
    ASSUME IInv, NEW r \in Requests, ReadBody(r)
    PROVE  IInv'
<1>1. PICK b \in Bodies : body' = [body EXCEPT ![r] = b]
  BY DEF ReadBody
<1>2. /\ pc[r] = "reading" /\ body[r] = <<>> /\ spans[r] = {}
      /\ pc' = [pc EXCEPT ![r] = "sanitizing"]
      /\ region' = [region EXCEPT ![r] = 1]
      /\ running' = r
      /\ UNCHANGED <<failMode, entry, sessions, id, session, spans, written, logged, forwarded,
                     upstream, answer>>
  BY DEF ReadBody, IInv, Held
<1>3. stream' \in [Requests -> BOOLEAN]
  <2>1. PICK on \in BOOLEAN : stream' = [stream EXCEPT ![r] = on]
    BY DEF ReadBody
  <2>2. stream \in [Requests -> BOOLEAN]
    BY DEF IInv, TypeOK
  <2>3. QED
    BY <2>1, <2>2
<1>4. TypeOK'
  BY <1>1, <1>2, <1>3 DEF IInv, TypeOK
<1>5. Held'
  BY <1>1, <1>2 DEF IInv, Held, TypeOK, Active
<1>6. Owned' /\ Minted' /\ Accounted' /\ Restoring'
  <2>1. Owned'
    BY <1>2 DEF IInv, Owned
  <2>2. Minted'
    BY <1>2 DEF IInv, Minted
  <2>3. Accounted'
    BY <1>2 DEF IInv, Accounted
  <2>4. Restoring'
    BY <1>2 DEF IInv, Restoring
  <2>5. QED
    BY <2>1, <2>2, <2>3, <2>4
<1>7. \A q \in Requests : \A t : Of(q, t) => q # r /\ Of(q, t)'
  <2>1. ASSUME NEW q \in Requests, NEW t, Of(q, t)
        PROVE  q # r
    BY <1>2, <2>1 DEF Of
  <2>2. \A q \in Requests : q # r => body'[q] = body[q]
    BY <1>1 DEF IInv, TypeOK
  <2>3. QED
    BY <2>1, <2>2 DEF Of
<1>8. Provenance'
  <2>1. \A o, t : Known(o, t)' <=> Known(o, t)
    BY <1>2 DEF Known
  <2>2. QED
    BY <1>2, <1>7, <2>1 DEF IInv, Provenance
<1>9. Covered'
  <2>1. \A q, k, t : Settled(q, k, t)' <=> Settled(q, k, t)
    BY <1>2 DEF Settled, Replaced, Known
  <2>2. \A q \in Requests \ {r} : body'[q] = body[q] /\ region'[q] = region[q]
    BY <1>1, <1>2 DEF IInv, TypeOK
  <2>3. region'[r] = 1 /\ r \notin forwarded
    BY <1>2 DEF IInv, TypeOK, Held
  <2>4. QED
    BY <1>2, <2>1, <2>2, <2>3 DEF IInv, Covered
<1>10. QED
  BY <1>4, <1>5, <1>6, <1>8, <1>9 DEF IInv
-----------------------------------------------------------------------------
(* Sanitizing *)

\* A region's spans are now known; those that are not spans have been written as
\* they are, and nothing else has happened.
Detecting(r, texts) ==
    /\ AtRegion(r)
    /\ spans' = [spans EXCEPT ![r] = Recognised(r, texts)]
    /\ region' = [region EXCEPT ![r] = @ + 1]
    /\ UNCHANGED <<failMode, entry, sessions, running, pc, request, forwarded, upstream, answer>>

LEMMA DetectIInv ==
    ASSUME IInv, NEW r \in Requests, Detect(r) \/ DetectFailsOpen(r)
    PROVE  IInv'
<1> DEFINE k == region[r]
           all == body[r][k]
<1>1. /\ pc[r] = "sanitizing" /\ spans[r] = {}
      /\ k \in 1..Len(body[r]) /\ all \subseteq Texts
      /\ r \notin forwarded /\ session[r] \in Requests
  <2>1. pc[r] = "sanitizing" /\ spans[r] = {} /\ k <= Len(body[r])
    BY DEF Detect, DetectFailsOpen, AtRegion
  <2>2. k \in Nat /\ k >= 1 /\ r \notin forwarded /\ session[r] \in Requests
    BY <2>1 DEF IInv, TypeOK, Held, Active
  <2>3. body[r] \in Seq(SUBSET Texts)
    BY Statuses DEF IInv, TypeOK
  <2>4. QED
    BY <2>1, <2>2, <2>3
<1>2. PICK texts \in SUBSET all :
        /\ Detecting(r, texts)
        /\ \/ texts = all /\ UNCHANGED <<written, logged>>
           \/ /\ failMode = "open"
              /\ \A t \in all \ texts : t \in Names
              /\ written' = [written EXCEPT ![r] = @ \cup Unchanged(r, all \cap Names)]
              /\ logged' = logged \cup {r}
  <2>1. CASE Detect(r)
    BY <2>1 DEF Detect, Detecting
  <2>2. CASE DetectFailsOpen(r)
    <3>1. /\ Tier1Texts(r) \in SUBSET all
          /\ \A t \in all \ Tier1Texts(r) : t \in Names
      BY DEF Tier1Texts
    <3>2. /\ Detecting(r, Tier1Texts(r))
          /\ failMode = "open"
          /\ written' = [written EXCEPT ![r] = @ \cup Unchanged(r, all \cap Names)]
          /\ logged' = logged \cup {r}
      BY <2>2 DEF DetectFailsOpen, Detecting
    <3>3. QED
      BY <3>1, <3>2
  <2>3. QED
    BY <2>1, <2>2
<1>3. /\ spans' = [spans EXCEPT ![r] = Recognised(r, texts)]
      /\ region' = [region EXCEPT ![r] = k + 1]
      /\ UNCHANGED <<failMode, entry, sessions, running, pc, request, forwarded, upstream, answer>>
  BY <1>2 DEF Detecting
<1>4. spans'[r] = Recognised(r, texts) /\ region'[r] = k + 1
  BY <1>3 DEF IInv, TypeOK
<1>5. \A q \in Requests \ {r} :
        spans'[q] = spans[q] /\ region'[q] = region[q] /\ written'[q] = written[q]
  BY <1>2, <1>3 DEF IInv, TypeOK
<1>6. /\ written[r] \subseteq written'[r] /\ logged \subseteq logged'
      /\ \A w \in written'[r] : w \in written[r] \/ w.sent = w.text
  BY <1>2 DEF IInv, TypeOK, Unchanged
<1>7. \A q \in Requests : written[q] \subseteq written'[q]
  BY <1>5, <1>6
<1>8. TypeOK'
  <2>1. Recognised(r, texts) \in SUBSET [text : Texts, ingress : BOOLEAN]
    <3>1. \A t : Known(session[r], t) \in BOOLEAN
      BY DEF Known
    <3>2. QED
      BY <1>1, <3>1 DEF Recognised
  <2>2. spans' \in [Requests -> SUBSET [text : Texts, ingress : BOOLEAN]]
    BY <1>3, <2>1 DEF IInv, TypeOK
  <2>3. Unchanged(r, all \cap Names) \in SUBSET [region : Nat, text : Texts, sent : Texts]
    BY <1>1 DEF Unchanged
  <2>4. /\ written' \in [Requests -> SUBSET [region : Nat, text : Texts, sent : Texts]]
        /\ logged' \in SUBSET Requests
    <3>1. CASE UNCHANGED <<written, logged>>
      BY <3>1 DEF IInv, TypeOK
    <3>2. CASE /\ written' = [written EXCEPT ![r] = @ \cup Unchanged(r, all \cap Names)]
               /\ logged' = logged \cup {r}
      <4> DEFINE more == Unchanged(r, all \cap Names)
      <4> HIDE DEF more
      <4>1. written' = [written EXCEPT ![r] = @ \cup more]
        BY <3>2 DEF more
      <4>2. written' \in [Requests -> SUBSET [region : Nat, text : Texts, sent : Texts]]
        BY <2>3, <4>1 DEF more, IInv, TypeOK
      <4>3. QED
        BY <3>2, <4>2 DEF IInv, TypeOK
    <3>3. QED
      BY <1>2, <3>1, <3>2
  <2>5. region' \in [Requests -> Nat]
    BY <1>1, <1>3 DEF IInv, TypeOK
  <2>6. QED
    BY <1>3, <2>2, <2>4, <2>5 DEF IInv, TypeOK
<1>9. Held'
  <2>1. ASSUME NEW q \in Requests, pc[q] \in {"new", "reading"}
        PROVE  spans'[q] = {}
    BY <1>1, <1>5, <2>1 DEF IInv, Held
  <2>2. ASSUME NEW q \in Requests, written'[q] # {} \/ spans'[q] # {}
        PROVE  session[q] # None
    BY <1>1, <1>5, <2>2 DEF IInv, Held
  <2>3. ASSUME NEW q \in Requests, pc[q] = "sanitizing"
        PROVE  region'[q] >= 1
    BY <1>1, <1>4, <1>5, <2>3 DEF IInv, Held
  <2>4. QED
    BY <1>3, <2>1, <2>2, <2>3 DEF IInv, Held
<1>10. Owned' /\ Minted'
  BY <1>3 DEF IInv, Owned, Minted
<1>11. Accounted'
  BY <1>3, <1>5, <1>6 DEF IInv, Accounted
<1>12. \A q, t : Of(q, t)' <=> Of(q, t)
  BY <1>3 DEF Of
<1>13. \A o, t : Known(o, t)' <=> Known(o, t)
  BY <1>3 DEF Known
<1>14. Provenance'
  <2>1. ASSUME NEW span \in Recognised(r, texts)
        PROVE  Of(r, span.text) /\ (span.ingress => Known(session[r], span.text))
    <3>1. PICK t \in texts : span = [text |-> t, ingress |-> Known(session[r], t)]
      BY <2>1 DEF Recognised
    <3>2. span.text = t /\ span.ingress = Known(session[r], t)
      BY ONLY <3>1
    <3>3. QED
      BY <1>1, <3>2 DEF Of
  <2>2. ASSUME NEW q \in Requests, NEW span \in spans'[q]
        PROVE  Of(q, span.text) /\ (span.ingress => Known(session[q], span.text))
    BY <1>4, <1>5, <2>1, <2>2 DEF IInv, Provenance
  <2>3. QED
    BY <1>3, <1>12, <1>13, <2>2 DEF IInv, Provenance
<1>15. Covered'
  <2>1. Grows
    BY <1>3 DEF Grows
  <2>2. \A q \in Requests : \A n, t : Settled(q, n, t) => Settled(q, n, t)'
    BY <1>3, <1>6, <1>7, <2>1, SettledGrows
  <2>3. ASSUME NEW n \in 1..Len(body[r]), n < region'[r], NEW t \in body[r][n]
        PROVE  Settled(r, n, t)' \/ (n = region'[r] - 1 /\ \E span \in spans'[r] : span.text = t)
    <3>1. CASE n < k
      <4>1. Settled(r, n, t)
        BY <1>1, <3>1 DEF IInv, Covered
      <4>2. QED
        BY <2>2, <4>1
    <3>2. CASE n = k /\ t \in texts
      <4>1. [text |-> t, ingress |-> Known(session[r], t)] \in spans'[r]
        BY <1>4, <3>2 DEF Recognised
      <4>2. QED
        BY <1>1, <1>4, <3>2, <4>1
    <3>3. CASE n = k /\ t \notin texts
      <4> DEFINE w == [region |-> k, text |-> t, sent |-> t]
      <4>1. /\ failMode' = "open" /\ r \in logged' /\ t \in Names
            /\ written' = [written EXCEPT ![r] = @ \cup Unchanged(r, all \cap Names)]
        BY <1>2, <1>3, <3>3
      <4>2. w \in Unchanged(r, all \cap Names)
        BY <3>3, <4>1 DEF Unchanged
      <4>3. w \in written'[r]
        BY <4>1, <4>2 DEF IInv, TypeOK
      <4>4. Settled(r, n, t)'
        BY <3>3, <4>1, <4>3 DEF Settled
      <4>5. QED
        BY <4>4
    <3>4. QED
      BY <1>1, <1>4, <2>3, <3>1, <3>2, <3>3
  <2>4. ASSUME NEW q \in Requests \ {r}, NEW n \in 1..Len(body[q]), n < region'[q],
               NEW t \in body[q][n]
        PROVE  Settled(q, n, t)' \/ (n = region'[q] - 1 /\ \E span \in spans'[q] : span.text = t)
    BY <1>5, <2>2, <2>4 DEF IInv, Covered
  <2>5. ASSUME NEW q \in forwarded
        PROVE  spans'[q] = {} /\ region'[q] > Len(body[q])
    BY <1>1, <1>5, ZenonT(30) DEF IInv, Covered, TypeOK
  <2>6. QED
    BY <1>3, <2>3, <2>4, <2>5 DEF Covered
<1>16. Restoring'
  <2>1. answer[r] = NoAnswer
    BY <1>1 DEF IInv, Held
  <2>2. \A q \in Requests : answer[q].said # None => written'[q] = written[q]
    BY <1>5, <2>1 DEF NoAnswer
  <2>3. session' = session /\ ledger' = ledger /\ answer' = answer
    BY <1>3
  <2>4. QED
    BY <2>2, <2>3 DEF IInv, Restoring
<1>17. QED
  BY <1>8, <1>9, <1>10, <1>11, <1>14, <1>15, <1>16 DEF IInv

\* One span is replaced or kept; what is new in the session's ledger is that pair.
Writing(r, span, s) ==
    /\ pc[r] = "sanitizing" /\ span \in spans[r] /\ s \in Texts
    /\ Write(r, span, s)
    /\ Grows
    /\ ledger' \in [Requests -> SUBSET (Texts \X Texts)]
    /\ filed' \in [Requests -> [Texts -> Maybe(Texts)]]
    /\ \A o \in Requests : \A p \in ledger'[o] :
          p \in ledger[o] \/ (o = session[r] /\ p = <<span.text, s>>)
    /\ (span.ingress /\ s = span.text) \/ <<span.text, s>> \in ledger'[session[r]]

\* The last pair recorded under a surrogate is the one it is filed for.
LEMMA MintFiles ==
    ASSUME IInv, NEW o \in Requests, NEW v \in Texts, NEW s \in Texts, Mint(o, v, s)
    PROVE  /\ ledger'[o] = ledger[o] \cup {<<v, s>>}
           /\ \A q \in Requests \ {o} : ledger'[q] = ledger[q]
           /\ ledger' \in [Requests -> SUBSET (Texts \X Texts)]
           /\ filed' \in [Requests -> [Texts -> Maybe(Texts)]]
           /\ \A q \in Requests : \A p \in ledger'[q] :
                 <<filed'[q][p[2]], p[2]>> \in ledger'[q]
<1>1. /\ ledger'[o] = ledger[o] \cup {<<v, s>>}
      /\ \A q \in Requests \ {o} : ledger'[q] = ledger[q]
      /\ ledger' \in [Requests -> SUBSET (Texts \X Texts)]
  BY DEF Mint, IInv, TypeOK
<1>2. /\ filed'[o] = [filed[o] EXCEPT ![s] = v]
      /\ \A q \in Requests \ {o} : filed'[q] = filed[q]
      /\ filed' \in [Requests -> [Texts -> Maybe(Texts)]]
  BY DEF Mint, IInv, TypeOK
<1>3. filed'[o][s] = v /\ \A t \in Texts : t # s => filed'[o][t] = filed[o][t]
  BY <1>2 DEF IInv, TypeOK
<1>4. ASSUME NEW p \in ledger'[o]
      PROVE  <<filed'[o][p[2]], p[2]>> \in ledger'[o]
  <2>1. p[2] \in Texts
    BY <1>1
  <2>2. CASE p[2] = s
    BY <1>1, <1>3, <2>2
  <2>3. CASE p[2] # s
    <3>1. p \in ledger[o]
      BY <1>1, <2>3
    <3>2. <<filed[o][p[2]], p[2]>> \in ledger[o]
      BY <3>1 DEF IInv, Minted
    <3> QED
      BY <1>1, <1>3, <2>1, <2>3, <3>2
  <2> QED
    BY <2>2, <2>3
<1> QED
  BY <1>1, <1>2, <1>4 DEF IInv, Minted

\* The pair itself keeps the ledger one to one, numbers of other types aside.
LEMMA NamePair ==
    ASSUME IInv, NEW o \in Requests, NEW v \in Names, NEW s \in Pool, Mint(o, v, s),
           <<v, s>> \in ledger[o] \/ (~Known(o, s) /\ \A p \in ledger[o] : p[1] # v)
    PROVE  Minted'
<1>1. v \in Texts /\ s \in Texts /\ v \notin Numbers
  BY DEF Texts
<1>2. /\ ledger'[o] = ledger[o] \cup {<<v, s>>}
      /\ \A q \in Requests \ {o} : ledger'[q] = ledger[q]
      /\ \A q \in Requests : \A p \in ledger'[q] : <<filed'[q][p[2]], p[2]>> \in ledger'[q]
  BY <1>1, MintFiles
<1>3. \A p, q \in ledger[o] : Paired(p, q)
  BY DEF IInv, Minted
<1>4. <<v, s>>[1] = v /\ <<v, s>>[2] = s
  OBVIOUS
<1>5. ASSUME NEW p \in ledger'[o], NEW q \in ledger'[o]
      PROVE  Paired(p, q)
  <2>1. CASE <<v, s>> \in ledger[o]
    BY <1>2, <1>3, <2>1
  <2>2. CASE ~Known(o, s) /\ \A e \in ledger[o] : e[1] # v
    <3>1. ASSUME NEW e \in ledger[o]
          PROVE  e[1] # v /\ e[2] # s
      <4>1. e[1] \in Texts /\ e = <<e[1], e[2]>>
        BY DEF IInv, TypeOK
      <4> QED
        BY <2>2, <4>1 DEF Known
    <3>2. ASSUME p \in ledger[o], q \in ledger[o] PROVE Paired(p, q)
      BY <1>3, <3>2
    <3>3. ASSUME p = <<v, s>>, q \in ledger[o] PROVE Paired(p, q)
      BY <1>4, <3>1, <3>3 DEF Paired
    <3>4. ASSUME p \in ledger[o], q = <<v, s>> PROVE Paired(p, q)
      <4>1. (p[1] \in Names /\ p[2] \in Pool) \/ (p[1] \in Numbers /\ p[2] = Encrypt[p[1]])
        BY <1>3, <3>4 DEF Paired
      <4> QED
        BY <1>4, <3>1, <3>4, <4>1 DEF Paired
    <3>5. ASSUME p = <<v, s>>, q = <<v, s>> PROVE Paired(p, q)
      BY <1>4, <3>5 DEF Paired
    <3> QED
      BY <1>2, <3>2, <3>3, <3>4, <3>5
  <2> QED
    BY <2>1, <2>2
<1> QED
  BY <1>2, <1>5 DEF IInv, Minted, Paired, OtherTypes

LEMMA NumberPair ==
    ASSUME IInv, NEW o \in Requests, NEW n \in Numbers, Mint(o, n, Encrypt[n])
    PROVE  Minted'
<1>1. n \in Texts /\ Encrypt[n] \in Texts
  BY DEF Texts
<1>2. /\ ledger'[o] = ledger[o] \cup {<<n, Encrypt[n]>>}
      /\ \A q \in Requests \ {o} : ledger'[q] = ledger[q]
      /\ \A q \in Requests : \A p \in ledger'[q] : <<filed'[q][p[2]], p[2]>> \in ledger'[q]
  BY <1>1, MintFiles
<1>3. Encrypt[n] \in Numbers /\ Encrypt[n] \notin Pool /\ n \notin Names
  OBVIOUS
<1>4. \A p, q \in ledger[o] : Paired(p, q)
  BY DEF IInv, Minted
<1>5. ASSUME NEW p \in ledger[o]
      PROVE  /\ p[2] = Encrypt[n] => p[1] = n \/ (OtherTypes(p[1], n) /\ OtherTypes(n, p[1]))
             /\ p[1] = n => p[2] = Encrypt[n]
  <2>1. (p[1] \in Names /\ p[2] \in Pool) \/ (p[1] \in Numbers /\ p[2] = Encrypt[p[1]])
    BY <1>4 DEF Paired
  <2>2. p[2] = Encrypt[n] => p[1] \in Numbers /\ Encrypt[p[1]] = Encrypt[n]
    BY <1>3, <2>1
  <2>3. p[2] = Encrypt[n] => p[1] = n \/ Format[p[1]] # Format[n]
    BY <2>2
  <2> QED
    BY <1>3, <2>1, <2>2, <2>3 DEF OtherTypes
<1>6. ASSUME NEW p \in ledger'[o], NEW q \in ledger'[o]
      PROVE  Paired(p, q)
  <2>1. /\ p \in ledger[o] \/ p = <<n, Encrypt[n]>>
        /\ q \in ledger[o] \/ q = <<n, Encrypt[n]>>
    BY <1>2
  <2>2. ASSUME p \in ledger[o], q \in ledger[o] PROVE Paired(p, q)
    BY <1>4, <2>2
  <2>3. ASSUME p \in ledger[o], q = <<n, Encrypt[n]>> PROVE Paired(p, q)
    <3>1. (p[1] \in Names /\ p[2] \in Pool) \/ (p[1] \in Numbers /\ p[2] = Encrypt[p[1]])
      BY <1>4, <2>3 DEF Paired
    <3> QED
      BY <1>5, <2>3, <3>1 DEF Paired
  <2>4. ASSUME p = <<n, Encrypt[n]>> PROVE Paired(p, q)
    BY <1>5, <2>1, <2>4 DEF Paired
  <2> QED
    BY <2>1, <2>2, <2>3, <2>4
<1> QED
  BY <1>2, <1>6 DEF IInv, Minted, Paired, OtherTypes

LEMMA SubstituteForm ==
    ASSUME IInv, NEW r \in Requests, NEW span \in spans[r], pc[r] = "sanitizing",
           KeepReplay(r, span) \/ ReplaceName(r, span) \/ ReplaceNumber(r, span)
    PROVE  Minted' /\ \E s \in Texts : Writing(r, span, s)
<1>1. session[r] \in Requests /\ span.text \in Texts
  BY DEF IInv, Held, Active, TypeOK
<1>2. ASSUME NEW s \in Texts, Write(r, span, s), Mint(session[r], span.text, s)
      PROVE  Writing(r, span, s)
  <2>1. /\ ledger'[session[r]] = ledger[session[r]] \cup {<<span.text, s>>}
        /\ \A o \in Requests \ {session[r]} : ledger'[o] = ledger[o]
        /\ ledger' \in [Requests -> SUBSET (Texts \X Texts)]
        /\ filed' \in [Requests -> [Texts -> Maybe(Texts)]]
    BY <1>1, <1>2, MintFiles
  <2>2. QED
    BY <1>1, <1>2, <2>1 DEF Writing, Grows
<1>3. CASE KeepReplay(r, span)
  <2>1. Write(r, span, span.text) /\ span.ingress /\ ledger' = ledger /\ filed' = filed
    BY <1>3 DEF KeepReplay
  <2>2. Minted' /\ Writing(r, span, span.text)
    BY <1>1, <2>1 DEF IInv, TypeOK, Minted, Writing, Grows
  <2>3. QED
    BY <1>1, <2>2
<1>4. CASE ReplaceName(r, span)
  <2>1. PICK s \in Pool :
          /\ span.text \in Names
          /\ \/ <<span.text, s>> \in ledger[session[r]]
             \/ ~Known(session[r], s) /\ \A p \in ledger[session[r]] : p[1] # span.text
          /\ Write(r, span, s)
          /\ Mint(session[r], span.text, s)
    BY <1>4 DEF ReplaceName
  <2>2. s \in Texts
    BY DEF Texts
  <2>3. QED
    BY <1>1, <1>2, <2>1, <2>2, NamePair
<1>5. CASE ReplaceNumber(r, span)
  <2> DEFINE s == Encrypt[span.text]
  <2>1. /\ span.text \in Numbers /\ Write(r, span, s)
        /\ Mint(session[r], span.text, s)
    BY <1>5 DEF ReplaceNumber
  <2>2. s \in Texts
    BY <2>1 DEF Texts
  <2>3. QED
    BY <1>1, <1>2, <2>1, <2>2, NumberPair
<1>6. QED
  BY <1>3, <1>4, <1>5

LEMMA WritingIInv ==
    ASSUME IInv, NEW r \in Requests, NEW span \in spans[r], NEW s \in Texts,
           Writing(r, span, s), Minted'
    PROVE  IInv'
<1> DEFINE n == region[r] - 1
           new == [region |-> n, text |-> span.text, sent |-> s]
           o == session[r]
<1>1. /\ pc[r] = "sanitizing" /\ o \in Requests /\ r \notin forwarded /\ answer[r] = NoAnswer
      /\ region[r] >= 1 /\ region[r] \in Nat /\ n \in Nat /\ span.text \in Texts
      /\ Of(r, span.text) /\ (span.ingress => Known(o, span.text))
  <2>1. pc[r] = "sanitizing"
    BY DEF Writing
  <2>2. QED
    BY <2>1 DEF IInv, TypeOK, Held, Active, Provenance
<1>2. /\ written' = [written EXCEPT ![r] = @ \cup {new}]
      /\ spans' = [spans EXCEPT ![r] = @ \ {span}]
      /\ UNCHANGED <<failMode, entry, running, pc, request, region, logged, forwarded, upstream,
                     answer>>
  BY DEF Writing, Write
<1>3. /\ written'[r] = written[r] \cup {new} /\ spans'[r] = spans[r] \ {span}
      /\ \A q \in Requests \ {r} : written'[q] = written[q] /\ spans'[q] = spans[q]
  <2> HIDE DEF new
  <2>1. QED
    BY <1>2 DEF IInv, TypeOK
<1>4. Grows
  BY DEF Writing
<1>5. /\ ledger' \in [Requests -> SUBSET (Texts \X Texts)]
      /\ filed' \in [Requests -> [Texts -> Maybe(Texts)]]
  BY DEF Writing
<1>6. TypeOK'
  <2>1. new \in [region : Nat, text : Texts, sent : Texts]
    BY <1>1
  <2> HIDE DEF new
  <2>2. written' \in [Requests -> SUBSET [region : Nat, text : Texts, sent : Texts]]
    BY <1>2, <2>1 DEF IInv, TypeOK
  <2>3. spans' \in [Requests -> SUBSET [text : Texts, ingress : BOOLEAN]]
    BY <1>2 DEF IInv, TypeOK
  <2>4. QED
    BY <1>2, <1>5, <2>2, <2>3 DEF IInv, TypeOK
<1>7. Held'
  <2>1. ASSUME NEW q \in Requests
        PROVE  /\ written'[q] # {} \/ spans'[q] # {} => session[q] # None
               /\ pc[q] \in {"new", "reading"} => spans'[q] = {}
    BY <1>1, <1>3 DEF IInv, Held
  <2>2. QED
    BY <1>2, <2>1 DEF IInv, Held
<1>8. Owned'
  BY <1>2 DEF IInv, Owned
<1>9. Accounted'
  <2>1. ASSUME NEW q \in Requests, NEW w \in written'[q]
        PROVE  w.sent = w.text \/ <<w.text, w.sent>> \in ledger'[session[q]]
    <3>1. CASE w \in written[q]
      <4>1. session[q] \in Requests
        BY <3>1 DEF IInv, TypeOK, Held
      <4>2. QED
        BY <1>4, <3>1, <4>1 DEF IInv, Accounted, Grows
    <3>2. CASE w \notin written[q]
      <4>1. q = r /\ w = new
        BY <1>3, <2>1, <3>2
      <4>2. s = span.text \/ <<span.text, s>> \in ledger'[o]
        BY DEF Writing
      <4>3. QED
        BY <4>1, <4>2
    <3>3. QED
      BY <3>1, <3>2
  <2>2. QED
    BY <1>2, <2>1 DEF Accounted
<1>10. \A q, t : Of(q, t)' <=> Of(q, t)
  BY <1>2 DEF Of
<1>11. Provenance'
  <2>1. ASSUME NEW p \in Requests, NEW e \in ledger'[p]
        PROVE  \E q \in Requests : session[q] # None /\ id[q] = id[p] /\ Of(q, e[1])
    <3>1. CASE e \in ledger[p]
      BY <3>1 DEF IInv, Provenance
    <3>2. CASE p = o /\ e = <<span.text, s>>
      <4>1. session[r] # None /\ id[r] = id[p]
        BY <1>1, <3>2 DEF IInv, Owned
      <4>2. QED
        BY <1>1, <3>2, <4>1
    <3>3. QED
      BY <2>1, <3>1, <3>2 DEF Writing
  <2>2. ASSUME NEW q \in Requests, NEW sp \in spans'[q]
        PROVE  Of(q, sp.text) /\ (sp.ingress => Known(session[q], sp.text)')
    <3>1. sp \in spans[q]
      BY <1>3
    <3>2. session[q] \in Requests /\ Of(q, sp.text) /\ (sp.ingress => Known(session[q], sp.text))
      BY <3>1 DEF IInv, TypeOK, Held, Provenance
    <3>3. session' = session
      BY <1>2
    <3>4. QED
      BY <1>4, <3>2, <3>3 DEF Known, Grows
  <2>3. QED
    BY <1>2, <1>10, <2>1, <2>2 DEF Provenance
<1>12. Covered'
  <2>1. \A q \in Requests : written[q] \subseteq written'[q]
    BY <1>3
  <2>2. \A q \in Requests : \A k, t : Settled(q, k, t) => Settled(q, k, t)'
    BY <1>2, <1>4, <2>1, SettledGrows
  <2>3. ASSUME NEW k, NEW t, k = n, t = span.text
        PROVE  Settled(r, k, t)'
    <3>1. new \in written'[r] /\ new.region = k /\ new.text = t /\ new.sent = s
      BY <1>3, <2>3
    <3>2. PICK w \in written'[r] : w.region = k /\ w.text = t /\ w.sent = s
      BY <3>1
    <3>3. session' = session
      BY <1>2
    <3>4. CASE span.ingress /\ s = t
      <4>1. Known(session[r], t)'
        BY <1>1, <1>4, <2>3, <3>3, <3>4 DEF Known, Grows
      <4>2. QED
        BY <3>2, <3>4, <4>1 DEF Settled
    <3>5. CASE <<t, s>> \in ledger'[session[r]]
      <4>1. w \in Replaced(r)'
        BY <3>2, <3>3, <3>5 DEF Replaced
      <4>2. QED
        BY <3>2, <4>1 DEF Settled
    <3>6. QED
      BY <2>3, <3>4, <3>5 DEF Writing
  <2>4. ASSUME NEW q \in Requests, NEW k \in 1..Len(body[q]), k < region[q], NEW t \in body[q][k]
        PROVE  Settled(q, k, t)' \/ (k = region[q] - 1 /\ \E sp \in spans'[q] : sp.text = t)
    <3>1. CASE Settled(q, k, t)
      BY <2>2, <3>1
    <3>2. CASE k = region[q] - 1 /\ \E sp \in spans[q] : sp.text = t
      <4>1. PICK sp \in spans[q] : sp.text = t
        BY <3>2
      <4>2. CASE sp \in spans'[q]
        BY <3>2, <4>1, <4>2
      <4>3. CASE sp \notin spans'[q]
        <5>1. q = r /\ sp = span
          BY <1>3, <4>1, <4>3
        <5>2. k = n /\ t = span.text
          BY <3>2, <4>1, <5>1
        <5>3. Settled(r, k, t)'
          BY <2>3, <5>2
        <5>4. QED
          BY <5>1, <5>3
      <4>4. QED
        BY <4>2, <4>3
    <3>3. QED
      BY <2>4, <3>1, <3>2 DEF IInv, Covered
  <2>5. ASSUME NEW q \in forwarded
        PROVE  spans'[q] = {} /\ region[q] > Len(body[q])
    BY <1>1, <1>3 DEF IInv, Covered, TypeOK
  <2>6. QED
    BY <1>2, <2>4, <2>5 DEF Covered
<1>13. Restoring'
  <2>1. ASSUME NEW q \in Requests
        PROVE  IF answer[q].said = None THEN answer[q].got = None ELSE
               /\ session[q] # None
               /\ answer[q].said \in Texts /\ answer[q].got \in Texts
               /\ \/ answer[q].got = answer[q].said
                  \/ <<answer[q].got, answer[q].said>> \in ledger'[session[q]]
               /\ answer[q].status = OK /\ answer[q].object =>
                     \A w \in written'[q] : w.sent = answer[q].said =>
                        \/ answer[q].got = w.text
                        \/ /\ w.sent = w.text \/ OtherTypes(answer[q].got, w.text)
                           /\ <<answer[q].got, w.sent>> \in ledger'[session[q]]
    <3>1. CASE answer[q].said = None
      BY <3>1 DEF IInv, Restoring
    <3>2. CASE answer[q].said # None
      <4>1. q # r /\ written'[q] = written[q]
        BY <1>1, <1>3, <3>2 DEF NoAnswer
      <4>2. session[q] \in Requests
        BY <3>2 DEF IInv, TypeOK, Restoring
      <4>3. ledger[session[q]] \subseteq ledger'[session[q]]
        BY <1>4, <4>2 DEF Grows
      <4>4. QED
        BY <3>2, <4>1, <4>3 DEF IInv, Restoring
    <3>3. QED
      BY <3>1, <3>2
  <2>2. QED
    BY <1>2, <2>1 DEF Restoring
<1>14. QED
  BY <1>6, <1>7, <1>8, <1>9, <1>11, <1>12, <1>13 DEF IInv
-----------------------------------------------------------------------------
(* Steps that change where a request is, and nothing else of note *)

LEMMA ForwardIInv ==
    ASSUME IInv, NEW r \in Requests, Forward(r)
    PROVE  IInv'
<1>1. /\ pc[r] = "sanitizing" /\ spans[r] = {} /\ region[r] > Len(body[r])
      /\ forwarded' = forwarded \cup {r}
      /\ pc' = [pc EXCEPT ![r] = "waiting"] /\ running' = None
      /\ UNCHANGED <<failMode, entry, sessions, request, sanitizing, upstream, answer>>
  BY DEF Forward
<1>2. TypeOK'
  BY <1>1 DEF IInv, TypeOK
<1>3. Held'
  BY <1>1 DEF IInv, TypeOK, Held, Active
<1>4. Owned' /\ Minted' /\ Accounted'
  BY <1>1 DEF IInv, Owned, Minted, Accounted
<1>5. Restoring'
  BY <1>1 DEF IInv, Restoring
<1>6. Provenance'
  <2>1. \A q, t : Of(q, t)' <=> Of(q, t)
    BY <1>1 DEF Of
  <2>2. \A o, t : Known(o, t)' <=> Known(o, t)
    BY <1>1 DEF Known
  <2>3. QED
    BY <1>1, <2>1, <2>2 DEF IInv, Provenance
<1>7. Covered'
  <2>1. \A q, k, t : Settled(q, k, t)' <=> Settled(q, k, t)
    BY <1>1 DEF Settled, Replaced, Known
  <2>2. QED
    BY <1>1, <2>1 DEF IInv, Covered
<1>8. QED
  BY <1>2, <1>3, <1>4, <1>5, <1>6, <1>7 DEF IInv

LEMMA StartStreamingIInv ==
    ASSUME IInv, NEW r \in Requests, StartStreaming(r)
    PROVE  IInv'
<1>1. PICK status \in UpstreamStatuses : upstream' = [upstream EXCEPT ![r] = status]
  BY DEF StartStreaming
<1>2. /\ pc[r] = "waiting" /\ pc' = [pc EXCEPT ![r] = "streaming"]
      /\ UNCHANGED <<failMode, entry, sessions, running, request, sanitizing, forwarded, answer>>
  BY DEF StartStreaming, Waiting
<1>3. TypeOK'
  BY <1>1, <1>2 DEF IInv, TypeOK
<1>4. Held'
  BY <1>2 DEF IInv, TypeOK, Held, Active
<1>5. Owned' /\ Minted' /\ Accounted'
  BY <1>2 DEF IInv, Owned, Minted, Accounted
<1>6. Restoring'
  BY <1>2 DEF IInv, Restoring
<1>7. Provenance' /\ Covered'
  BY <1>2, Unmoved DEF IInv
<1>8. QED
  BY <1>3, <1>4, <1>5, <1>6, <1>7 DEF IInv

LEMMA IdleIInv ==
    ASSUME IInv, UNCHANGED vars
    PROVE  IInv'
<1>1. /\ failMode' = failMode /\ entry' = entry /\ ledger' = ledger /\ running' = running
      /\ filed' = filed
      /\ pc' = pc /\ id' = id /\ session' = session /\ body' = body /\ stream' = stream
      /\ region' = region /\ spans' = spans /\ written' = written /\ logged' = logged
      /\ forwarded' = forwarded /\ upstream' = upstream /\ answer' = answer
  BY DEF vars
<1>2. TypeOK'
  BY <1>1 DEF IInv, TypeOK
<1>3. Held' /\ Owned' /\ Minted' /\ Accounted'
  BY <1>1 DEF IInv, Held, Owned, Minted, Accounted
<1>4. Restoring'
  BY <1>1 DEF IInv, Restoring
<1>5. Provenance' /\ Covered'
  BY <1>1, Unmoved DEF IInv
<1>6. QED
  BY <1>2, <1>3, <1>4, <1>5 DEF IInv
-----------------------------------------------------------------------------
LEMMA ArriveIInv ==
    ASSUME IInv, NEW r \in Requests, Arrive(r)
    PROVE  IInv'
<1>1. CASE RefuseAnonymous(r)
  <2>1. Answering(r) /\ Refuse(r, 400)
    BY <1>1 DEF RefuseAnonymous, Answering, Refuse, Answer, IInv, TypeOK
  <2>2. QED
    BY <2>1, QuietAnswer
<1>2. CASE \E i \in Ids : Rejoin(r, i) \/ Open(r, i) \/ OpenEvicting(r, i)
  BY <1>2, EnterIInv
<1>3. CASE RefuseBody(r)
  <2>1. PICK status \in {400, 500} : Refuse(r, status)
    BY <1>3 DEF RefuseBody
  <2>2. Answering(r)
    BY <1>3, <2>1 DEF RefuseBody, Answering, Refuse, Answer, IInv, TypeOK
  <2>3. QED
    BY <2>1, <2>2, QuietAnswer
<1>4. CASE ReadBody(r)
  BY <1>4, ReadBodyIInv
<1>5. QED
  BY <1>1, <1>2, <1>3, <1>4 DEF Arrive

LEMMA SubstituteIInv ==
    ASSUME IInv, NEW r \in Requests, Substitute(r)
    PROVE  IInv'
<1>1. pc[r] = "sanitizing"
  BY DEF Substitute
<1>2. PICK span \in spans[r] :
        KeepReplay(r, span) \/ ReplaceName(r, span) \/ ReplaceNumber(r, span) \/ FailSpan(r, span)
  BY DEF Substitute
<1>3. CASE KeepReplay(r, span) \/ ReplaceName(r, span) \/ ReplaceNumber(r, span)
  <2>1. Minted' /\ \E s \in Texts : Writing(r, span, s)
    BY <1>1, <1>3, SubstituteForm
  <2>2. QED
    BY <2>1, WritingIInv
<1>4. CASE FailSpan(r, span)
  <2>1. Answering(r) /\ Refuse(r, 500)
    BY <1>1, <1>4 DEF FailSpan, Answering, Refuse, Answer, IInv, TypeOK
  <2>2. QED
    BY <2>1, QuietAnswer
<1>5. QED
  BY <1>2, <1>3, <1>4

LEMMA AnsweredIInv ==
    ASSUME IInv, NEW r \in Requests,
           DetectFailsClosed(r) \/ UpstreamFails(r) \/ Respond(r) \/ EndStream(r)
    PROVE  IInv'
<1>1. CASE DetectFailsClosed(r)
  <2>1. Answering(r) /\ Refuse(r, 503)
    BY <1>1 DEF DetectFailsClosed, AtRegion, Answering, Refuse, Answer, IInv, TypeOK
  <2>2. QED
    BY <2>1, QuietAnswer
<1>2. CASE UpstreamFails(r)
  <2>1. PICK status \in {502, 504} : Refuse(r, status)
    BY <1>2 DEF UpstreamFails
  <2>2. Answering(r)
    BY <1>2, <2>1 DEF UpstreamFails, Waiting, Answering, Refuse, Answer, IInv, TypeOK
  <2>3. QED
    BY <2>1, <2>2, QuietAnswer
<1>3. CASE Respond(r)
  <2>1. PICK status \in UpstreamStatuses :
          /\ upstream' = [upstream EXCEPT ![r] = status]
          /\ \/ \E said \in Sayings, object \in BOOLEAN :
                   Answer(r, status, said, object, Content(session[r], status, said, object))
             \/ status = OK /\ Refuse(r, 500)
    BY <1>3 DEF Respond
  <2>2. status \in Nat /\ pc[r] = "waiting"
    BY <1>3 DEF Respond, Waiting
  <2>3. pc' = [pc EXCEPT ![r] = "answered"] => Answering(r)
    BY <1>3, <2>1, <2>2 DEF Respond, Answering, IInv, TypeOK
  <2>4. CASE Refuse(r, 500)
    <3>1. Answering(r)
      BY <2>3, <2>4 DEF Refuse, Answer
    <3> QED
      BY <2>4, <3>1, QuietAnswer
  <2>5. ASSUME NEW said \in Sayings, NEW object \in BOOLEAN,
               Answer(r, status, said, object, Content(session[r], status, said, object))
        PROVE  IInv'
    <3>1. Answering(r) /\ said \in Texts
      BY <2>3, <2>5 DEF Answer
    <3> QED
      BY <2>2, <2>5, <3>1, RestoredAnswer DEF Active
  <2> QED
    BY <2>1, <2>4, <2>5
<1>4. CASE EndStream(r)
  <2>1. pc[r] = "streaming" /\ OK \in Nat
    BY <1>4, Statuses DEF EndStream
  <2>2. pc' = [pc EXCEPT ![r] = "answered"] => Answering(r)
    BY <1>4, <2>1 DEF EndStream, Answering, IInv, TypeOK
  <2>3. CASE Answer(r, OK, None, FALSE, None)
    <3>1. Answering(r) /\ Refuse(r, OK)
      BY <2>2, <2>3 DEF Refuse, Answer
    <3> QED
      BY <2>1, <3>1, QuietAnswer
  <2>4. ASSUME NEW said \in Sayings, Answer(r, OK, said, TRUE, Restored(session[r], said))
        PROVE  IInv'
    <3>1. Answering(r) /\ said \in Texts
      BY <2>2, <2>4 DEF Answer
    <3>2. Answer(r, OK, said, TRUE, Content(session[r], OK, said, TRUE))
      BY <2>4 DEF Content
    <3> QED
      BY <2>1, <3>1, <3>2, RestoredAnswer DEF Active
  <2> QED
    BY <1>4, <2>3, <2>4 DEF EndStream
<1>5. QED
  BY <1>1, <1>2, <1>3, <1>4

LEMMA NextIInv == IInv /\ [Next]_vars => IInv'
<1> SUFFICES ASSUME IInv, [Next]_vars PROVE IInv'
  OBVIOUS
<1>1. CASE UNCHANGED vars
  BY <1>1, IdleIInv
<1>2. ASSUME NEW r \in Requests, Arrive(r)
      PROVE  IInv'
  BY <1>2, ArriveIInv
<1>3. ASSUME NEW r \in Requests, Handle(r)
      PROVE  IInv'
  <2>1. CASE Detect(r) \/ DetectFailsOpen(r)
    BY <2>1, DetectIInv
  <2>2. CASE DetectFailsClosed(r) \/ UpstreamFails(r) \/ Respond(r) \/ EndStream(r)
    BY <2>2, AnsweredIInv
  <2>3. CASE Substitute(r)
    BY <2>3, SubstituteIInv
  <2>4. CASE Forward(r)
    BY <2>4, ForwardIInv
  <2>5. CASE StartStreaming(r)
    BY <2>5, StartStreamingIInv
  <2>6. QED
    BY <1>3, <2>1, <2>2, <2>3, <2>4, <2>5 DEF Handle
<1>4. QED
  BY <1>1, <1>2, <1>3 DEF Next
-----------------------------------------------------------------------------
(* Replays *)

\* Only the handler that has the event loop is sanitizing, so that nobody else mints
\* into its session; what it does not know to be a replay, but its session knows by
\* now, it has minted itself in the region under way.
Recognising ==
    \A r \in Requests : pc[r] = "sanitizing" =>
        /\ running = r
        /\ \A span \in spans[r] : ~span.ingress /\ Known(session[r], span.text) =>
              \E u \in written[r] : u.region = region[r] - 1 /\ u.sent = span.text

LEMMA InitRecognising == Init => Recognising
  BY DEF Init, Recognising

\* A pair is added to the session's ledger, and its surrogate to the body.
LEMMA WriteAdds ==
    ASSUME IInv, NEW r \in Requests, NEW span \in spans[r], pc[r] = "sanitizing",
           KeepReplay(r, span) \/ ReplaceName(r, span) \/ ReplaceNumber(r, span)
    PROVE  \E s \in Texts :
              /\ Write(r, span, s)
              /\ span.ingress => s = span.text
              /\ \A p \in ledger'[session[r]] : p \in ledger[session[r]] \/ p = <<span.text, s>>
<1>1. session[r] \in Requests /\ span.text \in Texts
  BY DEF IInv, Held, Active, TypeOK
<1>2. CASE KeepReplay(r, span)
  BY <1>1, <1>2 DEF KeepReplay
<1>3. CASE ReplaceName(r, span)
  <2>1. PICK s \in Pool :
          /\ Write(r, span, s)
          /\ Mint(session[r], span.text, s)
    BY <1>3 DEF ReplaceName
  <2>2. s \in Texts /\ ~span.ingress
    BY <1>3 DEF Texts, ReplaceName
  <2> QED
    BY <1>1, <2>1, <2>2, MintFiles
<1>4. CASE ReplaceNumber(r, span)
  <2> DEFINE s == Encrypt[span.text]
  <2>1. /\ span.text \in Numbers /\ Write(r, span, s) /\ ~span.ingress
        /\ Mint(session[r], span.text, s)
    BY <1>4 DEF ReplaceNumber
  <2>2. s \in Texts
    BY <2>1 DEF Texts
  <2>3. ledger'[session[r]] = ledger[session[r]] \cup {<<span.text, s>>}
    BY <1>1, <2>1, <2>2, MintFiles
  <2> HIDE DEF s
  <2> QED
    BY <2>1, <2>2, <2>3
<1> QED
  BY <1>2, <1>3, <1>4

LEMMA WriteRecognising ==
    ASSUME IInv, Recognising, NEW r \in Requests, NEW span \in spans[r],
           pc[r] = "sanitizing",
           KeepReplay(r, span) \/ ReplaceName(r, span) \/ ReplaceNumber(r, span)
    PROVE  Recognising'
<1>1. PICK s \in Texts :
        /\ Write(r, span, s)
        /\ \A p \in ledger'[session[r]] : p \in ledger[session[r]] \/ p = <<span.text, s>>
  BY WriteAdds
<1> DEFINE new == [region |-> region[r] - 1, text |-> span.text, sent |-> s]
<1>2. /\ written' = [written EXCEPT ![r] = @ \cup {new}]
      /\ spans' = [spans EXCEPT ![r] = @ \ {span}]
      /\ pc' = pc /\ running' = running /\ session' = session /\ region' = region
  BY <1>1 DEF Write
<1>3. new.region = region[r] - 1 /\ new.sent = s
  OBVIOUS
<1> HIDE DEF new
<1>4. written'[r] = written[r] \cup {new} /\ spans'[r] \subseteq spans[r]
  BY <1>2 DEF IInv, TypeOK
<1>5. \A q \in Requests : pc[q] = "sanitizing" => q = r /\ running = r
  BY DEF Recognising
<1>6. ASSUME NEW sp \in spans'[r], ~sp.ingress, Known(session[r], sp.text)'
      PROVE  \E u \in written'[r] : u.region = region[r] - 1 /\ u.sent = sp.text
  <2>1. PICK v \in Texts : <<v, sp.text>> \in ledger'[session[r]]
    BY <1>2, <1>6 DEF Known
  <2>2. CASE <<v, sp.text>> \in ledger[session[r]]
    <3>1. Known(session[r], sp.text) /\ sp \in spans[r]
      BY <1>4, <2>2 DEF Known
    <3>2. \E u \in written[r] : u.region = region[r] - 1 /\ u.sent = sp.text
      BY <1>6, <3>1 DEF Recognising
    <3> QED
      BY <1>4, <3>2
  <2>3. CASE <<v, sp.text>> = <<span.text, s>>
    <3>1. sp.text = s
      BY <2>3
    <3> QED
      BY <1>3, <1>4, <3>1
  <2> QED
    BY <1>1, <2>1, <2>2, <2>3
<1> QED
  BY <1>2, <1>5, <1>6 DEF Recognising

LEMMA RecognisingStep ==
    ASSUME IInv, Recognising, [Next]_vars
    PROVE  Recognising'
<1>1. ASSUME NEW r \in Requests, running = None, running' = None, pc'[r] # "sanitizing",
             \A q \in Requests : q # r => pc'[q] = pc[q]
      PROVE  Recognising'
  BY <1>1 DEF Recognising
<1>2. ASSUME NEW r \in Requests, pc[r] = "sanitizing", pc'[r] # "sanitizing",
             \A q \in Requests : q # r => pc'[q] = pc[q]
      PROVE  Recognising'
  BY <1>2 DEF Recognising
<1>3. ASSUME NEW r \in Requests, Arrive(r), ~ReadBody(r) PROVE Recognising'
  <2>1. RefuseAnonymous(r) \/ RefuseBody(r) \/ \E i \in Ids : Enter(r, i)
    BY <1>3 DEF Arrive, Rejoin, Open, OpenEvicting
  <2>2. ASSUME NEW w, w # "sanitizing", pc' = [pc EXCEPT ![r] = w], running = None,
               running' = running
        PROVE  Recognising'
    <3>1. pc'[r] # "sanitizing" /\ \A q \in Requests : q # r => pc'[q] = pc[q]
      BY <2>2 DEF IInv, TypeOK
    <3> QED
      BY <1>1, <2>2, <3>1
  <2>3. CASE RefuseAnonymous(r)
    BY <2>2, <2>3 DEF RefuseAnonymous, Refuse, Answer
  <2>4. CASE RefuseBody(r)
    <3>1. PICK status \in {400, 500} : Refuse(r, status)
      BY <2>4 DEF RefuseBody
    <3>2. pc' = [pc EXCEPT ![r] = "answered"]
      BY <3>1 DEF Refuse, Answer
    <3>3. running = None /\ running' = running
      BY <2>4 DEF RefuseBody
    <3>4. pc'[r] # "sanitizing" /\ \A q \in Requests : q # r => pc'[q] = pc[q]
      BY <3>2 DEF IInv, TypeOK
    <3> QED
      BY <1>1, <3>3, <3>4
  <2>5. CASE \E i \in Ids : Enter(r, i)
    BY <2>2, <2>5 DEF Enter
  <2> QED
    BY <2>1, <2>3, <2>4, <2>5
<1>4. ASSUME NEW r \in Requests, ReadBody(r) PROVE Recognising'
  <2>1. spans'[r] = {} /\ running' = r
    BY <1>4 DEF ReadBody, IInv, Held
  <2>2. \A q \in Requests : q # r => pc'[q] # "sanitizing"
    BY <1>4 DEF ReadBody, Recognising, IInv, TypeOK
  <2> QED
    BY <2>1, <2>2 DEF Recognising
<1>5. ASSUME NEW r \in Requests, NEW texts, Detecting(r, texts) PROVE Recognising'
  <2>1. \A q \in Requests : pc[q] = "sanitizing" => q = r
    BY <1>5 DEF Detecting, AtRegion, Recognising
  <2>2. /\ spans'[r] = Recognised(r, texts) /\ pc' = pc /\ running' = r
        /\ session' = session /\ ledger' = ledger
    BY <1>5 DEF Detecting, AtRegion, IInv, TypeOK
  <2>3. ASSUME NEW span \in spans'[r], ~span.ingress PROVE ~Known(session[r], span.text)
    <3>1. PICK t \in texts : span = [text |-> t, ingress |-> Known(session[r], t)]
      BY <2>2 DEF Recognised
    <3>2. span.text = t /\ span.ingress = Known(session[r], t)
      BY ONLY <3>1
    <3> QED
      BY <2>3, <3>2
  <2>4. ASSUME NEW t PROVE Known(session[r], t)' <=> Known(session[r], t)
    BY <2>2 DEF Known
  <2> QED
    BY <2>1, <2>2, <2>3, <2>4 DEF Recognising
<1>6. ASSUME NEW r \in Requests, Detect(r) \/ DetectFailsOpen(r) PROVE Recognising'
  <2>1. Detect(r) => Detecting(r, body[r][region[r]])
    BY DEF Detect, Detecting
  <2>2. DetectFailsOpen(r) => Detecting(r, Tier1Texts(r))
    BY DEF DetectFailsOpen, Detecting
  <2> QED
    BY <1>5, <1>6, <2>1, <2>2
<1>7. ASSUME NEW r \in Requests, Substitute(r) PROVE Recognising'
  <2>1. PICK span \in spans[r] : \/ KeepReplay(r, span) \/ ReplaceName(r, span)
                                 \/ ReplaceNumber(r, span) \/ FailSpan(r, span)
    BY <1>7 DEF Substitute
  <2>2. CASE FailSpan(r, span)
    BY <1>2, <1>7, <2>2 DEF Substitute, FailSpan, Refuse, Answer, IInv, TypeOK
  <2> QED
    BY <1>7, <2>1, <2>2, WriteRecognising DEF Substitute
<1>8. ASSUME NEW r \in Requests, DetectFailsClosed(r) \/ Forward(r) PROVE Recognising'
  BY <1>2, <1>8 DEF DetectFailsClosed, AtRegion, Forward, Refuse, Answer, IInv, TypeOK
<1>9. ASSUME NEW r \in Requests,
             UpstreamFails(r) \/ Respond(r) \/ StartStreaming(r) \/ EndStream(r)
      PROVE  Recognising'
  BY <1>1, <1>9, ZenonT(30) DEF UpstreamFails, Respond, StartStreaming, EndStream, Waiting, Refuse,
     Answer,     IInv, TypeOK
<1>10. CASE UNCHANGED vars
  BY <1>10 DEF vars, Recognising, Known
<1> QED
  BY <1>3, <1>4, <1>6, <1>7, <1>8, <1>9, <1>10 DEF Next, Handle

\* A step writes one span, or spans as they are, or nothing.
LEMMA ReplayStep ==
    ASSUME IInv, Recognising, [Next]_vars, NEW r \in Requests,
           NEW w \in written'[r] \ written[r], w.sent # w.text, Known(session[r], w.text)
    PROVE  \E u \in written[r] : u.region = w.region /\ u.sent = w.text
<1>1. ASSUME NEW q \in Requests, Substitute(q)
      PROVE  \E u \in written[r] : u.region = w.region /\ u.sent = w.text
  <2>1. PICK span \in spans[q] : \/ KeepReplay(q, span) \/ ReplaceName(q, span)
                                 \/ ReplaceNumber(q, span) \/ FailSpan(q, span)
    BY <1>1 DEF Substitute
  <2>2. ~FailSpan(q, span)
    BY DEF FailSpan
  <2>3. PICK s \in Texts : Write(q, span, s) /\ (span.ingress => s = span.text)
    BY <1>1, <2>1, <2>2, WriteAdds DEF Substitute
  <2> DEFINE new == [region |-> region[q] - 1, text |-> span.text, sent |-> s]
  <2>4. written' = [written EXCEPT ![q] = @ \cup {new}]
    BY <2>3 DEF Write
  <2>5. new.region = region[q] - 1 /\ new.text = span.text /\ new.sent = s
    OBVIOUS
  <2> HIDE DEF new
  <2>6. q = r /\ w = new
    BY <2>4 DEF IInv, TypeOK
  <2>7. ~span.ingress /\ Known(session[r], span.text)
    BY <2>3, <2>5, <2>6
  <2> QED
    BY <1>1, <2>5, <2>6, <2>7 DEF Recognising, Substitute
<1>2. ASSUME NEW q \in Requests, DetectFailsOpen(q) PROVE FALSE
  <2>1. written' = [written EXCEPT ![q] = @ \cup Unchanged(q, body[q][region[q]] \cap Names)]
    BY <1>2 DEF DetectFailsOpen
  <2>2. w \in Unchanged(q, body[q][region[q]] \cap Names)
    BY <2>1 DEF IInv, TypeOK
  <2> QED
    BY <2>2 DEF Unchanged
<1>3. written' # written
  OBVIOUS
<1>4. ASSUME NEW q \in Requests, Arrive(q) PROVE FALSE
  BY <1>3, <1>4 DEF Arrive, RefuseAnonymous, Rejoin, Open, OpenEvicting, Enter, RefuseBody,
     ReadBody
<1>5. ASSUME NEW q \in Requests, Handle(q), ~Substitute(q), ~DetectFailsOpen(q) PROVE FALSE
  BY <1>3, <1>5 DEF Handle, Detect, DetectFailsClosed, Forward, UpstreamFails, Respond,
     StartStreaming, EndStream
<1>6. ~UNCHANGED vars
  BY <1>3 DEF vars
<1> QED
  BY <1>1, <1>2, <1>4, <1>5, <1>6 DEF Next
-----------------------------------------------------------------------------
(* The theorems *)

\* What the session knows, what a request has written and what is left to do keep
\* together through every interleaving of handlers at their awaits.
THEOREM GatewayInvariance == Spec => []IInv
  BY InitIInv, NextIInv, PTL DEF Spec

\* The variables of chat_completions and the state it shares keep their types.
THEOREM GatewayTypeCorrect == Spec => []TypeOK
<1>1. IInv => TypeOK
  BY DEF IInv
<1>2. QED
  BY <1>1, GatewayInvariance, PTL

\* sanitize: no body is forwarded with a span left that nobody has dealt with,
\* whatever failed, whoever else was minting, and however many regions there are.
THEOREM FullySanitizedOrNotForwardedHolds == Spec => []FullySanitizedOrNotForwarded
<1>1. IInv => FullySanitizedOrNotForwarded
  <2> SUFFICES ASSUME IInv, NEW r \in forwarded, NEW k \in 1..Len(body[r]), NEW t \in body[r][k]
               PROVE  Settled(r, k, t)
    BY DEF FullySanitizedOrNotForwarded, Settled
  <2>1. r \in Requests /\ spans[r] = {} /\ region[r] > Len(body[r])
    BY DEF IInv, TypeOK, Covered
  <2>2. k < region[r]
    <3>1. Len(body[r]) \in Nat /\ region[r] \in Nat
      BY <2>1, Statuses DEF IInv, TypeOK
    <3>2. QED
      BY <2>1, <3>1
  <2>3. QED
    BY <2>1, <2>2 DEF IInv, Covered
<1>2. QED
  BY <1>1, GatewayInvariance, PTL

\* _rehydrated_content and _generate_sse: a surrogate sent with a request comes back as
\* what it replaced, whatever has become of the session in the store.
THEOREM AnswerRestoredHolds == Spec => []AnswerRestored
<1>1. IInv => AnswerRestored
  <2> SUFFICES ASSUME IInv, NEW r \in Requests, answer[r].status = OK, answer[r].object,
                      NEW w \in Replaced(r), answer[r].said = w.sent
               PROVE  \/ answer[r].got = w.text
                      \/ SentForAnother(session[r], answer[r].got, w.text, w.sent)
    BY DEF AnswerRestored
  <2>1. /\ w \in written[r] /\ <<w.text, w.sent>> \in ledger[session[r]]
        /\ session[r] \in Requests /\ w.sent \in Texts
    BY DEF Replaced, IInv, Held, TypeOK
  <2>2. \/ answer[r].got = w.text
        \/ <<answer[r].got, w.sent>> \in ledger[session[r]]
    BY <2>1 DEF IInv, Restoring
  <2>3. CASE <<answer[r].got, w.sent>> \in ledger[session[r]]
    BY <2>1, <2>3 DEF IInv, Minted, Paired, OtherTypes, SentForAnother
  <2>4. QED
    BY <2>2, <2>3
<1>2. QED
  BY <1>1, GatewayInvariance, PTL

\* No answer holds a real value that no request of its own conversation has sent.
THEOREM OwnValuesOnlyHolds == Spec => []OwnValuesOnly
<1>1. IInv => OwnValuesOnly
  <2> SUFFICES ASSUME IInv, NEW r \in Requests, answer[r].got # answer[r].said
               PROVE  \E q \in Requests :
                         id[q] = id[r] /\ \E k \in 1..Len(body[q]) : answer[r].got \in body[q][k]
    BY DEF OwnValuesOnly
  <2>1. /\ answer[r].said # None /\ session[r] \in Requests
        /\ <<answer[r].got, answer[r].said>> \in ledger[session[r]]
    BY DEF IInv, Restoring, TypeOK
  <2>2. PICK q \in Requests : id[q] = id[session[r]] /\ Of(q, answer[r].got)
    BY <2>1 DEF IInv, Provenance
  <2>3. id[session[r]] = id[r]
    BY <2>1 DEF IInv, Owned
  <2>4. QED
    BY <2>2, <2>3 DEF Of
<1>2. QED
  BY <1>1, GatewayInvariance, PTL

\* Overlapping turns of a conversation that share a session use its names one to one.
THEOREM NamesConsistentHolds == Spec => []NamesConsistent
<1>1. IInv => NamesConsistent
  <2> SUFFICES ASSUME IInv, NEW q \in Requests, NEW r \in Requests, session[q] = session[r],
                      NEW u \in Replaced(q), NEW w \in Replaced(r),
                      u.text \in Names, w.text \in Names
               PROVE  u.text = w.text <=> u.sent = w.sent
    BY DEF NamesConsistent
  <2>1. /\ session[r] \in Requests
        /\ <<u.text, u.sent>> \in ledger[session[r]]
        /\ <<w.text, w.sent>> \in ledger[session[r]]
    BY DEF Replaced, IInv, Held, TypeOK
  <2>2. Paired(<<u.text, u.sent>>, <<w.text, w.sent>>)
    BY <2>1 DEF IInv, Minted
  <2>3. ~OtherTypes(u.text, w.text)
    BY DEF OtherTypes
  <2>4. QED
    BY <2>2, <2>3 DEF Paired
<1>2. QED
  BY <1>1, GatewayInvariance, PTL

\* A surrogate that a turn sends back is never replaced by another one, unless it was
\* minted within the same region, behind whose detection it only came to be known.
THEOREM ReplaysLeftAloneHolds == Spec => ReplaysLeftAlone
<1>1. IInv /\ Recognising /\ [Next]_vars => Recognising'
  BY RecognisingStep
<1> DEFINE LeftAlone ==
              \A r \in Requests : \A w \in written'[r] \ written[r] :
                 w.sent # w.text /\ Known(session[r], w.text) =>
                     \E u \in written[r] : u.region = w.region /\ u.sent = w.text
<1>2. IInv /\ Recognising /\ [Next]_vars => LeftAlone
  BY ReplayStep
<1>3. LeftAlone => [LeftAlone]_vars
  OBVIOUS
<1> QED
  BY <1>1, <1>2, <1>3, InitRecognising, GatewayInvariance, PTL DEF Spec, ReplaysLeftAlone
=============================================================================
